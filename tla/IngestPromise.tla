--------------------------- MODULE IngestPromise ---------------------------
(***************************************************************************)
(* What the ingestion API promises about one request, whatever happens to  *)
(* Redis, to the consumer and to the API worker:                           *)
(*   - every processing attempt the request gave rise to is settled at     *)
(*     most once, and stores the email at most once;                       *)
(*   - a caller is told a verdict only for an email that is stored.        *)
(* IngestQueue implements it.                                              *)
(***************************************************************************)
EXTENDS Naturals

CONSTANTS Reqs, MaxAttempts

VARIABLES
  due,       \* request -> attempts owed: jobs pushed or calls in progress
  stored,    \* request -> rows of the emails table it produced
  told       \* request -> what its caller knows

Answers == {"nothing", "accepted", "verdict", "error"}

Init ==
  /\ due = [r \in Reqs |-> 0]
  /\ stored = [r \in Reqs |-> 0]
  /\ told = [r \in Reqs |-> "nothing"]

\* A step may settle or add attempts ...

Owe(r, n) ==
  /\ told[r] = "nothing"
  /\ due[r] + n <= MaxAttempts
  /\ due' = [due EXCEPT ![r] = @ + n]
  /\ UNCHANGED stored

\* One attempt ends and stores the email.
Store(r) ==
  /\ due[r] > 0
  /\ due' = [due EXCEPT ![r] = @ - 1]
  /\ stored' = [stored EXCEPT ![r] = @ + 1]

\* Attempts fail or are lost; a Redis restart loses all the queued ones.
Drop ==
  /\ due' \in [Reqs -> 0..MaxAttempts]
  /\ \A r \in Reqs : due'[r] <= due[r]
  /\ UNCHANGED stored

\* ... and tell a caller something; a verdict only if there is one.
Tell(r, a) ==
  /\ a = "accepted" => told[r] = "nothing"
  /\ a = "verdict" => stored'[r] > 0
  /\ told' = [told EXCEPT ![r] = a]

Attempts == \/ Drop
            \/ \E r \in Reqs : Store(r) \/ \E n \in 1..MaxAttempts : Owe(r, n)

Telling == \/ UNCHANGED told
           \/ \E r \in Reqs : \E a \in Answers \ {"nothing"} : Tell(r, a)

Next == Attempts /\ Telling

Spec == Init /\ [][Next]_<<due, stored, told>>

=============================================================================
