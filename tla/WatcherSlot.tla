---------------------------- MODULE WatcherSlot ----------------------------
(***************************************************************************)
(* services/email_watcher.py, _acquire_single_watcher_slot: which of the    *)
(* worker processes watches the mailboxes.  A Redis key with a time to live *)
(* decides when the process reaches Redis, a file lock of the host when it  *)
(* does not.  A holder never looks at the lock again: a thread of its own   *)
(* renews the key by name, whoever the key belongs to by then.              *)
(*                                                                         *)
(* Time passes in ticks of 15 seconds, the renewal interval.                *)
(***************************************************************************)
EXTENDS Integers, FiniteSets, Faults

CONSTANTS
  Procs,      \* the worker processes
  HostOf,     \* process -> the host it runs on
  Ttl         \* time to live of the key in ticks (ex=45)

ASSUME SlotAssumption == Ttl \in Nat \ {0}

VARIABLES
  alive,     \* process -> "up", "stalled" (all its threads) or "down"
  client,    \* process -> what get_redis caches: "unknown", "redis" or "none"
  slot,      \* process -> the slot it believes to hold: "none", "redis", "file"
  renews,    \* process -> its renewal thread runs
  ttl,       \* ticks left of the Redis key, 0 when there is none
  redisUp,   \* Redis answers
  disturbed  \* history: Redis failed, or the key lapsed under its holder

slotVars == <<alive, client, slot, renews, ttl, redisUp, disturbed>>

Holders == {p \in Procs : slot[p] # "none"}
Active  == {p \in Holders : alive[p] = "up"}
KeyHeld == \E p \in Procs : slot[p] = "redis"

SlotInit ==
  /\ alive  = [p \in Procs |-> "up"]
  /\ client = [p \in Procs |-> "unknown"]
  /\ slot   = [p \in Procs |-> "none"]
  /\ renews = [p \in Procs |-> FALSE]
  /\ ttl = 0 /\ redisUp = TRUE /\ disturbed = FALSE

\* get_redis (cache.py): the first call of a process decides for its lifetime.
Connected(p) == IF client[p] # "unknown" THEN client[p]
                ELSE IF redisUp THEN "redis" ELSE "none"
FileFree(p)  == \A q \in Procs : slot[q] = "file" => HostOf[q] # HostOf[p]

\* Mutation: the key is written whether or not it exists.
SeizeKey(p) ==
  /\ slot' = [slot EXCEPT ![p] = "redis"]
  /\ renews' = [renews EXCEPT ![p] = TRUE]
  /\ ttl' = Ttl
\* SET nx ex.
TakeKey(p) ==
  /\ ttl = 0
  /\ slot' = [slot EXCEPT ![p] = "redis"]
  /\ renews' = [renews EXCEPT ![p] = TRUE]
  /\ ttl' = Ttl

\* Mutation: the key is set without an expiry.
NeverLapse(n) == n
\* Mutation: an expired key goes on counting.
LapseOn(n) == n - 1
Lapse(n) == IF n = 0 THEN 0 ELSE n - 1

\* One round of the loop of start_email_watcher: the key, or the file lock when
\* there is no client or the call raises.
Acquire(p) ==
  /\ alive[p] = "up" /\ slot[p] = "none"
  /\ client' = [client EXCEPT ![p] = Connected(p)]
  /\ \/ /\ Connected(p) = "redis" /\ redisUp
        /\ \/ TakeKey(p)
           \/ ttl > 0 /\ UNCHANGED <<slot, renews, ttl>>
     \/ /\ Connected(p) = "none" \/ ~redisUp
        /\ IF FileFree(p) THEN slot' = [slot EXCEPT ![p] = "file"] ELSE UNCHANGED slot
        /\ UNCHANGED <<renews, ttl>>
  /\ UNCHANGED <<alive, redisUp, disturbed, faults>>

\* Fifteen seconds: every renewal thread that runs calls EXPIRE once, and stops
\* for good when the call raises; a key nobody renews gets closer to its end.
Tick ==
  LET awake == {p \in Procs : renews[p] /\ alive[p] = "up"}
  IN  /\ IF redisUp /\ ttl > 0 /\ awake # {}
           THEN ttl' = Ttl
           ELSE ttl' = Lapse(ttl)
      /\ renews' = [p \in Procs |-> renews[p] /\ (redisUp \/ p \notin awake)]
      /\ disturbed' = (disturbed \/ (ttl' = 0 /\ KeyHeld))
      /\ UNCHANGED <<alive, client, slot, redisUp, faults>>

\* A paused process or an overloaded host: no thread of it runs.
Stall(p) ==
  /\ alive[p] = "up" /\ Fault
  /\ alive' = [alive EXCEPT ![p] = "stalled"]
  /\ UNCHANGED <<client, slot, renews, ttl, redisUp, disturbed>>
Resume(p) ==
  /\ alive[p] = "stalled"
  /\ alive' = [alive EXCEPT ![p] = "up"]
  /\ UNCHANGED <<client, slot, renews, ttl, redisUp, disturbed, faults>>

\* The key outlives its holder, the file lock does not.
Crash(p) ==
  /\ alive[p] # "down" /\ Fault
  /\ alive'  = [alive  EXCEPT ![p] = "down"]
  /\ client' = [client EXCEPT ![p] = "unknown"]
  /\ slot'   = [slot   EXCEPT ![p] = "none"]
  /\ renews' = [renews EXCEPT ![p] = FALSE]
  /\ UNCHANGED <<ttl, redisUp, disturbed>>
Restart(p) ==
  /\ alive[p] = "down"
  /\ alive' = [alive EXCEPT ![p] = "up"]
  /\ UNCHANGED <<client, slot, renews, ttl, redisUp, disturbed, faults>>

RedisDown ==
  /\ redisUp /\ Fault
  /\ redisUp' = FALSE /\ disturbed' = TRUE
  /\ UNCHANGED <<alive, client, slot, renews, ttl>>
\* Without persistence (docker-compose.yml) a restarted Redis is empty.
RedisUp ==
  /\ ~redisUp
  /\ redisUp' = TRUE
  /\ ttl' \in {0, ttl}
  /\ UNCHANGED <<alive, client, slot, renews, disturbed, faults>>

SlotStep ==
  \/ \E p \in Procs : Acquire(p) \/ Stall(p) \/ Resume(p) \/ Restart(p)
  \/ Tick \/ RedisDown \/ RedisUp

\* The workers and Redis are restarted by the supervisor ("restart:
\* unless-stopped"), a paused process goes on, and the standby loop retries.
SlotFairness ==
  /\ WF_slotVars(Tick)
  /\ WF_slotVars(RedisUp)
  /\ \A p \in Procs : WF_slotVars(Acquire(p) \/ Resume(p) \/ Restart(p))

----------------------------------------------------------------------------
(* Properties. *)

\* email_watcher.py:224: "ONLY ONE process runs the watcher".  It does as long
\* as Redis answers and no holder is paused for longer than its key lives;
\* crashes and restarts of workers at any moment do not break it.
OneWatcher == disturbed \/ Cardinality(Holders) <= 1

\* A standby takes over when the holder dies (email_watcher.py:277): the
\* mailboxes never stay without a running watcher.
SlotIsTaken == []<>(Active # {})

=============================================================================
