---------------------------- MODULE CloudProofs ----------------------------
(***************************************************************************)
(* Proofs about CloudConnectors: for any number of workers, hosts,           *)
(* mailboxes, messages and campaigns, any budget of faults and any time to   *)
(* live of the watcher's key.                                               *)
(***************************************************************************)
EXTENDS CloudConnectors, FiniteSetTheorems, TLAPS

USE SlotAssumption, FaultsAssumption

----------------------------------------------------------------------------
(* The watcher slot. *)

SlotTypes ==
  /\ alive \in [Procs -> {"up", "stalled", "down"}]
  /\ client \in [Procs -> {"unknown", "redis", "none"}]
  /\ slot \in [Procs -> {"none", "redis", "file"}]
  /\ renews \in [Procs -> BOOLEAN]
  /\ ttl \in 0..Ttl /\ redisUp \in BOOLEAN /\ disturbed \in BOOLEAN

\* Every step of the slot, and the death of a worker, keeps its types.
LEMMA SlotTyping ==
  ASSUME SlotTypes, SlotStep \/ \E p \in Procs : Crash(p) PROVE SlotTypes'
<1> USE DEF SlotTypes
<1>1. ASSUME NEW p \in Procs, Acquire(p) PROVE SlotTypes'
  <2>1. Connected(p) \in {"redis", "none", "unknown"}
    BY DEF Connected
  <2>2. renews' \in [Procs -> BOOLEAN] /\ UNCHANGED <<alive, redisUp, disturbed>>
    BY <1>1 DEF Acquire, TakeKey
  <2>3. client' \in [Procs -> {"unknown", "redis", "none"}]
    BY <1>1, <2>1 DEF Acquire
  <2>4. slot' \in [Procs -> {"none", "redis", "file"}] /\ ttl' \in 0..Ttl
    BY <1>1 DEF Acquire, TakeKey
  <2> QED
    BY <2>2, <2>3, <2>4
<1>2. ASSUME NEW p \in Procs, Stall(p) \/ Resume(p) \/ Restart(p) \/ Crash(p) PROVE SlotTypes'
  BY <1>2 DEF Stall, Resume, Restart, Crash
<1>3. CASE Tick
  <2>1. ttl' \in 0..Ttl
    BY <1>3 DEF Tick, Lapse
  <2>2. renews' \in [Procs -> BOOLEAN] /\ disturbed' \in BOOLEAN
    BY <1>3, Zenon DEF Tick
  <2> QED
    BY <1>3, <2>1, <2>2 DEF Tick
<1>4. CASE RedisDown
  BY <1>4 DEF RedisDown
<1>5. CASE RedisUp
  BY <1>5 DEF RedisUp
<1> QED
  BY <1>1, <1>2, <1>3, <1>4, <1>5 DEF SlotStep

\* What OneWatcher rests on: until something disturbs the slot nobody falls back
\* to a file lock, and the key lives as long as it has a holder, which keeps
\* every other process from taking it.
KeyDecides ==
  ~disturbed =>
    /\ redisUp
    /\ \A p \in Procs : client[p] # "none" /\ slot[p] # "file"
    /\ \A p, q \in Procs : slot[p] = "redis" /\ slot[q] = "redis" => p = q
    /\ KeyHeld => ttl > 0

\* Time, acquisition, renewal, stalls and crashes keep the key deciding who
\* holds the slot.
LEMMA KeyStep ==
  ASSUME SlotTypes, KeyDecides, SlotStep \/ \E p \in Procs : Crash(p) PROVE KeyDecides'
<1> USE DEF SlotTypes, KeyDecides, KeyHeld
<1>1. ASSUME NEW p \in Procs, Acquire(p) PROVE KeyDecides'
  <2> SUFFICES ASSUME ~disturbed PROVE KeyDecides'
    BY <1>1 DEF Acquire
  <2>1. Connected(p) = "redis"
    BY DEF Connected
  <2>2. CASE TakeKey(p)
    BY <1>1, <2>1, <2>2 DEF Acquire, TakeKey
  <2>3. CASE UNCHANGED <<slot, renews, ttl>>
    BY <1>1, <2>1, <2>3 DEF Acquire
  <2> QED
    BY <1>1, <2>1, <2>2, <2>3 DEF Acquire
<1>2. ASSUME NEW p \in Procs, Stall(p) \/ Resume(p) \/ Restart(p) \/ Crash(p) PROVE KeyDecides'
  BY <1>2 DEF Stall, Resume, Restart, Crash
<1>3. CASE Tick
  BY <1>3 DEF Tick, Lapse
<1>4. CASE RedisDown \/ RedisUp
  BY <1>4 DEF RedisDown, RedisUp
<1> QED
  BY <1>1, <1>2, <1>3, <1>4 DEF SlotStep

\* Until something disturbs the slot, its holders are one process.
LEMMA HoldersAreOne ==
  ASSUME SlotTypes, KeyDecides, ~disturbed, NEW p \in Holders, NEW q \in Holders
  PROVE  p = q
BY DEF SlotTypes, KeyDecides, Holders

\* A key that decides leaves the slot one holder at most.
LEMMA HoldersCounted == ASSUME SlotTypes, KeyDecides PROVE OneWatcher
<1> SUFFICES ASSUME ~disturbed PROVE Cardinality(Holders) <= 1
  BY DEF OneWatcher
<1>1. CASE Holders = {}
  BY <1>1, FS_EmptySet
<1>2. ASSUME NEW p \in Holders PROVE Cardinality(Holders) <= 1
  <2>1. Holders = {p}
    BY HoldersAreOne
  <2> QED
    BY <2>1, FS_Singleton
<1> QED
  BY <1>1, <1>2

----------------------------------------------------------------------------
(* The campaigns. *)

SimTypes ==
  /\ registry \subseteq Campaigns \X People
  /\ profile \in [Secrets -> {"none", "fresh", "stale"}]
  /\ stage \in [Campaigns -> {"idle", "stamping", "posting", "registering", "over", "failed"}]
  /\ targets \in [Campaigns -> SUBSET People] /\ plain \in [Campaigns -> BOOLEAN]
  /\ tokens \in [Campaigns -> SUBSET Secrets]
  /\ todoReg \in [Campaigns -> SUBSET People]
  /\ trouble \in [Campaigns -> SUBSET {"unstamped", "unregistered", "aged"}]

\* The worker that launched a campaign signs with one of the secrets.
LEMMA OwnSecret == ASSUME NEW c \in Campaigns PROVE SecretOf[LauncherOf[c]] \in Secrets
BY CampaignAssumption

\* The steps of a campaign keep its types.
LEMMA SimTyping == ASSUME SimTypes, SimStep PROVE SimTypes'
<1> USE DEF SimTypes
<1>1. ASSUME NEW c \in Campaigns, Launch(c) PROVE SimTypes'
  BY <1>1 DEF Launch
<1>2. ASSUME NEW c \in Campaigns, Stamp(c) PROVE SimTypes'
  BY <1>2, OwnSecret DEF Stamp, Stamped
<1>3. ASSUME NEW c \in Campaigns, Post(c) PROVE SimTypes'
  BY <1>3 DEF Post, Fresh
<1>4. ASSUME NEW c \in Campaigns, Register(c) PROVE SimTypes'
  BY <1>4 DEF Register
<1>5. ASSUME NEW c \in Campaigns, Abandon(c) PROVE SimTypes'
  BY <1>5 DEF Abandon
<1>6. CASE Age
  BY <1>6 DEF Age
<1> QED
  BY <1>1, <1>2, <1>3, <1>4, <1>5, <1>6 DEF SimStep, Launching

\* A campaign that nothing went wrong with carries a token of its launcher's
\* secret from the moment it is sent, and every target that is not waiting for
\* its registration has it.
CampaignsKeepTrack ==
  \A c \in Campaigns :
    /\ todoReg[c] \subseteq targets[c]
    /\ todoReg[c] # {} => stage[c] = "registering"
    /\ trouble[c] = {} =>
         /\ stage[c] = "posting" => profile[SecretOf[LauncherOf[c]]] = "fresh"
         /\ stage[c] \in {"registering", "over"} =>
              /\ SecretOf[LauncherOf[c]] \in tokens[c]
              /\ \A b \in targets[c] \ todoReg[c] : <<c, b>> \in registry

\* A campaign loses track of none of its targets.
LEMMA CampaignStep ==
  ASSUME SimTypes, CampaignsKeepTrack, SimStep PROVE CampaignsKeepTrack'
<1> USE DEF SimTypes, CampaignsKeepTrack
<1>1. ASSUME NEW c \in Campaigns, Launch(c) PROVE CampaignsKeepTrack'
  BY <1>1 DEF Launch
<1>2. ASSUME NEW c \in Campaigns, Stamp(c) PROVE CampaignsKeepTrack'
  BY <1>2, OwnSecret, SMTT(30) DEF Stamp, Stamped
<1>3. ASSUME NEW c \in Campaigns, Post(c) PROVE CampaignsKeepTrack'
  BY <1>3, OwnSecret DEF Post, Fresh
<1>4. ASSUME NEW c \in Campaigns, Register(c) PROVE CampaignsKeepTrack'
  <2> PICK b \in todoReg[c] : Register(c)!(b)
    BY <1>4 DEF Register
  <2>1. /\ todoReg' = [todoReg EXCEPT ![c] = @ \ {b}]
        /\ stage' = [stage EXCEPT ![c] = IF todoReg[c] = {b} THEN "over" ELSE @]
        /\ UNCHANGED <<profile, targets, tokens>>
    OBVIOUS
  <2>2. \/ registry' = registry \cup {<<c, b>>} /\ UNCHANGED trouble
        \/ trouble' = [trouble EXCEPT ![c] = @ \cup {"unregistered"}] /\ UNCHANGED registry
    OBVIOUS
  <2> QED
    BY <2>1, <2>2
<1>5. ASSUME NEW c \in Campaigns, Abandon(c) PROVE CampaignsKeepTrack'
  <2> SUFFICES ASSUME NEW d \in Campaigns, d = c PROVE CampaignsKeepTrack!(d)'
    BY <1>5 DEF Abandon
  <2>1. CASE todoReg[c] = {}
    BY <1>5, <2>1 DEF Abandon
  <2>2. CASE todoReg[c] # {}
    BY <1>5, <2>2 DEF Abandon
  <2> QED
    BY <2>1, <2>2
<1>6. CASE Age
  BY <1>6 DEF Age
<1> QED
  BY <1>1, <1>2, <1>3, <1>4, <1>5, <1>6 DEF SimStep, Launching

----------------------------------------------------------------------------
(* The pollers. *)

InHand == {"analysing", "stored", "marked"}

CloudTypes ==
  /\ place \in [Msgs -> {"unsent", "inbox", "quarantine"}]
  /\ seen \subseteq Msgs /\ rows \in [Msgs -> Nat]
  /\ pc \in [Procs -> {"idle", "open"} \cup InHand]
  /\ todo \in [Procs -> SUBSET Msgs] /\ cur \in [Procs -> Msgs \cup {None}]
  /\ unmarked \subseteq Msgs /\ unmoved \subseteq Msgs
  /\ overlooked \subseteq Msgs /\ foreign \subseteq Msgs
  /\ \A p \in Procs : cur[p] \in Msgs <=> pc[p] \in InHand

\* Only a holder of the slot is in the middle of a poll.
PollersHold == \A p \in Procs : pc[p] # "idle" => slot[p] # "none"

\* The steps of a poll keep the types.
LEMMA PollerTyping ==
  ASSUME CloudTypes, NEW p \in Procs, Poller(p) PROVE CloudTypes'
<1> USE CloudAssumption DEF CloudTypes, InHand
<1>1. ASSUME NEW b \in People, List(p, b) PROVE CloudTypes'
  BY <1>1 DEF List, Newest, Inbox
<1>2. ASSUME NEW m \in Msgs, Open(p, m) PROVE CloudTypes'
  <2>1. CASE m \in seen \/ Recognised(p, m)
    BY <1>2, <2>1 DEF Open, Drop
  <2>2. CASE m \notin seen /\ ~Recognised(p, m)
    <3>1. overlooked' \in {overlooked, overlooked \cup {m}} /\ foreign' \in {foreign, foreign \cup {m}}
      BY <1>2, <2>2, Zenon DEF Open
    <3>2. /\ pc'  = [pc EXCEPT ![p] = "analysing"]
          /\ cur' = [cur EXCEPT ![p] = m]
          /\ todo' = Drop(p, m) /\ UNCHANGED <<seen, place, rows, unmarked, unmoved>>
      BY <1>2, <2>2, Zenon DEF Open
    <3> QED
      BY <3>1, <3>2 DEF Drop
  <2> QED
    BY <2>1, <2>2
<1>3. ASSUME NEW m \in Msgs, Overlook(p, m) PROVE CloudTypes'
  BY <1>3 DEF Overlook, Drop
<1>4. CASE LookupFails(p) \/ FetchFails(p)
  BY <1>4 DEF LookupFails, FetchFails, Abort
<1>5. CASE EndPoll(p) \/ AnalysisFails(p)
  BY <1>5 DEF EndPoll, AnalysisFails
<1>6. CASE Store(p)
  <2>0. cur[p] \in Msgs
    BY <1>6 DEF Store
  <2>1. rows[cur[p]] \in Nat
    BY <2>0
  <2>2. rows' = [rows EXCEPT ![cur[p]] = rows[cur[p]] + 1]
    BY <1>6 DEF Store
  <2>3. rows' \in [Msgs -> Nat]
    <3>1. rows[cur[p]] + 1 \in Nat
      BY <2>1
    <3> QED
      BY <3>1, <2>2
  <2> QED
    BY <1>6, <2>3 DEF Store
<1>7. CASE StoreFails(p)
  BY <1>7 DEF StoreFails, Abort
<1>8. CASE Mark(p)
  BY <1>8 DEF Mark, Marked, NextPc
<1>9. CASE MarkFails(p)
  BY <1>9 DEF MarkFails, Abort
<1>10. CASE Quarantine(p)
  BY <1>10 DEF Quarantine, Moved
<1> QED
  BY <1>1, <1>2, <1>3, <1>4, <1>5, <1>6, <1>7, <1>8, <1>9, <1>10 DEF Poller

\* The death of a poller keeps the types.
LEMMA CrashTyping ==
  ASSUME CloudTypes, NEW p \in Procs, CrashPoller(p) PROVE CloudTypes'
<1> USE CloudAssumption DEF CloudTypes, InHand
<1>1. unmarked' \subseteq Msgs /\ unmoved' \subseteq Msgs
  BY DEF CrashPoller
<1> QED
  BY <1>1 DEF CrashPoller, Abort

\* The arrival of mail keeps the types.
LEMMA DeliverTyping ==
  ASSUME CloudTypes, NEW m \in Msgs, Deliver(m) PROVE CloudTypes'
BY DEF Deliver, CloudTypes, InHand

\* Only a holder of the slot comes to poll, and who loses the slot by dying
\* stops.
LEMMA HoldStep ==
  ASSUME SlotTypes, CloudTypes, PollersHold, Next PROVE PollersHold'
<1> USE DEF CloudTypes, InHand, PollersHold, SlotTypes
<1>1. CASE SlotStep /\ UNCHANGED <<simVars, cloudVars, old>>
  <2>1. \A p \in Procs : slot[p] # "none" => slot'[p] # "none"
    BY <1>1 DEF SlotStep, Acquire, TakeKey, Stall, Resume, Restart, Tick, RedisDown, RedisUp
  <2> QED
    BY <1>1, <2>1 DEF cloudVars
<1>2. CASE UNCHANGED <<slotVars, cloudVars>>
  BY <1>2 DEF slotVars, cloudVars
<1>3. ASSUME NEW p \in Procs, CrashPoller(p) PROVE PollersHold'
  BY <1>3 DEF CrashPoller, Crash, Abort
<1>4. ASSUME NEW p \in Procs, Poller(p), UNCHANGED <<slotVars, simVars, old>> PROVE PollersHold'
  <2>1. slot[p] # "none"
    BY <1>4 DEF Poller, List, Open, Overlook, LookupFails, EndPoll, AnalysisFails, FetchFails,
                Store, StoreFails, Mark, MarkFails, Quarantine, Active, Holders
  <2>2. \A q \in Procs \ {p} : pc'[q] = pc[q]
    BY <1>4 DEF Poller, List, Open, Overlook, LookupFails, EndPoll, AnalysisFails, FetchFails,
                Store, StoreFails, Mark, MarkFails, Quarantine, Abort
  <2> QED
    BY <1>4, <2>1, <2>2 DEF slotVars
<1>5. ASSUME NEW m \in Msgs, Deliver(m), UNCHANGED <<slotVars, simVars, old>> PROVE PollersHold'
  BY <1>5 DEF Deliver, slotVars
<1> QED
  BY <1>1, <1>2, <1>3, <1>4, <1>5 DEF Next

----------------------------------------------------------------------------
(* Messages in hand. *)

\* A message that is listed or in hand has arrived, one that has not arrived has
\* no row, one past its commit has one, and only threats are moved.
HandsAreFull ==
  /\ \A m \in Msgs : place[m] = "unsent" => rows[m] = 0
  /\ \A p \in Procs :
       /\ \A m \in todo[p] : place[m] # "unsent"
       /\ pc[p] \in InHand => place[cur[p]] # "unsent"
       /\ pc[p] \in {"stored", "marked"} => rows[cur[p]] > 0
       /\ pc[p] = "marked" => cur[p] \in Threats

\* A poll has in hand what it listed and, after storing, what has a row.
LEMMA HandStep ==
  ASSUME CloudTypes, HandsAreFull, NEW p \in Procs, Poller(p) PROVE HandsAreFull'
<1> USE DEF CloudTypes, InHand, HandsAreFull
<1>1. ASSUME NEW b \in People, List(p, b) PROVE HandsAreFull'
  BY <1>1 DEF List, Newest, Inbox
<1>2. ASSUME NEW m \in Msgs, Open(p, m) PROVE HandsAreFull'
  <2>1. /\ m \in todo[p] /\ todo' = [todo EXCEPT ![p] = @ \ {m}]
        /\ UNCHANGED <<place, rows>>
    BY <1>2 DEF Open, Drop, InTurn
  <2>2. \/ UNCHANGED <<pc, cur>>
        \/ pc' = [pc EXCEPT ![p] = "analysing"] /\ cur' = [cur EXCEPT ![p] = m]
    BY <1>2, Zenon DEF Open
  <2> QED
    BY <2>1, <2>2
<1>3. ASSUME NEW m \in Msgs, Overlook(p, m) PROVE HandsAreFull'
  BY <1>3 DEF Overlook, Drop, InTurn
<1>4. CASE LookupFails(p) \/ FetchFails(p)
  BY <1>4 DEF LookupFails, FetchFails, Abort
<1>5. CASE EndPoll(p) \/ AnalysisFails(p)
  BY <1>5 DEF EndPoll, AnalysisFails
<1>6. CASE Store(p)
  <2>1. cur[p] \in Msgs /\ place[cur[p]] # "unsent"
    BY <1>6 DEF Store
  <2>2. /\ rows' = [rows EXCEPT ![cur[p]] = rows[cur[p]] + 1]
        /\ pc' = [pc EXCEPT ![p] = "stored"] /\ UNCHANGED <<place, todo, cur>>
    BY <1>6 DEF Store
  <2> QED
    BY <2>1, <2>2
<1>7. CASE StoreFails(p)
  BY <1>7 DEF StoreFails, Abort
<1>8. CASE Mark(p)
  BY <1>8 DEF Mark, NextPc
<1>9. CASE MarkFails(p)
  BY <1>9 DEF MarkFails, Abort
<1>10. CASE Quarantine(p)
  BY <1>10 DEF Quarantine, Moved
<1> QED
  BY <1>1, <1>2, <1>3, <1>4, <1>5, <1>6, <1>7, <1>8, <1>9, <1>10 DEF Poller

\* A dead poller has nothing in hand.
LEMMA HandCrash ==
  ASSUME CloudTypes, HandsAreFull, NEW p \in Procs, CrashPoller(p) PROVE HandsAreFull'
BY DEF CrashPoller, Abort, CloudTypes, InHand, HandsAreFull

\* Mail that arrives is in nobody's hand.
LEMMA HandDeliver ==
  ASSUME CloudTypes, HandsAreFull, NEW m \in Msgs, Deliver(m) PROVE HandsAreFull'
BY DEF Deliver, CloudTypes, InHand, HandsAreFull

----------------------------------------------------------------------------
(* What is remembered has been dealt with. *)

\* A poll remembers only what it stored or recognised.
LEMMA AccountStep ==
  ASSUME CloudTypes, HandsAreFull, SeenIsAccountedFor, NEW p \in Procs, Poller(p),
         UNCHANGED simVars
  PROVE  SeenIsAccountedFor'
<1>1. registry' = registry
  BY DEF simVars
<1>2. \A m \in Msgs : rows[m] > 0 => rows'[m] > 0
  BY DEF Poller, List, Open, Overlook, LookupFails, EndPoll, AnalysisFails, FetchFails,
         Store, StoreFails, Mark, MarkFails, Quarantine, CloudTypes
<1>3. ASSUME NEW m \in seen', m \notin seen
      PROVE  rows[m] > 0 \/ (Simulated(m) /\ <<CampaignOf[m], BoxOf[m]>> \in registry)
  <2>1. CASE Mark(p)
    BY <1>3, <2>1 DEF Mark, Marked, HandsAreFull
  <2>2. ASSUME NEW n \in Msgs, Open(p, n) PROVE Recognised(p, n) /\ m = n
    BY <1>3, <2>2, Zenon DEF Open
  <2>3. ASSUME NEW n \in Msgs, Recognised(p, n)
        PROVE  Simulated(n) /\ <<CampaignOf[n], BoxOf[n]>> \in registry
    BY <2>3 DEF Recognised, Spared, IsSimulation
  <2>4. Mark(p) \/ \E n \in Msgs : Open(p, n)
    BY <1>3, Zenon DEF Poller, List, Overlook, LookupFails, EndPoll, AnalysisFails,
       FetchFails, Store, StoreFails, MarkFails, Quarantine
  <2> QED
    BY <2>1, <2>2, <2>3, <2>4
<1>4. SUFFICES ASSUME NEW m \in seen'
                PROVE  rows'[m] > 0 \/ (Simulated(m) /\ <<CampaignOf[m], BoxOf[m]>> \in registry)
  BY <1>1 DEF SeenIsAccountedFor, Simulated
<1>5. m \in Msgs
  BY PollerTyping DEF CloudTypes
<1>6. rows[m] > 0 \/ (Simulated(m) /\ <<CampaignOf[m], BoxOf[m]>> \in registry)
  BY <1>3 DEF SeenIsAccountedFor
<1> QED
  BY <1>2, <1>5, <1>6

\* A message only leaves the inbox as a stored threat, and a stored threat in
\* the inbox is in hand or its move was given up.
ThreatsArePlaced ==
  \A m \in Msgs :
    /\ place[m] = "quarantine" => m \in Threats /\ rows[m] > 0
    /\ m \in Threats /\ rows[m] > 0 /\ place[m] = "inbox" =>
         m \in unmoved \/ \E p \in Procs : cur[p] = m /\ pc[p] \in {"stored", "marked"}

\* A poll moves only stored threats, and leaves one behind only by a failure.
LEMMA PlaceStep ==
  ASSUME CloudTypes, HandsAreFull, ThreatsArePlaced, NEW p \in Procs, Poller(p)
  PROVE  ThreatsArePlaced'
<1> USE DEF CloudTypes, InHand, HandsAreFull, ThreatsArePlaced
<1>1. ASSUME NEW b \in People, List(p, b) PROVE ThreatsArePlaced'
  BY <1>1 DEF List
<1>2. ASSUME NEW m \in Msgs, Open(p, m) PROVE ThreatsArePlaced'
  <2>1. pc[p] = "open" /\ UNCHANGED <<place, rows, unmoved>>
    BY <1>2 DEF Open
  <2>2. \A q \in Procs \ {p} : pc'[q] = pc[q] /\ cur'[q] = cur[q]
    BY <1>2 DEF Open
  <2> QED
    BY <2>1, <2>2
<1>3. ASSUME NEW m \in Msgs, Overlook(p, m) PROVE ThreatsArePlaced'
  BY <1>3 DEF Overlook
<1>4. CASE LookupFails(p) \/ FetchFails(p)
  BY <1>4 DEF LookupFails, FetchFails, Abort
<1>5. CASE EndPoll(p) \/ AnalysisFails(p)
  BY <1>5 DEF EndPoll, AnalysisFails
<1>6. CASE Store(p)
  <2>1. cur[p] \in Msgs /\ pc[p] = "analysing"
    BY <1>6 DEF Store
  <2>2. /\ rows' = [rows EXCEPT ![cur[p]] = rows[cur[p]] + 1]
        /\ pc' = [pc EXCEPT ![p] = "stored"] /\ UNCHANGED <<place, unmoved, cur>>
    BY <1>6 DEF Store
  <2> QED
    BY <2>1, <2>2
<1>7. CASE StoreFails(p)
  BY <1>7 DEF StoreFails, Abort
<1>8. CASE Mark(p)
  BY <1>8 DEF Mark, NextPc
<1>9. CASE MarkFails(p)
  BY <1>9 DEF MarkFails, Abort
<1>10. CASE Quarantine(p)
  BY <1>10 DEF Quarantine, Moved
<1> QED
  BY <1>1, <1>2, <1>3, <1>4, <1>5, <1>6, <1>7, <1>8, <1>9, <1>10 DEF Poller

\* A poller that dies with an unmoved threat leaves it in the history.
LEMMA PlaceCrash ==
  ASSUME CloudTypes, ThreatsArePlaced, NEW p \in Procs, CrashPoller(p)
  PROVE  ThreatsArePlaced'
BY DEF CrashPoller, Abort, CloudTypes, InHand, ThreatsArePlaced

\* Mail that arrives is where no verdict has put it.
LEMMA PlaceDeliver ==
  ASSUME CloudTypes, HandsAreFull, ThreatsArePlaced, NEW m \in Msgs, Deliver(m)
  PROVE  ThreatsArePlaced'
BY DEF Deliver, CloudTypes, HandsAreFull, ThreatsArePlaced

\* The inductive form of the placement implies the property.
LEMMA PlacementFollows ==
  ASSUME ThreatsArePlaced PROVE PlacementMatchesVerdict
BY DEF ThreatsArePlaced, PlacementMatchesVerdict

----------------------------------------------------------------------------
(* One row per message. *)

\* While the slot has one holder, a message has a row only if it is remembered,
\* its poller is about to remember it, or the mark was lost; and a message that
\* is being analysed was not remembered.
RowsAreMarked ==
  ~disturbed =>
    /\ \A m \in Msgs \ unmarked :
         /\ rows[m] <= 1
         /\ rows[m] = 1 => m \in seen \/ \E p \in Procs : pc[p] = "stored" /\ cur[p] = m
    /\ \A p \in Procs : pc[p] = "analysing" => cur[p] \notin seen

\* Under an undisturbed slot a poll stores only what nobody else has in hand or
\* in the table.
LEMMA RowStep ==
  ASSUME SlotTypes, KeyDecides, CloudTypes, PollersHold, RowsAreMarked,
         NEW p \in Procs, Poller(p), UNCHANGED slotVars
  PROVE  RowsAreMarked'
<1> USE DEF CloudTypes, InHand, RowsAreMarked
<1> SUFFICES ASSUME ~disturbed PROVE RowsAreMarked'
  BY DEF slotVars
<1>1. p \in Holders
  BY DEF Poller, List, Open, Overlook, LookupFails, EndPoll, AnalysisFails, FetchFails,
         Store, StoreFails, Mark, MarkFails, Quarantine, Active
<1>2. \A q \in Procs \ {p} : pc[q] = "idle"
  BY <1>1, HoldersAreOne DEF PollersHold, Holders
<1>3. ASSUME NEW b \in People, List(p, b) PROVE RowsAreMarked'
  BY <1>3 DEF List
<1>4. ASSUME NEW m \in Msgs, Open(p, m) PROVE RowsAreMarked'
  <2>1. pc[p] = "open" /\ UNCHANGED <<rows, unmarked>>
    BY <1>4 DEF Open
  <2>2. \/ UNCHANGED <<pc, cur>> /\ seen \subseteq seen'
        \/ /\ m \notin seen /\ UNCHANGED seen
           /\ pc' = [pc EXCEPT ![p] = "analysing"] /\ cur' = [cur EXCEPT ![p] = m]
    BY <1>4, Zenon DEF Open
  <2> QED
    BY <1>2, <2>1, <2>2
<1>5. ASSUME NEW m \in Msgs, Overlook(p, m) PROVE RowsAreMarked'
  BY <1>5 DEF Overlook
<1>6. CASE LookupFails(p) \/ FetchFails(p)
  BY <1>6 DEF LookupFails, FetchFails, Abort
<1>7. CASE EndPoll(p) \/ AnalysisFails(p)
  BY <1>7 DEF EndPoll, AnalysisFails
<1>8. CASE Store(p)
  <2>1. cur[p] \in Msgs /\ pc[p] = "analysing" /\ cur[p] \notin seen
    BY <1>8 DEF Store
  <2>2. /\ rows' = [rows EXCEPT ![cur[p]] = rows[cur[p]] + 1]
        /\ pc' = [pc EXCEPT ![p] = "stored"] /\ UNCHANGED <<seen, unmarked, cur>>
    BY <1>8 DEF Store
  <2>3. cur[p] \notin unmarked => rows[cur[p]] = 0
    BY <1>2, <2>1
  <2> QED
    BY <1>2, <2>1, <2>2, <2>3
<1>9. CASE StoreFails(p)
  BY <1>9 DEF StoreFails, Abort
<1>10. CASE Mark(p)
  BY <1>2, <1>10 DEF Mark, Marked, NextPc
<1>11. CASE MarkFails(p)
  BY <1>11 DEF MarkFails, Abort
<1>12. CASE Quarantine(p)
  BY <1>12 DEF Quarantine
<1> QED
  BY <1>3, <1>4, <1>5, <1>6, <1>7, <1>8, <1>9, <1>10, <1>11, <1>12 DEF Poller

\* A poller that dies before its mark leaves that in the history.
LEMMA RowCrash ==
  ASSUME CloudTypes, RowsAreMarked, NEW p \in Procs, CrashPoller(p) PROVE RowsAreMarked'
BY DEF CrashPoller, Crash, Abort, CloudTypes, InHand, RowsAreMarked

\* The inductive form of the rows implies the property.
LEMMA RowsFollow == ASSUME CloudTypes, RowsAreMarked PROVE StoredOnce
BY DEF CloudTypes, RowsAreMarked, StoredOnce

----------------------------------------------------------------------------
(* Simulations. *)

Excused(m) ==
  m \in overlooked \cup foreign \/ trouble[CampaignOf[m]] # {} \/ ~plain[CampaignOf[m]]

\* A simulation that arrived was sent, and one in hand or stored has its excuse.
SimulationsAreTold ==
  \A m \in Msgs : Simulated(m) =>
    /\ place[m] # "unsent" => Sent(CampaignOf[m], BoxOf[m])
    /\ rows[m] > 0 => Excused(m)
    /\ \A p \in Procs : cur[p] = m => Excused(m)

\* A simulation has its campaign and its recipient.
LEMMA CampaignOfSimulated ==
  ASSUME NEW m \in Msgs, Simulated(m) PROVE CampaignOf[m] \in Campaigns /\ BoxOf[m] \in People
BY CloudAssumption DEF Simulated

\* A step of a campaign changes nothing about why a simulation was stored.
LEMMA ToldSimStep ==
  ASSUME SimTypes, CloudTypes, HandsAreFull, SimulationsAreTold, SimStep, UNCHANGED cloudVars
  PROVE  SimulationsAreTold'
<1>1. ASSUME NEW c \in Campaigns, stage[c] \in {"registering", "over"}
      PROVE  /\ stage'[c] \in {"registering", "over"} /\ targets'[c] = targets[c]
             /\ plain'[c] = plain[c] /\ trouble[c] \subseteq trouble'[c]
  BY <1>1 DEF SimTypes, SimStep, Launching, Age, Launch, Stamp, Post, Register, Abandon
<1>2. SUFFICES ASSUME NEW m \in Msgs, Simulated(m)
               PROVE  SimulationsAreTold!(m)'
  BY DEF SimulationsAreTold, Simulated
<1>3. CampaignOf[m] \in Campaigns
  BY <1>2, CampaignOfSimulated
<1>4. place[m] # "unsent" => Sent(CampaignOf[m], BoxOf[m]) /\ Sent(CampaignOf[m], BoxOf[m])'
  BY <1>1, <1>2, <1>3 DEF SimulationsAreTold, Sent
<1>5. Excused(m) /\ place[m] # "unsent" => Excused(m)'
  BY <1>1, <1>3, <1>4 DEF Excused, Sent, cloudVars
<1>6. \A p \in Procs : cur[p] = m => place[m] # "unsent"
  BY DEF CloudTypes, HandsAreFull
<1>7. rows[m] > 0 => place[m] # "unsent"
  BY DEF HandsAreFull
<1> QED
  BY <1>2, <1>4, <1>5, <1>6, <1>7 DEF SimulationsAreTold, cloudVars

\* A simulation that is not recognised although its campaign is over, has a plain
\* subject, met no trouble and was launched with the poller's own secret: none.
LEMMA Unrecognised ==
  ASSUME SimTypes, CampaignsKeepTrack, NEW m \in Msgs, Simulated(m), NEW p \in Procs,
         Sent(CampaignOf[m], BoxOf[m]), ~Recognised(p, m)
  PROVE  \/ stage[CampaignOf[m]] = "registering"
         \/ SecretOf[p] # SecretOf[LauncherOf[CampaignOf[m]]]
         \/ trouble[CampaignOf[m]] # {} \/ ~plain[CampaignOf[m]]
BY CampaignOfSimulated DEF SimTypes, CampaignsKeepTrack, Sent, Recognised, Spared, IsSimulation

\* A poll that takes a simulation for mail has one of the reasons.
LEMMA ToldPollerStep ==
  ASSUME SimTypes, CampaignsKeepTrack, CloudTypes, HandsAreFull, SimulationsAreTold,
         NEW p \in Procs, Poller(p), UNCHANGED simVars
  PROVE  SimulationsAreTold'
<1>1. overlooked \subseteq overlooked' /\ foreign \subseteq foreign'
  BY DEF Poller, List, Open, Overlook, LookupFails, EndPoll, AnalysisFails, FetchFails,
         Store, StoreFails, Mark, MarkFails, Quarantine
<1>2. \A m \in Msgs : Excused(m) => Excused(m)'
  BY <1>1 DEF Excused, simVars
<1>3. \A m \in Msgs : place'[m] # "unsent" => place[m] # "unsent"
  BY DEF Poller, List, Open, Overlook, LookupFails, EndPoll, AnalysisFails, FetchFails,
         Store, StoreFails, Mark, MarkFails, Quarantine, Moved, CloudTypes, HandsAreFull, InHand
<1>4. ASSUME NEW m \in Msgs, rows'[m] > 0 PROVE rows[m] > 0 \/ cur[p] = m
  BY <1>4 DEF Poller, List, Open, Overlook, LookupFails, EndPoll, AnalysisFails, FetchFails,
         Store, StoreFails, Mark, MarkFails, Quarantine, CloudTypes
<1>5. ASSUME NEW m \in Msgs, Simulated(m), NEW q \in Procs, cur'[q] = m
      PROVE  Excused(m)'
  <2>1. CASE cur[q] = m
    BY <1>2, <1>5, <2>1 DEF SimulationsAreTold
  <2>2. ASSUME NEW n \in Msgs, Open(p, n), cur[q] # m PROVE Excused(m)'
    <3>1. /\ m = n /\ n \in todo[p] /\ ~Recognised(p, n)
          /\ overlooked' = IF Simulated(n) /\ stage[CampaignOf[n]] = "registering"
                             THEN overlooked \cup {n} ELSE overlooked
          /\ foreign' = IF Simulated(n) /\ SecretOf[p] # SecretOf[LauncherOf[CampaignOf[n]]]
                          THEN foreign \cup {n} ELSE foreign
      BY <1>5, <2>2 DEF Open, CloudTypes, InTurn
    <3>2. Sent(CampaignOf[m], BoxOf[m])
      BY <1>5, <3>1 DEF HandsAreFull, SimulationsAreTold
    <3> QED
      BY <1>5, <3>1, <3>2, Unrecognised DEF Excused, simVars
  <2>3. ASSUME NEW n \in Msgs, Overlook(p, n), cur[q] # m PROVE Excused(m)'
    BY <1>5, <2>3 DEF Overlook, CloudTypes, Excused
  <2>4. cur[q] = m \/ \E n \in Msgs : Open(p, n) \/ Overlook(p, n)
    BY <1>5, CloudAssumption DEF Poller, List, LookupFails, EndPoll, AnalysisFails,
       FetchFails, Store, StoreFails, Mark, MarkFails, Quarantine, Abort, CloudTypes
  <2> QED
    BY <2>1, <2>2, <2>3, <2>4
<1> QED
  BY <1>2, <1>3, <1>4, <1>5 DEF SimulationsAreTold, Simulated, Sent, simVars

\* A dead poller takes nothing for mail.
LEMMA ToldCrash ==
  ASSUME CloudTypes, SimulationsAreTold, NEW p \in Procs, CrashPoller(p), UNCHANGED simVars
  PROVE  SimulationsAreTold'
<1>1. \A q \in Procs : \A m \in Msgs : cur'[q] = m => cur[q] = m
  BY CloudAssumption DEF CrashPoller, Abort, CloudTypes
<1> QED
  BY <1>1 DEF SimulationsAreTold, Simulated, Excused, Sent, simVars, CrashPoller

\* Mail that arrives was not analysed yet.
LEMMA ToldDeliver ==
  ASSUME CloudTypes, SimulationsAreTold, NEW m \in Msgs, Deliver(m), UNCHANGED simVars
  PROVE  SimulationsAreTold'
BY DEF SimulationsAreTold, Simulated, Excused, Sent, simVars, Deliver, CloudTypes

----------------------------------------------------------------------------
(* Together. *)

\* The inductive invariant.
Invariant ==
  /\ SlotTypes /\ KeyDecides
  /\ SimTypes /\ CampaignsKeepTrack
  /\ faults \in 0..MaxFaults /\ old \subseteq Msgs
  /\ CloudTypes /\ PollersHold /\ HandsAreFull
  /\ SeenIsAccountedFor /\ ThreatsArePlaced /\ RowsAreMarked /\ SimulationsAreTold

\* The inductive invariant holds at the start.
LEMMA Initially == ASSUME Init PROVE Invariant
<1> USE DEF Init
<1>1. SlotTypes /\ KeyDecides
  <2>1. /\ renews \in [Procs -> BOOLEAN] /\ redisUp \in BOOLEAN /\ disturbed \in BOOLEAN
        /\ redisUp
    BY Zenon DEF SlotInit
  <2>2. /\ alive \in [Procs -> {"up", "stalled", "down"}]
        /\ client \in [Procs -> {"unknown", "redis", "none"}]
        /\ slot \in [Procs -> {"none", "redis", "file"}]
        /\ ttl \in 0..Ttl
    BY DEF SlotInit
  <2>3. \A p \in Procs : client[p] = "unknown" /\ slot[p] = "none"
    BY DEF SlotInit
  <2> QED
    BY <2>1, <2>2, <2>3 DEF SlotTypes, KeyDecides, KeyHeld
<1>2. SimTypes /\ CampaignsKeepTrack
  BY DEF SimInit, SimTypes, CampaignsKeepTrack
<1>3. faults \in 0..MaxFaults /\ old \subseteq Msgs
  BY DEF FaultsInit, CloudInit
<1>4. CloudTypes /\ PollersHold /\ HandsAreFull
  BY CloudAssumption DEF CloudInit, CloudTypes, InHand, PollersHold, HandsAreFull
<1>5. SeenIsAccountedFor /\ ThreatsArePlaced /\ RowsAreMarked
  BY DEF CloudInit, SeenIsAccountedFor, ThreatsArePlaced, RowsAreMarked
<1>6. SimulationsAreTold
  BY CloudAssumption DEF CloudInit, SimulationsAreTold
<1> QED
  BY <1>1, <1>2, <1>3, <1>4, <1>5, <1>6 DEF Invariant

\* The budget of faults is kept.
LEMMA FaultStep == ASSUME faults \in 0..MaxFaults, Next PROVE faults' \in 0..MaxFaults
<1>1. Fault => faults' \in 0..MaxFaults
  BY DEF Fault
<1>2. faults' = faults \/ Fault
  BY DEF Next, SlotStep, Acquire, Stall, Resume, Restart, Tick, RedisDown, RedisUp,
         SimStep, Launching, Age, Launch, Stamp, Post, Register, Abandon, CrashPoller, Crash,
         Poller, List, Open, Overlook, LookupFails, EndPoll, AnalysisFails, FetchFails,
         Store, StoreFails, Mark, MarkFails, Quarantine, Deliver, DayPasses
<1> QED
  BY <1>1, <1>2

\* What is old has arrived.
LEMMA OldStep == ASSUME old \subseteq Msgs, Next PROVE old' \subseteq Msgs
BY Zenon DEF Next, DayPasses, Arrived

\* Every step preserves the inductive invariant.
LEMMA Preserved == ASSUME Invariant, [Next]_vars PROVE Invariant'
<1> USE DEF Invariant
<1>1. CASE SlotStep /\ UNCHANGED <<simVars, cloudVars, old>>
  <2>1. SlotTypes' /\ KeyDecides' /\ PollersHold'
    BY <1>1, SlotTyping, KeyStep, HoldStep DEF Next
  <2>2. disturbed => disturbed'
    BY <1>1 DEF SlotStep, Acquire, Stall, Resume, Restart, Tick, RedisDown, RedisUp
  <2>3. RowsAreMarked'
    BY <1>1, <2>2 DEF RowsAreMarked, cloudVars
  <2>4. SimTypes' /\ CampaignsKeepTrack'
    BY <1>1 DEF SimTypes, CampaignsKeepTrack, simVars
  <2>5. /\ CloudTypes' /\ HandsAreFull' /\ SeenIsAccountedFor' /\ ThreatsArePlaced'
        /\ SimulationsAreTold'
    BY <1>1 DEF CloudTypes, HandsAreFull, SeenIsAccountedFor, ThreatsArePlaced,
       SimulationsAreTold, Simulated, Sent, Excused, cloudVars, simVars
  <2> QED
    BY <1>1, <2>1, <2>3, <2>4, <2>5, FaultStep, OldStep DEF Next
<1>2. CASE \/ Age /\ old' = Arrived /\ UNCHANGED <<slotVars, cloudVars>>
           \/ Launching /\ UNCHANGED <<slotVars, cloudVars, old>>
  <2>0. SimStep /\ UNCHANGED <<slotVars, cloudVars>> /\ Next
    BY <1>2 DEF SimStep, Next
  <2>1. SimTypes' /\ CampaignsKeepTrack' /\ SimulationsAreTold'
    BY <2>0, SimTyping, CampaignStep, ToldSimStep
  <2>2. registry \subseteq registry'
    BY <2>0 DEF SimStep, Launching, Age, Launch, Stamp, Post, Register, Abandon
  <2>3. SeenIsAccountedFor'
    BY <2>0, <2>2 DEF SeenIsAccountedFor, Simulated, cloudVars
  <2>4. SlotTypes' /\ KeyDecides'
    BY <2>0 DEF SlotTypes, KeyDecides, KeyHeld, slotVars
  <2>5. CloudTypes' /\ PollersHold' /\ HandsAreFull' /\ ThreatsArePlaced' /\ RowsAreMarked'
    BY <2>0 DEF CloudTypes, PollersHold, HandsAreFull, ThreatsArePlaced, RowsAreMarked,
       cloudVars, slotVars
  <2> QED
    BY <2>0, <2>1, <2>3, <2>4, <2>5, FaultStep, OldStep
<1>3. ASSUME NEW p \in Procs, CrashPoller(p), UNCHANGED <<simVars, old>> PROVE Invariant'
  <2>1. SlotTypes' /\ KeyDecides' /\ PollersHold' /\ faults' \in 0..MaxFaults /\ old' \subseteq Msgs
    BY <1>3, SlotTyping, KeyStep, HoldStep, FaultStep, OldStep DEF Next, CrashPoller
  <2>2. CloudTypes' /\ HandsAreFull' /\ ThreatsArePlaced' /\ RowsAreMarked'
    BY <1>3, CrashTyping, HandCrash, PlaceCrash, RowCrash
  <2>3. SimTypes' /\ CampaignsKeepTrack' /\ SimulationsAreTold'
    BY <1>3, ToldCrash DEF SimTypes, CampaignsKeepTrack, simVars
  <2>4. SeenIsAccountedFor'
    BY <1>3 DEF SeenIsAccountedFor, Simulated, CrashPoller, simVars
  <2> QED
    BY <2>1, <2>2, <2>3, <2>4
<1>4. ASSUME NEW p \in Procs, Poller(p), UNCHANGED <<slotVars, simVars, old>> PROVE Invariant'
  <2>1. SlotTypes' /\ KeyDecides'
    BY <1>4 DEF SlotTypes, KeyDecides, KeyHeld, slotVars
  <2>2. PollersHold' /\ faults' \in 0..MaxFaults /\ old' \subseteq Msgs
    BY <1>4, HoldStep, FaultStep, OldStep DEF Next
  <2>3. CloudTypes' /\ HandsAreFull' /\ ThreatsArePlaced'
    BY <1>4, PollerTyping, HandStep, PlaceStep
  <2>4. SeenIsAccountedFor' /\ RowsAreMarked' /\ SimulationsAreTold'
    BY <1>4, AccountStep, RowStep, ToldPollerStep
  <2>5. SimTypes' /\ CampaignsKeepTrack'
    BY <1>4 DEF SimTypes, CampaignsKeepTrack, simVars
  <2> QED
    BY <2>1, <2>2, <2>3, <2>4, <2>5
<1>5. ASSUME NEW m \in Msgs, Deliver(m), UNCHANGED <<slotVars, simVars, old>> PROVE Invariant'
  <2>1. SlotTypes' /\ KeyDecides' /\ SimTypes' /\ CampaignsKeepTrack'
    BY <1>5 DEF SlotTypes, KeyDecides, KeyHeld, slotVars, SimTypes, CampaignsKeepTrack, simVars
  <2>2. PollersHold' /\ faults' \in 0..MaxFaults /\ old' \subseteq Msgs
    BY <1>5, HoldStep, FaultStep, OldStep DEF Next
  <2>3. CloudTypes' /\ HandsAreFull' /\ ThreatsArePlaced' /\ SimulationsAreTold'
    BY <1>5, DeliverTyping, HandDeliver, PlaceDeliver, ToldDeliver
  <2>4. SeenIsAccountedFor' /\ RowsAreMarked'
    BY <1>5 DEF SeenIsAccountedFor, RowsAreMarked, Simulated, Deliver, slotVars, simVars
  <2> QED
    BY <2>1, <2>2, <2>3, <2>4
<1>6. CASE DayPasses /\ UNCHANGED <<slotVars, simVars, cloudVars>>
  <2>1. SlotTypes' /\ KeyDecides' /\ SimTypes' /\ CampaignsKeepTrack'
    BY <1>6 DEF SlotTypes, KeyDecides, KeyHeld, SimTypes, CampaignsKeepTrack, slotVars, simVars
  <2>2. CloudTypes' /\ PollersHold' /\ HandsAreFull' /\ ThreatsArePlaced' /\ RowsAreMarked'
    BY <1>6 DEF CloudTypes, PollersHold, HandsAreFull, ThreatsArePlaced, RowsAreMarked,
       slotVars, cloudVars
  <2>3. SeenIsAccountedFor' /\ SimulationsAreTold'
    BY <1>6 DEF SeenIsAccountedFor, SimulationsAreTold, Simulated, Sent, Excused,
       simVars, cloudVars
  <2> QED
    BY <1>6, <2>1, <2>2, <2>3, FaultStep, OldStep DEF Next
<1>7. CASE UNCHANGED vars
  <2>1. /\ SlotTypes' /\ KeyDecides' /\ SimTypes' /\ CampaignsKeepTrack'
        /\ faults' \in 0..MaxFaults /\ old' \subseteq Msgs
    BY <1>7 DEF SlotTypes, KeyDecides, KeyHeld, SimTypes, CampaignsKeepTrack,
       vars, slotVars, simVars
  <2>2. CloudTypes' /\ PollersHold' /\ HandsAreFull' /\ ThreatsArePlaced' /\ RowsAreMarked'
    BY <1>7 DEF CloudTypes, PollersHold, HandsAreFull, ThreatsArePlaced, RowsAreMarked,
       vars, slotVars, cloudVars
  <2>3. SeenIsAccountedFor' /\ SimulationsAreTold'
    BY <1>7 DEF SeenIsAccountedFor, SimulationsAreTold, Simulated, Sent, Excused,
       vars, simVars, cloudVars
  <2> QED
    BY <2>1, <2>2, <2>3
<1> HIDE DEF Invariant
<1> QED
  BY <1>1, <1>2, <1>3, <1>4, <1>5, <1>6, <1>7 DEF Next

\* The inductive invariant holds in every reachable state.
THEOREM CloudInvariance == Spec => []Invariant
BY Initially, Preserved, PTL DEF Spec

\* The state is well typed; in particular only a holder of the slot polls.
THEOREM CloudTyping == Spec => []TypeOK
<1>1. Invariant => TypeOK
  BY DEF Invariant, SlotTypes, SimTypes, CampaignsKeepTrack, CloudTypes, InHand,
     PollersHold, Holders, TypeOK
<1> QED
  BY <1>1, CloudInvariance, PTL

\* At most one process watches as long as Redis answers and the key does not
\* lapse under its holder, for any number of workers and hosts, whichever of
\* them stall, die and return.
THEOREM WatcherIsOne == Spec => []OneWatcher
<1>1. Invariant => OneWatcher
  BY HoldersCounted DEF Invariant
<1> QED
  BY <1>1, CloudInvariance, PTL

\* While the slot has one holder, a message gets a second row only after its
\* mark was lost.
THEOREM RowsAreOnce == Spec => []StoredOnce
<1>1. Invariant => StoredOnce
  BY RowsFollow DEF Invariant
<1> QED
  BY <1>1, CloudInvariance, PTL

\* A remembered message has its row or is a registered simulation, whatever
\* fails and however many processes poll.
THEOREM RememberedIsAccountedFor == Spec => []SeenIsAccountedFor
<1>1. Invariant => SeenIsAccountedFor
  BY DEF Invariant
<1> QED
  BY <1>1, CloudInvariance, PTL

\* Mailbox and verdict agree up to a failed move, even with several pollers.
THEOREM PlacementHolds == Spec => []PlacementMatchesVerdict
<1>1. Invariant => PlacementMatchesVerdict
  BY PlacementFollows DEF Invariant
<1> QED
  BY <1>1, CloudInvariance, PTL

\* A stored simulation met trouble, for any number of campaigns that launch at
\* the same time from any workers.
THEOREM SimulationsHold == Spec => []SimulationsAreSpared
<1>1. Invariant => SimulationsAreSpared
  BY DEF Invariant, SimulationsAreTold, Excused, SimulationsAreSpared
<1> QED
  BY <1>1, CloudInvariance, PTL

=============================================================================
