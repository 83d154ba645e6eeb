-------------------------- MODULE CloudConnectors --------------------------
(***************************************************************************)
(* services/mail_connectors.py: the Microsoft 365 and Gmail pollers that    *)
(* run in the process holding the watcher slot.  A poll lists the newest    *)
(* messages of a mailbox, drops those in the mail_seen table, and takes     *)
(* every other through recognition of own simulations, detection,           *)
(* persist_detection, mail_seen and quarantine.  The row, the mark and the  *)
(* move are separate commits on three connections.                          *)
(*                                                                         *)
(* Composed of the slot that decides who polls and of the campaigns whose   *)
(* mail the pollers must recognise.                                         *)
(***************************************************************************)
EXTENDS WatcherSlot, SimCampaign

CONSTANTS
  Msgs,       \* messages, numbered in order of arrival
  BoxOf,      \* the mailbox a message is delivered to
  CampaignOf, \* message -> the campaign it belongs to, or None
  Threats,    \* messages the analysis finds a threat
  Poison,     \* messages whose storing always raises
  Gmail,      \* mailboxes polled through the Gmail API
  Window,     \* messages a poll lists (25)
  None

ASSUME CloudAssumption ==
  /\ Msgs \subseteq Nat /\ Window \in Nat \ {0}
  /\ Workers = Procs
  /\ BoxOf \in [Msgs -> People]
  /\ CampaignOf \in [Msgs -> Campaigns \cup {None}]
  /\ None \notin Campaigns /\ None \notin Msgs
  /\ Threats \subseteq Msgs /\ Poison \subseteq Msgs /\ Gmail \subseteq People

VARIABLES
  place,    \* message -> "unsent", "inbox" or "quarantine"
  old,      \* messages that arrived more than a day ago
  seen,     \* message ids in mail_seen
  rows,     \* message -> rows of the emails table
  pc,       \* poller -> "idle", "open", "analysing", "stored" or "marked"
  todo,     \* poller -> listed messages it has not come to
  cur,      \* poller -> the message in hand
  unmarked, \* history: messages stored whose mark failed
  unmoved,  \* history: threats whose move failed or was not come to
  overlooked, \* history: simulations taken before their registration, or while
              \* the registry or mail_seen could not be used
  foreign   \* history: simulations taken by a poller with another secret

cloudVars == <<place, seen, rows, pc, todo, cur, unmarked, unmoved, overlooked, foreign>>
vars == <<slotVars, simVars, cloudVars, old, faults>>

CloudInit ==
  /\ place = [m \in Msgs |-> "unsent"]
  /\ seen = {} /\ old = {}
  /\ rows = [m \in Msgs |-> 0]
  /\ pc   = [p \in Procs |-> "idle"]
  /\ todo = [p \in Procs |-> {}]
  /\ cur  = [p \in Procs |-> None]
  /\ unmarked = {} /\ unmoved = {} /\ overlooked = {} /\ foreign = {}

Init == FaultsInit /\ SlotInit /\ SimInit /\ CloudInit

Arrived == {m \in Msgs : place[m] # "unsent"}

\* Gmail is asked for "newer_than:1d in:inbox", Microsoft 365 for the inbox.
Inbox(b)  == {m \in Msgs : BoxOf[m] = b /\ place[m] = "inbox" /\ (b \in Gmail => m \notin old)}
Newer(m)  == {n \in Inbox(BoxOf[m]) : n > m}
Newest(b) == {m \in Inbox(b) : Cardinality(Newer(m)) < Window}

Simulated(m)     == CampaignOf[m] # None
Recognised(p, m) == Simulated(m) /\ Spared(p, CampaignOf[m], BoxOf[m])

\* Mail arrives; that of a campaign once GoPhish has been told to send it.
Deliver(m) ==
  /\ place[m] = "unsent"
  /\ \A n \in Msgs : n < m /\ ~Simulated(n) => place[n] # "unsent"
  /\ Simulated(m) => Sent(CampaignOf[m], BoxOf[m])
  /\ place' = [place EXCEPT ![m] = "inbox"]
  /\ UNCHANGED <<seen, rows, pc, todo, cur, unmarked, unmoved, overlooked, foreign, faults>>

\* List a mailbox.  A listing that fails or holds nothing new is a poll that
\* changes nothing.
List(p, b) ==
  /\ p \in Active /\ pc[p] = "idle" /\ Newest(b) \ seen # {}
  /\ pc'   = [pc EXCEPT ![p] = "open"]
  /\ todo' = [todo EXCEPT ![p] = Newest(b)]
  /\ UNCHANGED <<place, seen, rows, cur, unmarked, unmoved, overlooked, foreign, faults>>

\* Mutation: the listing is oldest first.
OldestFirst(p, m) == m \in todo[p] /\ \A n \in todo[p] : n >= m
\* The listing is newest first.
InTurn(p, m) == m \in todo[p] /\ \A n \in todo[p] : n <= m
Drop(p, m)   == [todo EXCEPT ![p] = @ \ {m}]
\* An exception ends the poll of this mailbox.
Abort(p) ==
  /\ pc'   = [pc EXCEPT ![p] = "idle"]
  /\ todo' = [todo EXCEPT ![p] = {}]
  /\ cur'  = [cur EXCEPT ![p] = None]

\* The duplicate check, the recognition of a simulation, and the fetch.
Open(p, m) ==
  /\ p \in Active /\ pc[p] = "open" /\ InTurn(p, m)
  /\ todo' = Drop(p, m)
  /\ IF m \in seen THEN UNCHANGED <<seen, pc, cur, overlooked, foreign>>
     ELSE IF Recognised(p, m)
       THEN seen' = seen \cup {m} /\ UNCHANGED <<pc, cur, overlooked, foreign>>
     ELSE /\ pc'  = [pc EXCEPT ![p] = "analysing"]
          /\ cur' = [cur EXCEPT ![p] = m]
          /\ overlooked' = IF Simulated(m) /\ stage[CampaignOf[m]] = "registering"
                        THEN overlooked \cup {m} ELSE overlooked
          /\ foreign' = IF Simulated(m) /\ SecretOf[p] # SecretOf[LauncherOf[CampaignOf[m]]]
                          THEN foreign \cup {m} ELSE foreign
          /\ UNCHANGED seen
  /\ UNCHANGED <<place, rows, unmarked, unmoved, faults>>

\* A registry that cannot be read says no, and an exception of the mark of a
\* simulation is swallowed: the simulation is analysed like any mail.
Overlook(p, m) ==
  /\ p \in Active /\ pc[p] = "open" /\ InTurn(p, m)
  /\ m \notin seen /\ Recognised(p, m) /\ Fault
  /\ todo' = Drop(p, m)
  /\ pc'  = [pc EXCEPT ![p] = "analysing"]
  /\ cur' = [cur EXCEPT ![p] = m]
  /\ overlooked' = overlooked \cup {m}
  /\ UNCHANGED <<place, seen, rows, unmarked, unmoved, foreign>>

\* The duplicate check raises.
LookupFails(p) ==
  /\ p \in Active /\ pc[p] = "open" /\ todo[p] # {} /\ Fault
  /\ Abort(p)
  /\ UNCHANGED <<place, seen, rows, unmarked, unmoved, overlooked, foreign>>

EndPoll(p) ==
  /\ p \in Active /\ pc[p] = "open" /\ todo[p] = {}
  /\ pc' = [pc EXCEPT ![p] = "idle"]
  /\ UNCHANGED <<place, seen, rows, todo, cur, unmarked, unmoved, overlooked, foreign, faults>>

\* Mutation: a message whose analysis failed is not tried again.
AnalysisGivesUp(p) ==
  /\ p \in Active /\ pc[p] = "analysing" /\ Fault
  /\ seen' = seen \cup {cur[p]}
  /\ pc'  = [pc EXCEPT ![p] = "open"]
  /\ cur' = [cur EXCEPT ![p] = None]
  /\ UNCHANGED <<place, rows, todo, unmarked, unmoved, overlooked, foreign>>
\* analyze_email_hybrid raises: the message is left for the next poll.
AnalysisFails(p) ==
  /\ p \in Active /\ pc[p] = "analysing" /\ Fault
  /\ pc'  = [pc EXCEPT ![p] = "open"]
  /\ cur' = [cur EXCEPT ![p] = None]
  /\ UNCHANGED <<place, seen, rows, todo, unmarked, unmoved, overlooked, foreign>>

\* The Gmail API raises when it is asked for the message itself.
FetchFails(p) ==
  /\ p \in Active /\ pc[p] = "analysing" /\ BoxOf[cur[p]] \in Gmail /\ Fault
  /\ Abort(p)
  /\ UNCHANGED <<place, seen, rows, unmarked, unmoved, overlooked, foreign>>

\* The detection, persist_detection and its commit.
Store(p) ==
  /\ p \in Active /\ pc[p] = "analysing" /\ cur[p] \notin Poison
  /\ rows' = [rows EXCEPT ![cur[p]] = @ + 1]
  /\ pc'   = [pc EXCEPT ![p] = "stored"]
  /\ UNCHANGED <<place, seen, todo, cur, unmarked, unmoved, overlooked, foreign, faults>>
StoreFails(p) ==
  /\ p \in Active /\ pc[p] = "analysing"
  /\ \/ cur[p] \in Poison /\ UNCHANGED faults
     \/ cur[p] \notin Poison /\ Fault
  /\ Abort(p)
  /\ UNCHANGED <<place, seen, rows, unmarked, unmoved, overlooked, foreign>>

\* _mark_seen; a threat goes on to be moved.
NextPc(p) == IF cur[p] \in Threats THEN "marked" ELSE "open"
\* Mutation: a threat is not remembered, its move takes it out of the inbox.
MarkedHarmless(m) == IF m \in Threats THEN seen ELSE seen \cup {m}
Marked(m) == seen \cup {m}
Mark(p) ==
  /\ p \in Active /\ pc[p] = "stored"
  /\ seen' = Marked(cur[p])
  /\ pc'   = [pc EXCEPT ![p] = NextPc(p)]
  /\ cur'  = [cur EXCEPT ![p] = IF NextPc(p) = "marked" THEN @ ELSE None]
  /\ UNCHANGED <<place, rows, todo, unmarked, unmoved, overlooked, foreign, faults>>
MarkFails(p) ==
  /\ p \in Active /\ pc[p] = "stored" /\ Fault
  /\ unmarked' = unmarked \cup {cur[p]}
  /\ unmoved'  = unmoved \cup ({cur[p]} \cap Threats)
  /\ Abort(p)
  /\ UNCHANGED <<place, seen, rows, overlooked, foreign>>

\* Mutation: the move is asked for and the message stays.
NotMoved(m) == place
\* The move; a failure is logged or, where the answer is not looked at, silent.
Moved(m) == [place EXCEPT ![m] = "quarantine"]
Quarantine(p) ==
  /\ p \in Active /\ pc[p] = "marked"
  /\ pc'  = [pc EXCEPT ![p] = "open"]
  /\ cur' = [cur EXCEPT ![p] = None]
  /\ \/ place' = Moved(cur[p]) /\ UNCHANGED <<unmoved, faults>>
     \/ unmoved' = unmoved \cup {cur[p]} /\ Fault /\ UNCHANGED place
  /\ UNCHANGED <<seen, rows, todo, unmarked, overlooked, foreign>>

\* The process dies with its pollers.
CrashPoller(p) ==
  /\ Crash(p)
  /\ Abort(p)
  /\ unmarked' = unmarked \cup IF pc[p] = "stored" THEN {cur[p]} ELSE {}
  /\ unmoved'  = unmoved \cup
       IF pc[p] \in {"stored", "marked"} THEN {cur[p]} \cap Threats ELSE {}
  /\ UNCHANGED <<place, seen, rows, overlooked, foreign>>

Poller(p) ==
  \/ \E b \in People : List(p, b)
  \/ \E m \in Msgs : Open(p, m) \/ Overlook(p, m)
  \/ LookupFails(p) \/ EndPoll(p) \/ AnalysisFails(p) \/ FetchFails(p) \/ Store(p) \/ StoreFails(p)
  \/ Mark(p) \/ MarkFails(p) \/ Quarantine(p)

\* A day passes in which what is in the inboxes is not polled.
DayPasses == Arrived \ old # {} /\ Fault /\ old' = Arrived

Next ==
  \/ SlotStep /\ UNCHANGED <<simVars, cloudVars, old>>
  \/ Age /\ old' = Arrived /\ UNCHANGED <<slotVars, cloudVars>>
  \/ Launching /\ UNCHANGED <<slotVars, cloudVars, old>>
  \/ DayPasses /\ UNCHANGED <<slotVars, simVars, cloudVars>>
  \/ (\E p \in Procs : CrashPoller(p)) /\ UNCHANGED <<simVars, old>>
  \/ (\E p \in Procs : Poller(p)) /\ UNCHANGED <<slotVars, simVars, old>>
  \/ (\E m \in Msgs : Deliver(m)) /\ UNCHANGED <<slotVars, simVars, old>>

Spec == Init /\ [][Next]_vars

FairSpec ==
  /\ Spec
  /\ SlotFairness
  /\ \A p \in Procs : WF_cloudVars(Poller(p) /\ UNCHANGED <<slotVars, simVars, old>>)

----------------------------------------------------------------------------
(* Properties. *)

TypeOK ==
  /\ alive \in [Procs -> {"up", "stalled", "down"}]
  /\ client \in [Procs -> {"unknown", "redis", "none"}]
  /\ slot \in [Procs -> {"none", "redis", "file"}]
  /\ renews \in [Procs -> BOOLEAN]
  /\ ttl \in 0..Ttl /\ redisUp \in BOOLEAN /\ disturbed \in BOOLEAN
  /\ faults \in 0..MaxFaults
  /\ registry \subseteq Campaigns \X People
  /\ profile \in [Secrets -> {"none", "fresh", "stale"}]
  /\ stage \in [Campaigns -> {"idle", "stamping", "posting", "registering", "over", "failed"}]
  /\ targets \in [Campaigns -> SUBSET People] /\ plain \in [Campaigns -> BOOLEAN]
  /\ tokens \in [Campaigns -> SUBSET Secrets]
  /\ \A c \in Campaigns : todoReg[c] \subseteq targets[c]
  /\ place \in [Msgs -> {"unsent", "inbox", "quarantine"}]
  /\ seen \subseteq Msgs /\ old \subseteq Msgs /\ rows \in [Msgs -> Nat]
  /\ pc \in [Procs -> {"idle", "open", "analysing", "stored", "marked"}]
  /\ todo \in [Procs -> SUBSET Msgs] /\ cur \in [Procs -> Msgs \cup {None}]
  /\ \A p \in Procs : /\ cur[p] \in Msgs <=> pc[p] \in {"analysing", "stored", "marked"}
                      /\ pc[p] # "idle" => p \in Holders

\* mail_connectors.py:14: mail is "never double-processed".  As long as the slot
\* has one holder, a message has one row, and one more at most for every time
\* its mark was lost after its row was committed.
StoredOnce ==
  disturbed \/ \A m \in Msgs : rows[m] <= 1 \/ m \in unmarked

\* What the pollers will never look at again has its row in the threat queue,
\* or is a simulation of ours; in particular a failed or interrupted pass never
\* remembers a message it did not store.
SeenIsAccountedFor ==
  \A m \in seen : rows[m] > 0 \/ (Simulated(m) /\ <<CampaignOf[m], BoxOf[m]>> \in registry)

\* The mailbox agrees with the verdict: only stored threats leave the inbox, and
\* a threat the pollers are through with stays there only after a failed move,
\* which no later poll repeats.
PlacementMatchesVerdict ==
  \A m \in Msgs :
    /\ place[m] = "quarantine" => m \in Threats /\ rows[m] > 0
    /\ (m \in seen /\ rows[m] > 0 /\ m \in Threats /\ place[m] = "inbox")
         => m \in unmoved \/ \E p \in Procs : cur[p] = m

\* Our own simulations do not pollute the threat statistics
\* (gophish_client.py:148): one that is stored was taken before its target was
\* registered, without a look into the registry or by a worker with another
\* signing secret, was sent with a subject that rendering changes, or something
\* failed on its way.
SimulationsAreSpared ==
  \A m \in Msgs :
    (Simulated(m) /\ rows[m] > 0) =>
      LET c == CampaignOf[m]
      IN  m \in overlooked \cup foreign \/ trouble[c] # {} \/ ~plain[c]

\* Every mail in an inbox is eventually considered: remembered, or, before its
\* turn came, pushed out of the listing by newer mail, in a Gmail mailbox grown
\* older than the query reaches back, or behind a message that cannot be stored
\* and ends the poll of its mailbox each time.
EveryMailIsConsidered ==
  \A m \in Msgs :
    place[m] = "inbox" ~>
      \/ m \in seen
      \/ m \in old /\ BoxOf[m] \in Gmail
      \/ m \in Poison \/ \E n \in Newer(m) : n \in Poison
      \/ Cardinality(Newer(m)) >= Window

=============================================================================
