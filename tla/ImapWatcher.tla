---------------------------- MODULE ImapWatcher ----------------------------
(***************************************************************************)
(* services/email_watcher.py: one thread per mailbox (_watch_mailbox)       *)
(* fetches unread mail, analyses it, persists the verdict through           *)
(* persist_detection and moves threats to the Quarantine_AI folder.         *)
(*                                                                         *)
(* Three stores are updated by one pass and none of them is transactional  *)
(* with the others: the IMAP server (folder, \Seen flag), the database      *)
(* transaction of the pass, which commits once after the last message of    *)
(* the batch, and the side effects that do not wait for that commit: the    *)
(* audit row (audit_log commits on a connection of its own) and the events  *)
(* handed to the SIEM executor.                                             *)
(***************************************************************************)
EXTENDS Verdict, FiniteSets

CONSTANTS
  Boxes,        \* the watched mailboxes, one thread each
  Msgs,         \* messages, numbered by UID
  BoxOf,        \* the mailbox each message is delivered to
  Backlog,      \* messages already waiting when the watcher starts
  Signed,       \* messages carrying a valid simulation token
  Detections,   \* message -> what its analysis can return (see Verdict)
  None,         \* no message
  MaxFails,     \* bound: failures of watcher threads
  MaxTouches    \* bound: times recipients open or re-mark mail themselves

ASSUME WatcherAssumption ==
  /\ Msgs \subseteq Nat
  /\ BoxOf \in [Msgs -> Boxes]
  /\ Backlog \subseteq Msgs /\ Signed \subseteq Msgs
  /\ DOMAIN Detections = Msgs
  /\ None \notin Msgs
  /\ MaxFails \in Nat /\ MaxTouches \in Nat

VARIABLES
  folder,    \* message -> "unsent", "INBOX" or "Quarantine_AI"
  seen,      \* message -> its \Seen flag
  pc,        \* thread -> where it is in _watch_mailbox
  todo,      \* thread -> UIDs the search of this pass returned, not yet fetched
  cur,       \* thread -> the message in hand
  found,     \* thread -> the detection of the message in hand ({} or {d})
  txn,       \* thread -> rows written by the open transaction
  locks,     \* thread -> intel_indicators rows its transaction has updated
  rows,      \* committed rows of the emails table
  audit,     \* email ids with an email_quarantined audit row
  alerts,    \* <<email id, event>> handed to the SIEM executor
  tries,     \* message -> number of times it was persisted (numbers its row)
  lost,      \* history: messages a failed pass had taken and left without a row
  skipped,   \* history: messages accepted as our own simulation mail
  opened,    \* history: messages the recipient opened before the watcher did
  remarked,  \* history: message -> times the recipient marked it unread
  fails,     \* failures so far
  touches    \* recipient actions so far

server   == <<folder, seen>>
database == <<rows, audit, tries>>
history  == <<lost, skipped, opened, remarked, touches>>
vars == <<server, pc, todo, cur, found, txn, locks, database, alerts,
          history, fails>>

Places == {"down", "idle", "fetch", "analyze", "persist", "route"}

AllDetections == UNION {Detections[m] : m \in Msgs}

Row == [id : Msgs \X Nat, status : Statuses, threat : BOOLEAN, case : BOOLEAN,
        events : SUBSET {"email_alert", "critical_email", "email_suspicious"}]

TypeOK ==
  /\ folder \in [Msgs -> {"unsent", "INBOX", "Quarantine_AI"}]
  /\ seen \in [Msgs -> BOOLEAN]
  /\ pc \in [Boxes -> Places]
  /\ todo \in [Boxes -> SUBSET Msgs]
  /\ cur \in [Boxes -> Msgs \cup {None}]
  /\ found \in [Boxes -> SUBSET AllDetections]
  /\ txn \in [Boxes -> SUBSET Row]
  /\ locks \in [Boxes -> SUBSET UNION {d.hits : d \in AllDetections}]
  /\ rows \subseteq Row
  /\ audit \subseteq Msgs \X Nat
  /\ alerts \subseteq (Msgs \X Nat) \X {"email_alert", "critical_email", "email_suspicious"}
  /\ tries \in [Msgs -> Nat]
  /\ lost \subseteq Msgs
  /\ skipped \subseteq Msgs
  /\ opened \subseteq Msgs
  /\ remarked \in [Msgs -> Nat]
  /\ fails \in 0..MaxFails
  /\ touches \in 0..MaxTouches

Init ==
  /\ folder = [m \in Msgs |-> IF m \in Backlog THEN "INBOX" ELSE "unsent"]
  /\ seen = [m \in Msgs |-> FALSE]
  /\ pc = [b \in Boxes |-> "down"]
  /\ todo = [b \in Boxes |-> {}]
  /\ cur = [b \in Boxes |-> None]
  /\ found = [b \in Boxes |-> {}]
  /\ txn = [b \in Boxes |-> {}]
  /\ locks = [b \in Boxes |-> {}]
  /\ rows = {}
  /\ audit = {}
  /\ alerts = {}
  /\ tries = [m \in Msgs |-> 0]
  /\ lost = {}
  /\ skipped = {}
  /\ opened = {}
  /\ remarked = [m \in Msgs |-> 0]
  /\ fails = 0
  /\ touches = 0

----------------------------------------------------------------------------
(* The world around the threads. *)

Deliver(m) ==
  /\ folder[m] = "unsent"
  /\ folder' = [folder EXCEPT ![m] = "INBOX"]
  /\ UNCHANGED <<seen, pc, todo, cur, found, txn, locks, database,
                 alerts, history, fails>>

\* The recipient reads the message in a mail client.
OpenMail(m) ==
  /\ folder[m] = "INBOX" /\ ~seen[m]
  /\ touches < MaxTouches
  /\ seen' = [seen EXCEPT ![m] = TRUE]
  /\ opened' = opened \cup {m}
  /\ touches' = touches + 1
  /\ UNCHANGED <<folder, pc, todo, cur, found, txn, locks, database,
                 alerts, lost, skipped, remarked, fails>>

\* The recipient marks a message as unread again.
MarkUnread(m) ==
  /\ folder[m] = "INBOX" /\ seen[m]
  /\ touches < MaxTouches
  /\ seen' = [seen EXCEPT ![m] = FALSE]
  /\ remarked' = [remarked EXCEPT ![m] = @ + 1]
  /\ touches' = touches + 1
  /\ UNCHANGED <<folder, pc, todo, cur, found, txn, locks, database,
                 alerts, lost, skipped, opened, fails>>

----------------------------------------------------------------------------
(* _watch_mailbox *)

\* Connect and log in.  (folders_supported, set here, only selects between the
\* two ways Route may take for a threat.)
Connect(b) ==
  /\ pc[b] = "down"
  /\ pc' = [pc EXCEPT ![b] = "idle"]
  /\ UNCHANGED <<server, todo, cur, found, txn, locks, database, alerts,
                 history, fails>>

\* Mutation: the search is not restricted to unread mail.
InboxSearch(b) == {m \in Msgs : BoxOf[m] = b /\ folder[m] = "INBOX"}

\* A(seen=False)
UnseenSearch(b) == {m \in Msgs : BoxOf[m] = b /\ folder[m] = "INBOX" /\ ~seen[m]}

\* Start a pass, right after connecting or when idle.wait returns (on a
\* notification or after 60 s): open its transaction and search UNSEEN.
Search(b) ==
  /\ pc[b] = "idle"
  /\ todo' = [todo EXCEPT ![b] = UnseenSearch(b)]
  /\ pc' = [pc EXCEPT ![b] = "fetch"]
  /\ UNCHANGED <<server, cur, found, txn, locks, database, alerts,
                 history, fails>>

\* The next UID of the search.
NextUid(b, m) == m \in todo[b] /\ \A n \in todo[b] : m <= n

\* Fetch the body of the next message.  fetch() is called without
\* mark_seen=False, so the server sets \Seen now, before anything is analysed.
Fetch(b) ==
  \E m \in todo[b] :
    /\ pc[b] = "fetch"
    /\ NextUid(b, m)
    /\ seen' = [seen EXCEPT ![m] = TRUE]
    /\ todo' = [todo EXCEPT ![b] = @ \ {m}]
    /\ cur' = [cur EXCEPT ![b] = m]
    /\ pc' = [pc EXCEPT ![b] = "analyze"]
    /\ UNCHANGED <<folder, found, txn, locks, database, alerts,
                   history, fails>>

\* A valid token together with the registry (or with the registry down)
\* exempts the message from detection.
SkipSimulation(b) ==
  /\ pc[b] = "analyze"
  /\ cur[b] \in Signed
  /\ skipped' = skipped \cup {cur[b]}
  /\ cur' = [cur EXCEPT ![b] = None]
  /\ pc' = [pc EXCEPT ![b] = "fetch"]
  /\ UNCHANGED <<server, todo, found, txn, locks, database, alerts,
                 lost, opened, remarked, touches, fails>>

\* analyze_email_hybrid; a signed message gets here when the registry answers
\* that it does not know it.
Analyze(b) ==
  /\ pc[b] = "analyze"
  /\ \E d \in Detections[cur[b]] : found' = [found EXCEPT ![b] = {d}]
  /\ pc' = [pc EXCEPT ![b] = "persist"]
  /\ UNCHANGED <<server, todo, cur, txn, locks, database, alerts,
                 history, fails>>

\* The enrich() UPDATE of b's message waits for the transactions that already
\* updated one of the indicators it matches.
WaitsFor(b) ==
  {o \in Boxes \ {b} : \E d \in found[b] : d.hits \cap locks[o] # {}}

RowOf(m, k, d) == [id |-> <<m, k>>, status |-> Status(d), threat |-> IsThreat(d),
                   case |-> OpensCase(d), events |-> SiemEvents(d)]

\* Mutation: only what ends as "Quarantined" is audited.
AuditsQuarantined(d) == Status(d) = "Quarantined"

Audits(d) == IsThreat(d)

\* persist_detection: the rows go into the open transaction; the audit row and
\* the SIEM events of the verdict leave at once.
Persist(b) ==
  /\ pc[b] = "persist"
  /\ WaitsFor(b) = {}
  /\ \E d \in found[b] :
       LET m  == cur[b]
           id == <<m, tries[m] + 1>>
       IN  /\ txn' = [txn EXCEPT ![b] = @ \cup {RowOf(m, tries[m] + 1, d)}]
           /\ locks' = [locks EXCEPT ![b] = @ \cup d.hits]
           /\ tries' = [tries EXCEPT ![m] = @ + 1]
           /\ audit' = IF Audits(d) THEN audit \cup {id} ELSE audit
           /\ alerts' = alerts \cup ({id} \X SiemEvents(d))
  /\ pc' = [pc EXCEPT ![b] = "route"]
  /\ UNCHANGED <<server, todo, cur, found, rows, history, fails>>

\* Mutation: whatever is not simply allowed is moved.
MovesUnlessAllowed(d) == Status(d) # "Allowed"

Moves(d) == IsThreat(d)

\* A threat is moved; when the move fails or the server has no folders, and for
\* every other message, the message stays in the inbox and is flagged \Seen.
Route(b) ==
  /\ pc[b] = "route"
  /\ \E d \in found[b] :
       \/ /\ Moves(d)
          /\ folder' = [folder EXCEPT ![cur[b]] = "Quarantine_AI"]
          /\ UNCHANGED seen
       \/ /\ seen' = [seen EXCEPT ![cur[b]] = TRUE]
          /\ UNCHANGED folder
  /\ cur' = [cur EXCEPT ![b] = None]
  /\ found' = [found EXCEPT ![b] = {}]
  /\ pc' = [pc EXCEPT ![b] = "fetch"]
  /\ UNCHANGED <<todo, txn, locks, database, alerts, history, fails>>

\* Mutation: the connection is closed without commit.
RowsIfClosed(b) == rows

RowsIfCommitted(b) == rows \cup txn[b]

\* After the last message: commit, close, IDLE.
Commit(b) ==
  /\ pc[b] = "fetch" /\ todo[b] = {}
  /\ rows' = RowsIfCommitted(b)
  /\ txn' = [txn EXCEPT ![b] = {}]
  /\ locks' = [locks EXCEPT ![b] = {}]
  /\ pc' = [pc EXCEPT ![b] = "idle"]
  /\ UNCHANGED <<server, todo, cur, found, audit, tries, alerts,
                 history, fails>>

----------------------------------------------------------------------------
(* Failures. *)

\* The messages of this pass that are fetched and whose rows are discarded.
Taken(b) == {r.id[1] : r \in txn[b]} \cup ({cur[b]} \ {None})

\* Mutation: the thread ends instead of reconnecting.
GiveUp == "stopped"

Reconnect == "down"

\* conn.close() without commit rolls the pass back; the outer handler
\* reconnects.
Rollback(b) ==
  /\ lost' = lost \cup Taken(b)
  /\ txn' = [txn EXCEPT ![b] = {}]
  /\ locks' = [locks EXCEPT ![b] = {}]
  /\ todo' = [todo EXCEPT ![b] = {}]
  /\ cur' = [cur EXCEPT ![b] = None]
  /\ found' = [found EXCEPT ![b] = {}]
  /\ pc' = [pc EXCEPT ![b] = Reconnect]
  /\ UNCHANGED <<server, database, alerts, skipped, opened, remarked,
                 touches>>

\* Any exception of the pass (IMAP, database, analysis) or the death of the
\* process.
Fail(b) ==
  /\ pc[b] # "down"
  /\ fails < MaxFails
  /\ fails' = fails + 1
  /\ Rollback(b)

\* PostgreSQL aborts a transaction that waits in a cycle.
DeadlockVictim(b) ==
  /\ pc[b] = "persist"
  /\ \E S \in SUBSET Boxes :
       /\ b \in S
       /\ \A o \in S : WaitsFor(o) \cap S # {}
       /\ \A o \in S : \E p \in S : o \in WaitsFor(p)
  /\ Rollback(b)
  /\ UNCHANGED fails

----------------------------------------------------------------------------
Thread(b) ==
  \/ Connect(b) \/ Search(b) \/ Fetch(b) \/ SkipSimulation(b) \/ Analyze(b)
  \/ Persist(b) \/ Route(b) \/ Commit(b) \/ DeadlockVictim(b)

Next ==
  \/ \E m \in Msgs : Deliver(m) \/ OpenMail(m) \/ MarkUnread(m)
  \/ \E b \in Boxes : Thread(b) \/ Fail(b)

Spec == Init /\ [][Next]_vars

\* The threads run on: a blocking call returns or raises.
FairSpec == Spec /\ \A b \in Boxes : WF_vars(Thread(b))

----------------------------------------------------------------------------
(* Properties. *)

OpenRows == UNION {txn[b] : b \in Boxes}
HasRow(m, R) == \E r \in R : r.id[1] = m
InHand(m) == \E b \in Boxes : cur[b] = m

\* A message is analysed and persisted once, and once more for each time its
\* recipient marks it unread: neither reconnects nor failed passes make the
\* watcher take a message twice (the UNSEEN search of email_watcher.py:106
\* against the flags set during the pass).
NoDoubleProcessing == \A m \in Msgs : tries[m] <= 1 + remarked[m]

\* No mail escapes detection unnoticed: a message that is no longer unread was
\* opened by its recipient first, accepted as a simulation, taken by a pass
\* that failed, is in the pass now running, or has its committed row.
ReadMailIsAccountedFor ==
  \A m \in Msgs :
    (folder[m] # "unsent" /\ seen[m]) =>
      \/ m \in opened \cup skipped \cup lost
      \/ InHand(m)
      \/ HasRow(m, rows \cup OpenRows)

\* The audit trail and the SIEM say the same as the emails table although they
\* do not share its transaction: every row, committed or pending, has its audit
\* record exactly when it is a threat and exactly the events of its verdict,
\* and whatever was audited or alerted without a row belongs to a failed pass.
\* An event counts as out when export_siem_event is called.
AlertsMatchRows ==
  /\ \A r \in rows \cup OpenRows :
       /\ r.id \in audit <=> r.threat
       /\ \A e \in {"email_alert", "critical_email", "email_suspicious"} :
            <<r.id, e>> \in alerts <=> e \in r.events
  /\ \A id \in audit \cup {a[1] : a \in alerts} :
       id[1] \in lost \/ \E r \in rows \cup OpenRows : r.id = id

\* The mailbox agrees with the verdict: Quarantine_AI holds only messages
\* judged a threat (or whose verdict a failed pass discarded), and a committed
\* threat is out of the unread inbox unless its recipient put it back there.
PlacementMatchesVerdict ==
  /\ \A m \in Msgs : folder[m] = "Quarantine_AI" =>
       m \in lost \/ \E r \in rows \cup OpenRows : r.id[1] = m /\ r.threat
  /\ \A r \in rows : r.threat =>
       LET m == r.id[1] IN folder[m] = "Quarantine_AI" \/ seen[m] \/ remarked[m] > 0

\* Every delivered message is eventually decided or known to be lost, also when
\* two mailbox threads wait for each other's indicator rows.
EveryMailIsDecided ==
  \A m \in Msgs :
    folder[m] = "INBOX" ~> (HasRow(m, rows) \/ m \in opened \cup skipped \cup lost)

\* ingest.py:59: "the whole ingest is one transaction", so an audit record
\* would never name an email that was rolled back.
IngestIsOneTransaction ==
  \A id \in audit : \E r \in rows \cup OpenRows : r.id = id

=============================================================================
