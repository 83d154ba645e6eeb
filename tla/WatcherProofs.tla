--------------------------- MODULE WatcherProofs ---------------------------
(***************************************************************************)
(* Proofs about ImapWatcher: for any number of mailboxes and messages, any   *)
(* detections, policies and simulations, and any number of failures and of   *)
(* interventions of recipients.                                             *)
(***************************************************************************)
EXTENDS ImapWatcher, TLAPS

----------------------------------------------------------------------------
(* The inductive invariant. *)

Working == {"analyze", "persist", "route"}

\* A thread has a message in hand while it works on one, and one detection of it
\* at most; its messages are of its mailbox, delivered, and each is either still
\* to be fetched or in hand.
PassesAreSound ==
  \A b \in Boxes :
    /\ cur[b] # None <=> pc[b] \in Working
    /\ \A d, e \in found[b] : d = e
    /\ \A m \in todo[b] : BoxOf[m] = b /\ folder[m] # "unsent"
    /\ cur[b] # None => /\ BoxOf[cur[b]] = b /\ folder[cur[b]] # "unsent"
                        /\ cur[b] \notin todo[b]

\* The chances of a message to be persisted: one, and one for each time it was
\* marked unread; an unread message has a chance left, and so has one that a
\* pass has listed or holds and has not persisted; if it holds it and the
\* message is unread again, two.
Listed(b, m)  == m \in todo[b]
Pending(b, m) == cur[b] = m /\ pc[b] \in {"analyze", "persist"}
ChancesSuffice ==
  \A m \in Msgs :
    /\ tries[m] <= 1 + remarked[m]
    /\ ~seen[m] => tries[m] <= remarked[m]
    /\ \A b \in Boxes : Listed(b, m) \/ Pending(b, m) => tries[m] <= remarked[m]
    /\ \A b \in Boxes : Pending(b, m) /\ ~seen[m] => tries[m] < remarked[m]

\* Nothing names a row with a number that was not given yet.
Numbered(id) == id[2] <= tries[id[1]]
NumbersAreGiven ==
  /\ \A r \in rows \cup OpenRows : Numbered(r.id)
  /\ \A id \in audit : Numbered(id)
  /\ \A a \in alerts : Numbered(a[1])

\* A message past its persisting has a row that says what its detection says.
RoutedHaveRows ==
  \A b \in Boxes : pc[b] = "route" =>
    \A d \in found[b] : \E r \in txn[b] : r.id[1] = cur[b] /\ r.threat = IsThreat(d)

\* A message that was taken is read, or was marked unread since.
Touched(m) == seen[m] \/ remarked[m] > 0
TakenAreTouched ==
  /\ \A b \in Boxes : cur[b] # None => Touched(cur[b])
  /\ \A r \in rows \cup OpenRows : Touched(r.id[1])

UnsentAreUnread == \A m \in Msgs : folder[m] = "unsent" => ~seen[m]

\* The first half of PlacementMatchesVerdict; the other is in TakenAreTouched.
MovedAreThreats ==
  \A m \in Msgs : folder[m] = "Quarantine_AI" =>
    m \in lost \/ \E r \in rows \cup OpenRows : r.id[1] = m /\ r.threat

WatcherInvariant ==
  /\ TypeOK /\ PassesAreSound
  /\ ChancesSuffice
  /\ NumbersAreGiven /\ AlertsMatchRows
  /\ RoutedHaveRows /\ TakenAreTouched /\ UnsentAreUnread
  /\ ReadMailIsAccountedFor /\ MovedAreThreats

----------------------------------------------------------------------------
(* Types. *)

\* What a pass makes of a detection is a row of the emails table.
LEMMA RowType ==
  ASSUME NEW m \in Msgs, NEW k \in Nat, NEW d
  PROVE  RowOf(m, k, d) \in Row
<1>1. Status(d) \in Statuses
  BY DEF Status, Statuses
<1>2. IsThreat(d) \in BOOLEAN /\ OpensCase(d) \in BOOLEAN
  BY DEF IsThreat, OpensCase
<1>3. SiemEvents(d) \in SUBSET {"email_alert", "critical_email", "email_suspicious"}
  BY DEF SiemEvents
<1> QED
  BY <1>1, <1>2, <1>3 DEF RowOf, Row

\* A thread at work has one of the messages in hand.
LEMMA AtHand ==
  ASSUME TypeOK, PassesAreSound, NEW b \in Boxes, pc[b] \in Working PROVE cur[b] \in Msgs
BY DEF TypeOK, PassesAreSound

\* The rows of open transactions have the types of rows.
LEMMA OpenRowType == ASSUME TypeOK PROVE OpenRows \subseteq Row
BY DEF TypeOK, OpenRows

\* Every step keeps the types.
LEMMA WatcherTyping ==
  ASSUME TypeOK, PassesAreSound, [Next]_vars PROVE TypeOK'
<1> USE DEF TypeOK, Places, server, database, history
<1>1. ASSUME NEW m \in Msgs, Deliver(m) PROVE TypeOK'
  BY <1>1 DEF Deliver
<1>2. ASSUME NEW m \in Msgs, OpenMail(m) PROVE TypeOK'
  BY <1>2, WatcherAssumption DEF OpenMail
<1>3. ASSUME NEW m \in Msgs, MarkUnread(m) PROVE TypeOK'
  BY <1>3, WatcherAssumption DEF MarkUnread
<1>4. ASSUME NEW b \in Boxes, Connect(b) PROVE TypeOK'
  BY <1>4 DEF Connect
<1>5. ASSUME NEW b \in Boxes, Search(b) PROVE TypeOK'
  BY <1>5 DEF Search, UnseenSearch
<1>6. ASSUME NEW b \in Boxes, Fetch(b) PROVE TypeOK'
  BY <1>6 DEF Fetch, NextUid
<1>7. ASSUME NEW b \in Boxes, SkipSimulation(b) PROVE TypeOK'
  BY <1>7, WatcherAssumption DEF SkipSimulation
<1>8. ASSUME NEW b \in Boxes, Analyze(b) PROVE TypeOK'
  <2>1. cur[b] \in Msgs
    BY <1>8, AtHand DEF Analyze, Working
  <2>2. found' \in [Boxes -> SUBSET AllDetections]
    BY <1>8, <2>1 DEF Analyze, AllDetections
  <2> QED
    BY <1>8, <2>2 DEF Analyze
<1>9. ASSUME NEW b \in Boxes, Persist(b) PROVE TypeOK'
  <2>1. cur[b] \in Msgs
    BY <1>9, AtHand DEF Persist, Working
  <2>2. PICK d \in found[b] :
          /\ txn' = [txn EXCEPT ![b] = @ \cup {RowOf(cur[b], tries[cur[b]] + 1, d)}]
          /\ locks' = [locks EXCEPT ![b] = @ \cup d.hits]
          /\ tries' = [tries EXCEPT ![cur[b]] = @ + 1]
          /\ audit' = IF Audits(d) THEN audit \cup {<<cur[b], tries[cur[b]] + 1>>} ELSE audit
          /\ alerts' = alerts \cup ({<<cur[b], tries[cur[b]] + 1>>} \X SiemEvents(d))
    BY <1>9 DEF Persist
  <2>3. RowOf(cur[b], tries[cur[b]] + 1, d) \in Row
    BY <2>1, RowType
  <2>4. /\ txn' \in [Boxes -> SUBSET Row]
        /\ tries' \in [Msgs -> Nat]
        /\ locks' \in [Boxes -> SUBSET UNION {e.hits : e \in AllDetections}]
    BY <2>1, <2>2, <2>3
  <2>5. <<cur[b], tries[cur[b]] + 1>> \in Msgs \X Nat
    BY <2>1
  <2>6. SiemEvents(d) \in SUBSET {"email_alert", "critical_email", "email_suspicious"}
    BY DEF SiemEvents
  <2>7. /\ audit' \subseteq Msgs \X Nat
        /\ alerts' \subseteq (Msgs \X Nat) \X {"email_alert", "critical_email", "email_suspicious"}
    BY <2>2, <2>5, <2>6
  <2> QED
    BY <1>9, <2>4, <2>7 DEF Persist
<1>10. ASSUME NEW b \in Boxes, Route(b) PROVE TypeOK'
  BY <1>10 DEF Route, Moves
<1>11. ASSUME NEW b \in Boxes, Commit(b) PROVE TypeOK'
  BY <1>11 DEF Commit, RowsIfCommitted
<1>12. ASSUME NEW b \in Boxes, Rollback(b), fails' \in 0..MaxFails PROVE TypeOK'
  <2>1. \A r \in txn[b] : r.id[1] \in Msgs
    BY DEF Row
  <2>2. Taken(b) \subseteq Msgs
    BY <2>1 DEF Taken
  <2>3. lost' \subseteq Msgs
    BY <1>12, <2>2 DEF Rollback
  <2> QED
    BY <1>12, <2>3 DEF Rollback, Reconnect
<1>13. CASE UNCHANGED vars
  BY <1>13 DEF vars
<1>0. (\E b \in Boxes : Fail(b) \/ DeadlockVictim(b)) => fails' \in 0..MaxFails
  BY WatcherAssumption DEF Fail, DeadlockVictim
<1> QED
  BY <1>0, <1>1, <1>2, <1>3, <1>4, <1>5, <1>6, <1>7,
     <1>8, <1>9, <1>10, <1>11, <1>12, <1>13 DEF Next, Thread, Fail, DeadlockVictim

----------------------------------------------------------------------------
(* Passes. *)

\* A pass lists only delivered mail of its mailbox, and takes each message from
\* its list.
LEMMA PassStep ==
  ASSUME TypeOK, PassesAreSound, [Next]_vars PROVE PassesAreSound'
<1> USE DEF TypeOK, PassesAreSound, Working, server, database, history
<1>1. ASSUME NEW m \in Msgs, Deliver(m) PROVE PassesAreSound'
  BY <1>1 DEF Deliver
<1>2. ASSUME NEW m \in Msgs, OpenMail(m) PROVE PassesAreSound'
  BY <1>2 DEF OpenMail
<1>3. ASSUME NEW m \in Msgs, MarkUnread(m) PROVE PassesAreSound'
  BY <1>3 DEF MarkUnread
<1>4. ASSUME NEW b \in Boxes, Connect(b) PROVE PassesAreSound'
  BY <1>4 DEF Connect
<1>5. ASSUME NEW b \in Boxes, Search(b) PROVE PassesAreSound'
  BY <1>5 DEF Search, UnseenSearch
<1>6. ASSUME NEW b \in Boxes, Fetch(b) PROVE PassesAreSound'
  <2>1. PICK m \in todo[b] :
          /\ todo' = [todo EXCEPT ![b] = @ \ {m}]
          /\ cur' = [cur EXCEPT ![b] = m]
          /\ pc' = [pc EXCEPT ![b] = "analyze"]
          /\ UNCHANGED <<folder, found>>
    BY <1>6 DEF Fetch
  <2>2. m \in Msgs /\ m # None /\ BoxOf[m] = b /\ folder[m] # "unsent"
    BY <2>1, WatcherAssumption
  <2>3. ASSUME NEW o \in Boxes, o # b PROVE todo'[o] = todo[o] /\ cur'[o] = cur[o] /\ pc'[o] = pc[o]
    BY <2>1, <2>3
  <2>4. todo'[b] = todo[b] \ {m} /\ cur'[b] = m /\ pc'[b] = "analyze"
    BY <2>1
  <2> QED
    BY <2>1, <2>2, <2>3, <2>4
<1>7. ASSUME NEW b \in Boxes, SkipSimulation(b) PROVE PassesAreSound'
  BY <1>7 DEF SkipSimulation
<1>8. ASSUME NEW b \in Boxes, Analyze(b) PROVE PassesAreSound'
  BY <1>8 DEF Analyze
<1>9. ASSUME NEW b \in Boxes, Persist(b) PROVE PassesAreSound'
  BY <1>9 DEF Persist
<1>10. ASSUME NEW b \in Boxes, Route(b) PROVE PassesAreSound'
  BY <1>10 DEF Route, Moves
<1>11. ASSUME NEW b \in Boxes, Commit(b) PROVE PassesAreSound'
  BY <1>11 DEF Commit, RowsIfCommitted
<1>12. ASSUME NEW b \in Boxes, Rollback(b) PROVE PassesAreSound'
  BY <1>12 DEF Rollback, Taken, Reconnect
<1>13. CASE UNCHANGED vars
  BY <1>13 DEF vars
<1> QED
  BY <1>1, <1>2, <1>3, <1>4, <1>5, <1>6, <1>7,
     <1>8, <1>9, <1>10, <1>11, <1>12, <1>13 DEF Next, Thread, Fail, DeadlockVictim

----------------------------------------------------------------------------
(* What the steps do to the rows of the open transactions. *)

\* Persist writes one row, numbered by the tries, and its audit record and
\* alerts.
LEMMA PersistEffect ==
  ASSUME TypeOK, PassesAreSound, NEW b \in Boxes, Persist(b)
  PROVE  /\ cur[b] \in Msgs
         /\ \E d \in found[b] :
              LET id == <<cur[b], tries[cur[b]] + 1>>
                  row == RowOf(cur[b], tries[cur[b]] + 1, d)
              IN /\ row \in Row /\ row.id = id
                 /\ OpenRows' = OpenRows \cup {row}
                 /\ txn' = [txn EXCEPT ![b] = @ \cup {row}]
                 /\ tries' = [tries EXCEPT ![cur[b]] = @ + 1]
                 /\ audit' = IF IsThreat(d) THEN audit \cup {id} ELSE audit
                 /\ alerts' = alerts \cup ({id} \X SiemEvents(d))
<1>1. cur[b] \in Msgs
  BY AtHand DEF Persist, Working
<1>2. PICK d \in found[b] :
        /\ txn' = [txn EXCEPT ![b] = @ \cup {RowOf(cur[b], tries[cur[b]] + 1, d)}]
        /\ tries' = [tries EXCEPT ![cur[b]] = @ + 1]
        /\ audit' = IF Audits(d) THEN audit \cup {<<cur[b], tries[cur[b]] + 1>>} ELSE audit
        /\ alerts' = alerts \cup ({<<cur[b], tries[cur[b]] + 1>>} \X SiemEvents(d))
  BY DEF Persist
<1>3. tries[cur[b]] + 1 \in Nat
  BY <1>1 DEF TypeOK
<1>4. RowOf(cur[b], tries[cur[b]] + 1, d) \in Row
  BY <1>1, <1>3, RowType
<1>5. RowOf(cur[b], tries[cur[b]] + 1, d).id = <<cur[b], tries[cur[b]] + 1>>
  BY DEF RowOf
<1>6. OpenRows' = OpenRows \cup {RowOf(cur[b], tries[cur[b]] + 1, d)}
  <2>1. \A o \in Boxes : txn'[o] = IF o = b THEN txn[b] \cup {RowOf(cur[b], tries[cur[b]] + 1, d)}
                                            ELSE txn[o]
    BY <1>2 DEF TypeOK
  <2> QED
    BY <2>1 DEF OpenRows
<1> QED
  BY <1>1, <1>2, <1>4, <1>5, <1>6 DEF Audits

\* A commit moves the rows of a transaction and drops none.
LEMMA CommitEffect ==
  ASSUME TypeOK, NEW b \in Boxes, Commit(b)
  PROVE  /\ rows' \cup OpenRows' = rows \cup OpenRows
         /\ rows \subseteq rows'
<1>1. rows' = rows \cup txn[b]
  BY DEF Commit, RowsIfCommitted
<1>2. \A o \in Boxes : txn'[o] = IF o = b THEN {} ELSE txn[o]
  BY DEF Commit, TypeOK
<1>3. \A r \in OpenRows : r \in rows' \cup OpenRows'
  BY <1>1, <1>2 DEF OpenRows
<1>4. OpenRows' \subseteq OpenRows
  BY <1>2 DEF OpenRows
<1>5. txn[b] \subseteq OpenRows
  BY DEF OpenRows
<1> QED
  BY <1>1, <1>3, <1>4, <1>5

\* A rollback drops the rows of one transaction, all of messages now lost.
LEMMA RollbackEffect ==
  ASSUME TypeOK, NEW b \in Boxes, Rollback(b)
  PROVE  /\ rows' \cup OpenRows' \subseteq rows \cup OpenRows
         /\ rows' = rows /\ lost \subseteq lost'
         /\ \A r \in rows \cup OpenRows : r \in rows' \cup OpenRows' \/ r.id[1] \in lost'
         /\ cur[b] # None => cur[b] \in lost'
<1>1. \A o \in Boxes : txn'[o] = IF o = b THEN {} ELSE txn[o]
  BY DEF Rollback, TypeOK
<1>2. rows' = rows /\ lost' = lost \cup Taken(b)
  BY DEF Rollback, database
<1>3. \A r \in txn[b] : r.id[1] \in lost'
  BY <1>2 DEF Taken
<1>4. cur[b] # None => cur[b] \in lost'
  BY <1>2 DEF Taken
<1> QED
  BY <1>1, <1>2, <1>3, <1>4 DEF OpenRows

\* The other steps leave the rows as they are.
LEMMA RowsKept == ASSUME UNCHANGED <<rows, txn>> PROVE rows' = rows /\ OpenRows' = OpenRows
BY DEF OpenRows

----------------------------------------------------------------------------
(* The chances of a message. *)

\* A step never uses up a chance that is not there: Search lists unread messages,
\* Fetch passes a listed one on, Persist uses the chance of the one in hand.
LEMMA ChancesStep ==
  ASSUME TypeOK, PassesAreSound, ChancesSuffice, [Next]_vars PROVE ChancesSuffice'
<1> USE DEF TypeOK, ChancesSuffice, Listed, Pending, server, database, history
<1>1. ASSUME NEW m \in Msgs, Deliver(m) PROVE ChancesSuffice'
  BY <1>1 DEF Deliver
<1>2. ASSUME NEW m \in Msgs, OpenMail(m) PROVE ChancesSuffice'
  BY <1>2 DEF OpenMail
<1>3. ASSUME NEW m \in Msgs, MarkUnread(m) PROVE ChancesSuffice'
  BY <1>3, WatcherAssumption DEF MarkUnread
<1>4. ASSUME NEW b \in Boxes, Connect(b) PROVE ChancesSuffice'
  BY <1>4 DEF Connect
<1>5. ASSUME NEW b \in Boxes, Search(b) PROVE ChancesSuffice'
  <2>1. \A o \in Boxes : todo'[o] = IF o = b THEN UnseenSearch(b) ELSE todo[o]
    BY <1>5 DEF Search
  <2>2. \A o \in Boxes : pc'[o] \in {"analyze", "persist"} => pc'[o] = pc[o]
    BY <1>5 DEF Search
  <2>3. UNCHANGED <<seen, cur, tries, remarked>>
    BY <1>5 DEF Search
  <2> QED
    BY <2>1, <2>2, <2>3 DEF UnseenSearch
<1>6. ASSUME NEW b \in Boxes, Fetch(b) PROVE ChancesSuffice'
  <2>1. PICK m \in todo[b] :
          /\ todo' = [todo EXCEPT ![b] = @ \ {m}]
          /\ cur' = [cur EXCEPT ![b] = m]
          /\ pc' = [pc EXCEPT ![b] = "analyze"]
          /\ seen' = [seen EXCEPT ![m] = TRUE]
          /\ UNCHANGED <<tries, remarked>>
    BY <1>6 DEF Fetch
  <2>2. m \in Msgs
    BY <2>1
  <2>3. \A o \in Boxes : todo'[o] \subseteq todo[o]
    BY <2>1
  <2>4. ASSUME NEW n \in Msgs, n # m
        PROVE  seen'[n] = seen[n] /\ \A o \in Boxes : Pending(o, n)' => Pending(o, n)
    BY <2>1, <2>4
  <2>5. seen'[m] /\ tries[m] <= remarked[m]
    BY <2>1, <2>2
  <2> QED
    BY <2>1, <2>2, <2>3, <2>4, <2>5
<1>7. ASSUME NEW b \in Boxes, SkipSimulation(b) PROVE ChancesSuffice'
  <2>1. \A o \in Boxes : \A n \in Msgs : Pending(o, n)' => Pending(o, n)
    BY <1>7, WatcherAssumption DEF SkipSimulation
  <2>2. UNCHANGED <<seen, todo, tries, remarked>>
    BY <1>7 DEF SkipSimulation
  <2> QED
    BY <2>1, <2>2
<1>8. ASSUME NEW b \in Boxes, Analyze(b) PROVE ChancesSuffice'
  <2>1. \A o \in Boxes : \A n \in Msgs : Pending(o, n)' => Pending(o, n)
    BY <1>8 DEF Analyze
  <2>2. UNCHANGED <<seen, todo, tries, remarked>>
    BY <1>8 DEF Analyze
  <2> QED
    BY <2>1, <2>2
<1>9. ASSUME NEW b \in Boxes, Persist(b) PROVE ChancesSuffice'
  <2>1. cur[b] \in Msgs /\ tries' = [tries EXCEPT ![cur[b]] = @ + 1]
    BY <1>9, PersistEffect DEF PassesAreSound
  <2>2. /\ UNCHANGED <<todo, cur, seen, remarked>>
        /\ pc[b] = "persist" /\ pc' = [pc EXCEPT ![b] = "route"]
    BY <1>9 DEF Persist
  <2>3. \A o \in Boxes : ~Listed(o, cur[b]) /\ ~Pending(o, cur[b])'
    <3> SUFFICES ASSUME NEW o \in Boxes PROVE ~Listed(o, cur[b]) /\ ~Pending(o, cur[b])'
      OBVIOUS
    <3>1. BoxOf[cur[b]] = b /\ cur[b] \notin todo[b] /\ cur[b] # None
      BY <2>1, WatcherAssumption DEF PassesAreSound
    <3>2. CASE o = b
      BY <2>2, <3>1, <3>2
    <3>3. CASE o # b
      <4>1. cur[b] \notin todo[o]
        BY <3>1, <3>3 DEF PassesAreSound
      <4>2. cur[o] # cur[b]
        BY <3>1, <3>3 DEF PassesAreSound
      <4> QED
        BY <2>2, <4>1, <4>2
    <3> QED
      BY <3>2, <3>3
  <2>4. ASSUME NEW n \in Msgs, n # cur[b]
        PROVE  tries'[n] = tries[n] /\ \A o \in Boxes : Pending(o, n)' => Pending(o, n)
    BY <2>1, <2>2, <2>4
  <2>5. /\ tries'[cur[b]] = tries[cur[b]] + 1 /\ tries[cur[b]] <= remarked[cur[b]]
        /\ ~seen[cur[b]] => tries[cur[b]] < remarked[cur[b]]
    BY <2>1, <2>2
  <2>6. tries[cur[b]] \in Nat /\ remarked[cur[b]] \in Nat
    BY <2>1
  <2>7. tries'[cur[b]] <= 1 + remarked[cur[b]] /\ (~seen[cur[b]] => tries'[cur[b]] <= remarked[cur[b]])
    BY <2>5, <2>6
  <2>8. ASSUME NEW n \in Msgs, n # cur[b]
        PROVE  /\ tries'[n] <= 1 + remarked'[n]
               /\ ~seen'[n] => tries'[n] <= remarked'[n]
               /\ \A o \in Boxes : Listed(o, n)' \/ Pending(o, n)' => tries'[n] <= remarked'[n]
               /\ \A o \in Boxes : Pending(o, n)' /\ ~seen'[n] => tries'[n] < remarked'[n]
    BY <2>2, <2>4, <2>8
  <2>9. \A o \in Boxes : ~Listed(o, cur[b])' /\ ~Pending(o, cur[b])'
    BY <2>2, <2>3
  <2> QED
    BY <2>1, <2>2, <2>7, <2>8, <2>9
<1>10. ASSUME NEW b \in Boxes, Route(b) PROVE ChancesSuffice'
  <2>1. \A n \in Msgs : seen[n] => seen'[n]
    BY <1>10 DEF Route
  <2>2. \A o \in Boxes : \A n \in Msgs : Pending(o, n)' => Pending(o, n)
    BY <1>10, WatcherAssumption DEF Route
  <2>3. UNCHANGED <<todo, tries, remarked>>
    BY <1>10 DEF Route
  <2> QED
    BY <2>1, <2>2, <2>3
<1>11. ASSUME NEW b \in Boxes, Commit(b) PROVE ChancesSuffice'
  BY <1>11 DEF Commit, RowsIfCommitted
<1>12. ASSUME NEW b \in Boxes, Rollback(b) PROVE ChancesSuffice'
  <2>1. \A o \in Boxes : \A n \in Msgs : (Pending(o, n)' => Pending(o, n)) /\ (Listed(o, n)' => Listed(o, n))
    BY <1>12, WatcherAssumption DEF Rollback, Reconnect
  <2>2. UNCHANGED <<seen, tries, remarked>>
    BY <1>12 DEF Rollback
  <2> QED
    BY <2>1, <2>2
<1>13. CASE UNCHANGED vars
  BY <1>13 DEF vars
<1> QED
  BY <1>1, <1>2, <1>3, <1>4, <1>5, <1>6, <1>7,
     <1>8, <1>9, <1>10, <1>11, <1>12, <1>13 DEF Next, Thread, Fail, DeadlockVictim

----------------------------------------------------------------------------
(* Rows, audit records and alerts. *)

\* Only Persist, Commit and a rollback touch rows, audit records, alerts, the
\* numbering of rows and the lost messages.
LEMMA RowSteps ==
  ASSUME [Next]_vars
  PROVE  \/ UNCHANGED <<rows, txn, audit, alerts, tries, lost>>
         \/ \E b \in Boxes : Persist(b) \/ Commit(b) \/ Rollback(b)
<1> USE DEF database, history
<1>1. ASSUME NEW m \in Msgs, Deliver(m) \/ OpenMail(m) \/ MarkUnread(m)
      PROVE  UNCHANGED <<rows, txn, audit, alerts, tries, lost>>
  BY <1>1 DEF Deliver, OpenMail, MarkUnread
<1>2. ASSUME NEW b \in Boxes, Connect(b) \/ Search(b) \/ SkipSimulation(b) \/ Analyze(b)
      PROVE  UNCHANGED <<rows, txn, audit, alerts, tries, lost>>
  BY <1>2 DEF Connect, Search, SkipSimulation, Analyze
<1>3. ASSUME NEW b \in Boxes, Fetch(b) \/ Route(b)
      PROVE  UNCHANGED <<rows, txn, audit, alerts, tries, lost>>
  BY <1>3 DEF Fetch, Route
<1> QED
  BY <1>1, <1>2, <1>3 DEF Next, Thread, Fail, DeadlockVictim, vars

\* The row that Persist writes has a number that nothing has yet.
LEMMA NewNumber ==
  ASSUME TypeOK, NumbersAreGiven, NEW m \in Msgs
  PROVE  LET id == <<m, tries[m] + 1>>
         IN /\ id \notin audit
            /\ \A e : <<id, e>> \notin alerts
            /\ \A r \in rows \cup OpenRows : r.id # id
<1>1. tries[m] \in Nat
  BY DEF TypeOK
<1>2. ~Numbered(<<m, tries[m] + 1>>)
  BY <1>1 DEF Numbered
<1>3. ASSUME NEW e, <<<<m, tries[m] + 1>>, e>> \in alerts PROVE FALSE
  <2>1. Numbered(<<<<m, tries[m] + 1>>, e>>[1])
    BY <1>3 DEF NumbersAreGiven
  <2> QED
    BY <2>1, <1>2
<1> QED
  BY <1>2, <1>3 DEF NumbersAreGiven

\* A row's number is given when its message is persisted.
LEMMA NumbersStep ==
  ASSUME TypeOK, PassesAreSound, NumbersAreGiven, [Next]_vars PROVE NumbersAreGiven'
<1>1. CASE UNCHANGED <<rows, txn, audit, alerts, tries, lost>>
  BY <1>1, RowsKept DEF NumbersAreGiven, Numbered
<1>2. ASSUME NEW b \in Boxes, Persist(b) PROVE NumbersAreGiven'
  <2>1. cur[b] \in Msgs
    BY <1>2, PersistEffect
  <2> DEFINE id == <<cur[b], tries[cur[b]] + 1>>
  <2>2. PICK d \in found[b], row \in Row :
          /\ row.id = id
          /\ OpenRows' = OpenRows \cup {row}
          /\ tries' = [tries EXCEPT ![cur[b]] = @ + 1]
          /\ audit' \subseteq audit \cup {id}
          /\ alerts' \subseteq alerts \cup ({id} \X SiemEvents(d))
    BY <1>2, PersistEffect
  <2>3. rows' = rows
    BY <1>2 DEF Persist
  <2>4. \A n \in Msgs : tries[n] \in Nat /\ tries'[n] \in Nat /\ tries[n] <= tries'[n]
    BY <2>1, <2>2 DEF TypeOK
  <2>5. ASSUME NEW i \in Msgs \X Nat, i[2] <= tries[i[1]] PROVE i[2] <= tries'[i[1]]
    BY <2>4, <2>5
  <2>6. id[2] <= tries'[id[1]]
    BY <2>1, <2>2, <2>4 DEF TypeOK
  <2>7. /\ \A r \in rows \cup OpenRows : r.id \in Msgs \X Nat
        /\ \A i \in audit : i \in Msgs \X Nat
        /\ \A a \in alerts : a[1] \in Msgs \X Nat
    BY OpenRowType DEF TypeOK, Row
  <2>8. \A r \in rows' \cup OpenRows' : r.id[2] <= tries'[r.id[1]]
    BY <2>2, <2>3, <2>5, <2>6, <2>7 DEF NumbersAreGiven, Numbered
  <2>9. \A i \in audit' : i[2] <= tries'[i[1]]
    BY <2>2, <2>5, <2>6, <2>7 DEF NumbersAreGiven, Numbered
  <2>10. ASSUME NEW a \in alerts' PROVE a[1][2] <= tries'[a[1][1]]
    <3>1. CASE a \in alerts
      BY <3>1, <2>5, <2>7 DEF NumbersAreGiven, Numbered
    <3>2. CASE a \in {id} \X SiemEvents(d)
      <4>1. a[1] = id
        BY <3>2
      <4> QED
        BY <4>1, <2>6
    <3> QED
      BY <2>2, <3>1, <3>2
  <2> QED
    BY <2>8, <2>9, <2>10 DEF NumbersAreGiven, Numbered
<1>3. ASSUME NEW b \in Boxes, Commit(b) PROVE NumbersAreGiven'
  <2>1. rows' \cup OpenRows' = rows \cup OpenRows /\ UNCHANGED <<audit, alerts, tries>>
    BY <1>3, CommitEffect DEF Commit
  <2> QED
    BY <2>1 DEF NumbersAreGiven, Numbered
<1>4. ASSUME NEW b \in Boxes, Rollback(b) PROVE NumbersAreGiven'
  <2>1. rows' \cup OpenRows' \subseteq rows \cup OpenRows /\ UNCHANGED <<audit, alerts, tries>>
    BY <1>4, RollbackEffect DEF Rollback, database
  <2> QED
    BY <2>1 DEF NumbersAreGiven, Numbered
<1> QED
  BY <1>1, <1>2, <1>3, <1>4, RowSteps

\* Rows, audit and alerts are written for the same detection, and part only when
\* a pass fails.
LEMMA AlertsStep ==
  ASSUME TypeOK, PassesAreSound, NumbersAreGiven, AlertsMatchRows, [Next]_vars
  PROVE  AlertsMatchRows'
<1> DEFINE Events == {"email_alert", "critical_email", "email_suspicious"}
<1>1. CASE UNCHANGED <<rows, txn, audit, alerts, tries, lost>>
  BY <1>1, RowsKept DEF AlertsMatchRows
<1>2. ASSUME NEW b \in Boxes, Persist(b) PROVE AlertsMatchRows'
  <2>1. cur[b] \in Msgs
    BY <1>2, PersistEffect
  <2> DEFINE id == <<cur[b], tries[cur[b]] + 1>>
  <2>2. PICK d \in found[b] :
          /\ OpenRows' = OpenRows \cup {RowOf(cur[b], tries[cur[b]] + 1, d)}
          /\ audit' = IF IsThreat(d) THEN audit \cup {id} ELSE audit
          /\ alerts' = alerts \cup ({id} \X SiemEvents(d))
    BY <1>2, PersistEffect
  <2> DEFINE row == RowOf(cur[b], tries[cur[b]] + 1, d)
  <2>3. row.id = id /\ row.threat = IsThreat(d) /\ row.events = SiemEvents(d)
    BY DEF RowOf
  <2>4. rows' = rows /\ lost' = lost
    BY <1>2 DEF Persist, history
  <2>5. /\ id \notin audit /\ \A e : <<id, e>> \notin alerts
        /\ \A r \in rows \cup OpenRows : r.id # id
    BY <2>1, NewNumber
  <2>6. ASSUME NEW r \in rows \cup OpenRows
        PROVE  /\ r.id \in audit' <=> r.threat
               /\ \A e \in Events : <<r.id, e>> \in alerts' <=> e \in r.events
    <3>1. r.id # id
      BY <2>5
    <3>2. r.id \in audit' <=> r.id \in audit
      BY <2>2, <3>1
    <3>3. \A e \in Events : <<r.id, e>> \in alerts' <=> <<r.id, e>> \in alerts
      BY <2>2, <3>1
    <3> QED
      BY <3>2, <3>3 DEF AlertsMatchRows
  <2>7. row.id \in audit' <=> row.threat
    BY <2>2, <2>3, <2>5
  <2>8. \A e \in Events : <<row.id, e>> \in alerts' <=> e \in row.events
    BY <2>2, <2>3, <2>5
  <2>9. rows' \cup OpenRows' = (rows \cup OpenRows) \cup {row}
    BY <2>2, <2>4
  <2>10. ASSUME NEW i \in audit' \cup {a[1] : a \in alerts'}
         PROVE  i[1] \in lost' \/ \E r \in rows' \cup OpenRows' : r.id = i
    <3>1. i \in audit \cup {a[1] : a \in alerts} \/ i = id
      BY <2>2
    <3> QED
      BY <3>1, <2>3, <2>4, <2>9 DEF AlertsMatchRows
  <2> HIDE DEF row, id
  <2> QED
    BY <2>6, <2>7, <2>8, <2>9, <2>10 DEF AlertsMatchRows
<1>3. ASSUME NEW b \in Boxes, Commit(b) PROVE AlertsMatchRows'
  <2>1. rows' \cup OpenRows' = rows \cup OpenRows /\ UNCHANGED <<audit, alerts, lost>>
    BY <1>3, CommitEffect DEF Commit, history
  <2> QED
    BY <2>1 DEF AlertsMatchRows
<1>4. ASSUME NEW b \in Boxes, Rollback(b) PROVE AlertsMatchRows'
  <2>1. UNCHANGED <<audit, alerts>>
    BY <1>4 DEF Rollback, database
  <2>2. /\ rows' \cup OpenRows' \subseteq rows \cup OpenRows /\ lost \subseteq lost'
        /\ \A r \in rows \cup OpenRows : r \in rows' \cup OpenRows' \/ r.id[1] \in lost'
    BY <1>4, RollbackEffect
  <2>3. ASSUME NEW i \in audit \cup {a[1] : a \in alerts}
        PROVE  i[1] \in lost' \/ \E r \in rows' \cup OpenRows' : r.id = i
    BY <2>2 DEF AlertsMatchRows
  <2> QED
    BY <2>1, <2>2, <2>3 DEF AlertsMatchRows
<1> QED
  BY <1>1, <1>2, <1>3, <1>4, RowSteps

----------------------------------------------------------------------------
(* What was taken, and where it is. *)

\* A thread in "route" got there by Persist, and keeps the row and the detection.
LEMMA RoutedStep ==
  ASSUME TypeOK, PassesAreSound, RoutedHaveRows, [Next]_vars PROVE RoutedHaveRows'
<1> USE DEF TypeOK, RoutedHaveRows, server, database, history
<1>1. ASSUME NEW m \in Msgs, Deliver(m) PROVE RoutedHaveRows'
  BY <1>1 DEF Deliver
<1>2. ASSUME NEW m \in Msgs, OpenMail(m) PROVE RoutedHaveRows'
  BY <1>2 DEF OpenMail
<1>3. ASSUME NEW m \in Msgs, MarkUnread(m) PROVE RoutedHaveRows'
  BY <1>3 DEF MarkUnread
<1>4. ASSUME NEW b \in Boxes, Connect(b) PROVE RoutedHaveRows'
  BY <1>4 DEF Connect
<1>5. ASSUME NEW b \in Boxes, Search(b) PROVE RoutedHaveRows'
  BY <1>5 DEF Search, UnseenSearch
<1>6. ASSUME NEW b \in Boxes, Fetch(b) PROVE RoutedHaveRows'
  BY <1>6 DEF Fetch, NextUid
<1>7. ASSUME NEW b \in Boxes, SkipSimulation(b) PROVE RoutedHaveRows'
  BY <1>7 DEF SkipSimulation
<1>8. ASSUME NEW b \in Boxes, Analyze(b) PROVE RoutedHaveRows'
  BY <1>8 DEF Analyze
<1>9. ASSUME NEW b \in Boxes, Persist(b) PROVE RoutedHaveRows'
  <2>1. cur[b] \in Msgs
    BY <1>9, PersistEffect
  <2>2. PICK d \in found[b] :
          txn' = [txn EXCEPT ![b] = @ \cup {RowOf(cur[b], tries[cur[b]] + 1, d)}]
    BY <1>9, PersistEffect
  <2>3. UNCHANGED <<cur, found>> /\ pc' = [pc EXCEPT ![b] = "route"]
    BY <1>9 DEF Persist
  <2>4. RowOf(cur[b], tries[cur[b]] + 1, d) \in txn'[b] /\ \A e \in found[b] : e = d
    BY <2>2 DEF PassesAreSound
  <2>5. /\ RowOf(cur[b], tries[cur[b]] + 1, d).id[1] = cur[b]
        /\ RowOf(cur[b], tries[cur[b]] + 1, d).threat = IsThreat(d)
    BY DEF RowOf
  <2>6. \A e \in found'[b] : \E r \in txn'[b] : r.id[1] = cur'[b] /\ r.threat = IsThreat(e)
    BY <2>3, <2>4, <2>5
  <2>7. \A o \in Boxes \ {b} : txn'[o] = txn[o] /\ pc'[o] = pc[o]
    BY <2>2, <2>3
  <2> QED
    BY <2>3, <2>6, <2>7
<1>10. ASSUME NEW b \in Boxes, Route(b) PROVE RoutedHaveRows'
  BY <1>10 DEF Route, Moves
<1>11. ASSUME NEW b \in Boxes, Commit(b) PROVE RoutedHaveRows'
  BY <1>11 DEF Commit, RowsIfCommitted
<1>12. ASSUME NEW b \in Boxes, Rollback(b) PROVE RoutedHaveRows'
  BY <1>12 DEF Rollback, Taken, Reconnect
<1>13. CASE UNCHANGED vars
  BY <1>13 DEF vars
<1> QED
  BY <1>1, <1>2, <1>3, <1>4, <1>5, <1>6, <1>7,
     <1>8, <1>9, <1>10, <1>11, <1>12, <1>13 DEF Next, Thread, Fail, DeadlockVictim

\* Who was touched stays so: only MarkUnread takes \Seen away, and counts it.
LEMMA TouchedStays ==
  ASSUME TypeOK, [Next]_vars, NEW m \in Msgs, Touched(m) PROVE Touched(m)'
<1> USE DEF TypeOK, Touched, server, database, history
<1>1. ASSUME NEW n \in Msgs, Deliver(n) \/ OpenMail(n) \/ MarkUnread(n) PROVE Touched(m)'
  BY <1>1 DEF Deliver, OpenMail, MarkUnread
<1>2. ASSUME NEW b \in Boxes, Connect(b) \/ Search(b) \/ SkipSimulation(b) \/ Analyze(b)
      PROVE  Touched(m)'
  BY <1>2 DEF Connect, Search, SkipSimulation, Analyze
<1>3. ASSUME NEW b \in Boxes, Fetch(b) \/ Persist(b) \/ Route(b) PROVE Touched(m)'
  BY <1>3 DEF Fetch, Persist, Route
<1>4. ASSUME NEW b \in Boxes, Commit(b) \/ Rollback(b) PROVE Touched(m)'
  BY <1>4 DEF Commit, Rollback
<1>5. CASE UNCHANGED vars
  BY <1>5 DEF vars
<1> QED
  BY <1>1, <1>2, <1>3, <1>4, <1>5 DEF Next, Thread, Fail, DeadlockVictim

\* What a thread takes in hand is fetched, so it is read by then.
LEMMA InHandTouched ==
  ASSUME TypeOK, PassesAreSound, TakenAreTouched, [Next]_vars, NEW o \in Boxes, cur'[o] # None
  PROVE  cur'[o] \in Msgs /\ (seen'[cur'[o]] \/ remarked'[cur'[o]] > 0)
<1> USE DEF server, database, history
<1>1. CASE cur'[o] = cur[o]
  BY <1>1, TouchedStays DEF TakenAreTouched, TypeOK, Touched
<1>2. CASE cur'[o] # cur[o]
  <2>1. ASSUME NEW b \in Boxes, Fetch(b) PROVE cur'[o] \in Msgs /\ seen'[cur'[o]]
    <3>1. PICK m \in todo[b] : cur' = [cur EXCEPT ![b] = m] /\ seen' = [seen EXCEPT ![m] = TRUE]
      BY <2>1 DEF Fetch
    <3>2. o = b /\ m \in Msgs
      BY <1>2, <3>1 DEF TypeOK
    <3> QED
      BY <3>1, <3>2 DEF TypeOK
  <2>2. ASSUME NEW b \in Boxes, SkipSimulation(b) \/ Route(b) \/ Rollback(b) PROVE FALSE
    BY <1>2, <2>2 DEF SkipSimulation, Route, Rollback, TypeOK
  <2>3. ASSUME NEW b \in Boxes, Connect(b) \/ Search(b) \/ Analyze(b) \/ Persist(b) \/ Commit(b)
        PROVE  FALSE
    BY <1>2, <2>3 DEF Connect, Search, Analyze, Persist, Commit
  <2>4. ASSUME NEW m \in Msgs, Deliver(m) \/ OpenMail(m) \/ MarkUnread(m) PROVE FALSE
    BY <1>2, <2>4 DEF Deliver, OpenMail, MarkUnread
  <2>5. ~UNCHANGED vars
    BY <1>2 DEF vars
  <2> QED
    BY <2>1, <2>2, <2>3, <2>4, <2>5 DEF Next, Thread, Fail, DeadlockVictim, Touched
<1> QED
  BY <1>1, <1>2

\* A message is read when it is taken, and unread again only by its recipient.
LEMMA TakenStep ==
  ASSUME TypeOK, PassesAreSound, TakenAreTouched, [Next]_vars PROVE TakenAreTouched'
<1>1. \A o \in Boxes : cur'[o] # None => seen'[cur'[o]] \/ remarked'[cur'[o]] > 0
  BY InHandTouched
<1>2. \A r \in rows \cup OpenRows : r.id[1] \in Msgs /\ Touched(r.id[1])
  BY OpenRowType DEF TypeOK, Row, TakenAreTouched
<1>3. \A r \in rows \cup OpenRows : seen'[r.id[1]] \/ remarked'[r.id[1]] > 0
  BY <1>2, TouchedStays DEF Touched
<1>4. ASSUME NEW r \in rows' \cup OpenRows' PROVE seen'[r.id[1]] \/ remarked'[r.id[1]] > 0
  <2>1. CASE UNCHANGED <<rows, txn, audit, alerts, tries, lost>>
    BY <1>3, <2>1, RowsKept
  <2>2. ASSUME NEW b \in Boxes, Persist(b) PROVE seen'[r.id[1]] \/ remarked'[r.id[1]] > 0
    <3>1. r \in rows \cup OpenRows \/ r.id = <<cur[b], tries[cur[b]] + 1>>
      BY <2>2, PersistEffect, ZenonT(60) DEF Persist
    <3>2. cur[b] \in Msgs /\ cur[b] # None /\ Touched(cur[b])
      BY <2>2, PersistEffect, WatcherAssumption DEF TakenAreTouched
    <3>3. seen'[cur[b]] \/ remarked'[cur[b]] > 0
      BY <3>2, TouchedStays DEF Touched
    <3> QED
      BY <1>3, <3>1, <3>3
  <2>3. ASSUME NEW b \in Boxes, Commit(b) \/ Rollback(b) PROVE r \in rows \cup OpenRows
    BY <2>3, CommitEffect, RollbackEffect
  <2> QED
    BY <1>3, <2>1, <2>2, <2>3, RowSteps
<1> QED
  BY <1>1, <1>4 DEF TakenAreTouched, Touched

\* Nobody reads a message before it is delivered.
LEMMA UnsentStep ==
  ASSUME TypeOK, PassesAreSound, UnsentAreUnread, [Next]_vars PROVE UnsentAreUnread'
<1> USE DEF TypeOK, UnsentAreUnread, server, database, history
<1>1. ASSUME NEW m \in Msgs, Deliver(m) PROVE UnsentAreUnread'
  BY <1>1 DEF Deliver
<1>2. ASSUME NEW m \in Msgs, OpenMail(m) PROVE UnsentAreUnread'
  BY <1>2 DEF OpenMail
<1>3. ASSUME NEW m \in Msgs, MarkUnread(m) PROVE UnsentAreUnread'
  BY <1>3 DEF MarkUnread
<1>4. ASSUME NEW b \in Boxes, Connect(b) PROVE UnsentAreUnread'
  BY <1>4 DEF Connect
<1>5. ASSUME NEW b \in Boxes, Search(b) PROVE UnsentAreUnread'
  BY <1>5 DEF Search, UnseenSearch
<1>6. ASSUME NEW b \in Boxes, Fetch(b) PROVE UnsentAreUnread'
  <2>1. PICK m \in todo[b] : seen' = [seen EXCEPT ![m] = TRUE] /\ folder' = folder
    BY <1>6 DEF Fetch
  <2>2. folder[m] # "unsent"
    BY <2>1 DEF PassesAreSound
  <2> QED
    BY <2>1, <2>2
<1>7. ASSUME NEW b \in Boxes, SkipSimulation(b) PROVE UnsentAreUnread'
  BY <1>7 DEF SkipSimulation
<1>8. ASSUME NEW b \in Boxes, Analyze(b) PROVE UnsentAreUnread'
  BY <1>8 DEF Analyze
<1>9. ASSUME NEW b \in Boxes, Persist(b) PROVE UnsentAreUnread'
  BY <1>9 DEF Persist
<1>10. ASSUME NEW b \in Boxes, Route(b) PROVE UnsentAreUnread'
  <2>1. cur[b] \in Msgs /\ folder[cur[b]] # "unsent"
    BY <1>10, AtHand, WatcherAssumption DEF Route, Working, PassesAreSound
  <2>2. \A n \in Msgs : n # cur[b] => folder'[n] = folder[n] /\ seen'[n] = seen[n]
    BY <1>10 DEF Route
  <2>3. folder'[cur[b]] # "unsent"
    BY <1>10, <2>1 DEF Route
  <2> QED
    BY <2>1, <2>2, <2>3
<1>11. ASSUME NEW b \in Boxes, Commit(b) PROVE UnsentAreUnread'
  BY <1>11 DEF Commit, RowsIfCommitted
<1>12. ASSUME NEW b \in Boxes, Rollback(b) PROVE UnsentAreUnread'
  BY <1>12 DEF Rollback, Taken, Reconnect
<1>13. CASE UNCHANGED vars
  BY <1>13 DEF vars
<1> QED
  BY <1>1, <1>2, <1>3, <1>4, <1>5, <1>6, <1>7,
     <1>8, <1>9, <1>10, <1>11, <1>12, <1>13 DEF Next, Thread, Fail, DeadlockVictim

----------------------------------------------------------------------------
(* No mail is read and forgotten; only threats are moved. *)

\* What accounts for a read message.
Excused(m) == m \in opened \cup skipped \cup lost

\* The steps keep what accounts for a message: a message in hand gets its row
\* before it leaves the hand, or is skipped, or lost with the pass.
LEMMA StaysAccountedFor ==
  ASSUME TypeOK, PassesAreSound, RoutedHaveRows, [Next]_vars, NEW m \in Msgs,
         Excused(m) \/ InHand(m) \/ HasRow(m, rows \cup OpenRows)
  PROVE  \/ m \in opened' \cup skipped' \cup lost'
         \/ \E b \in Boxes : cur'[b] = m
         \/ \E r \in rows' \cup OpenRows' : r.id[1] = m
<1> DEFINE Goal == \/ m \in opened' \cup skipped' \cup lost'
                   \/ \E b \in Boxes : cur'[b] = m
                   \/ \E r \in rows' \cup OpenRows' : r.id[1] = m
<1>0. m # None
  BY WatcherAssumption
<1>1. ASSUME NEW n \in Msgs, Deliver(n) \/ OpenMail(n) \/ MarkUnread(n) PROVE Goal
  <2>1. UNCHANGED <<rows, txn, cur>> /\ opened \subseteq opened' /\ UNCHANGED <<skipped, lost>>
    BY <1>1 DEF Deliver, OpenMail, MarkUnread, database, history
  <2> QED
    BY <2>1, RowsKept DEF Excused, InHand, HasRow
<1>2. ASSUME NEW b \in Boxes, Connect(b) \/ Search(b) \/ Analyze(b) PROVE Goal
  <2>1. UNCHANGED <<rows, txn, cur, opened, skipped, lost>>
    BY <1>2 DEF Connect, Search, Analyze, database, history
  <2> QED
    BY <2>1, RowsKept DEF Excused, InHand, HasRow
<1>3. ASSUME NEW b \in Boxes, Fetch(b) PROVE Goal
  <2>1. PICK n \in todo[b] : cur' = [cur EXCEPT ![b] = n] /\ pc[b] = "fetch"
                             /\ UNCHANGED <<rows, txn, opened, skipped, lost>>
    BY <1>3 DEF Fetch, database, history
  <2>2. cur[b] = None
    BY <2>1 DEF PassesAreSound, Working
  <2>3. \A o \in Boxes : cur[o] = m => cur'[o] = m
    BY <1>0, <2>1, <2>2 DEF TypeOK
  <2> QED
    BY <2>1, <2>3, RowsKept DEF Excused, InHand, HasRow
<1>4. ASSUME NEW b \in Boxes, SkipSimulation(b) PROVE Goal
  <2>1. /\ UNCHANGED <<rows, txn, opened, lost>> /\ skipped' = skipped \cup {cur[b]}
        /\ cur' = [cur EXCEPT ![b] = None]
    BY <1>4 DEF SkipSimulation, database
  <2> QED
    BY <2>1, RowsKept DEF Excused, InHand, HasRow, TypeOK
<1>5. ASSUME NEW b \in Boxes, Persist(b) PROVE Goal
  <2>1. UNCHANGED <<rows, cur, opened, skipped, lost>>
    BY <1>5 DEF Persist, history
  <2>2. OpenRows \subseteq OpenRows'
    BY <1>5, PersistEffect
  <2> QED
    BY <2>1, <2>2 DEF Excused, InHand, HasRow
<1>6. ASSUME NEW b \in Boxes, Route(b) PROVE Goal
  <2>1. UNCHANGED <<rows, txn, opened, skipped, lost>> /\ cur' = [cur EXCEPT ![b] = None]
    BY <1>6 DEF Route, database, history
  <2>2. \E r \in txn[b] : r.id[1] = cur[b]
    BY <1>6 DEF Route, RoutedHaveRows
  <2>3. \E r \in OpenRows : r.id[1] = cur[b]
    BY <2>2 DEF OpenRows
  <2> QED
    BY <2>1, <2>3, RowsKept DEF Excused, InHand, HasRow, TypeOK
<1>7. ASSUME NEW b \in Boxes, Commit(b) PROVE Goal
  <2>1. UNCHANGED <<cur, opened, skipped, lost>>
    BY <1>7 DEF Commit, history
  <2> QED
    BY <1>7, <2>1, CommitEffect DEF Excused, InHand, HasRow
<1>8. ASSUME NEW b \in Boxes, Rollback(b) PROVE Goal
  <2>1. UNCHANGED <<opened, skipped>> /\ cur' = [cur EXCEPT ![b] = None]
    BY <1>8 DEF Rollback
  <2>2. /\ lost \subseteq lost' /\ (cur[b] # None => cur[b] \in lost')
        /\ \A r \in rows \cup OpenRows : r \in rows' \cup OpenRows' \/ r.id[1] \in lost'
    BY <1>8, RollbackEffect
  <2>3. \A o \in Boxes : cur[o] = m => cur'[o] = m \/ m \in lost'
    BY <1>0, <2>1, <2>2 DEF TypeOK
  <2> QED
    BY <2>1, <2>2, <2>3 DEF Excused, InHand, HasRow
<1>9. CASE UNCHANGED vars
  BY <1>9, RowsKept DEF vars, database, history, Excused, InHand, HasRow
<1> QED
  BY <1>1, <1>2, <1>3, <1>4, <1>5, <1>6, <1>7, <1>8, <1>9 DEF Next, Thread, Fail, DeadlockVictim

\* A message becomes read by its recipient, by Fetch, which takes it in hand, or
\* by Route, which has it in hand.
LEMMA WhoReads ==
  ASSUME TypeOK, PassesAreSound, UnsentAreUnread, [Next]_vars, NEW m \in Msgs,
         folder'[m] # "unsent", seen'[m], ~(folder[m] # "unsent" /\ seen[m])
  PROVE  m \in opened' \/ InHand(m) \/ \E b \in Boxes : cur'[b] = m
<1>1. ~seen[m]
  BY DEF UnsentAreUnread, TypeOK
<1>2. ASSUME NEW n \in Msgs, OpenMail(n) PROVE m \in opened'
  BY <1>1, <1>2 DEF OpenMail, TypeOK
<1>3. ASSUME NEW n \in Msgs, Deliver(n) \/ MarkUnread(n) PROVE FALSE
  BY <1>1, <1>3 DEF Deliver, MarkUnread, TypeOK
<1>4. ASSUME NEW b \in Boxes, Fetch(b) PROVE \E o \in Boxes : cur'[o] = m
  BY <1>1, <1>4 DEF Fetch, TypeOK
<1>5. ASSUME NEW b \in Boxes, Route(b) PROVE InHand(m)
  BY <1>1, <1>5 DEF Route, InHand, TypeOK
<1>6. ASSUME NEW b \in Boxes, Connect(b) \/ Search(b) \/ SkipSimulation(b) \/ Analyze(b) PROVE FALSE
  BY <1>1, <1>6 DEF Connect, Search, SkipSimulation, Analyze, server
<1>7. ASSUME NEW b \in Boxes, Persist(b) \/ Commit(b) \/ Rollback(b) PROVE FALSE
  BY <1>1, <1>7 DEF Persist, Commit, Rollback, server
<1>8. ~UNCHANGED vars
  BY <1>1 DEF vars, server
<1> QED
  BY <1>2, <1>3, <1>4, <1>5, <1>6, <1>7, <1>8 DEF Next, Thread, Fail, DeadlockVictim

\* A message is read by its recipient or by a pass, which ends with a row, a
\* skip or a failure.
LEMMA AccountedStep ==
  ASSUME TypeOK, PassesAreSound, RoutedHaveRows, UnsentAreUnread, ReadMailIsAccountedFor,
         [Next]_vars
  PROVE  ReadMailIsAccountedFor'
<1>1. ASSUME NEW m \in Msgs, folder'[m] # "unsent", seen'[m]
      PROVE  \/ m \in opened' \cup skipped' \cup lost'
             \/ \E b \in Boxes : cur'[b] = m
             \/ \E r \in rows' \cup OpenRows' : r.id[1] = m
  <2>1. CASE folder[m] # "unsent" /\ seen[m]
    <3>1. Excused(m) \/ InHand(m) \/ HasRow(m, rows \cup OpenRows)
      BY <2>1 DEF ReadMailIsAccountedFor, Excused
    <3> QED
      BY <3>1, StaysAccountedFor
  <2>2. CASE ~(folder[m] # "unsent" /\ seen[m])
    BY <1>1, <2>2, WhoReads, StaysAccountedFor
  <2> QED
    BY <2>1, <2>2
<1> QED
  BY <1>1 DEF ReadMailIsAccountedFor, InHand, HasRow

\* A threat's row stays until the message is lost; Route moves on such a row.
LEMMA MovedStep ==
  ASSUME TypeOK, PassesAreSound, RoutedHaveRows, MovedAreThreats, [Next]_vars
  PROVE  MovedAreThreats'
<1> DEFINE Threat(m) == m \in lost \/ \E r \in rows \cup OpenRows : r.id[1] = m /\ r.threat
           Later(m)  == m \in lost' \/ \E r \in rows' \cup OpenRows' : r.id[1] = m /\ r.threat
<1>1. ASSUME NEW m \in Msgs, Threat(m) PROVE Later(m)
  <2>1. CASE UNCHANGED <<rows, txn, audit, alerts, tries, lost>>
    BY <1>1, <2>1, RowsKept
  <2>2. ASSUME NEW b \in Boxes, Persist(b) PROVE Later(m)
    <3>1. OpenRows \subseteq OpenRows' /\ rows' = rows /\ lost' = lost
      BY <2>2, PersistEffect DEF Persist, history
    <3> QED
      BY <1>1, <3>1
  <2>3. ASSUME NEW b \in Boxes, Commit(b) PROVE Later(m)
    <3>1. lost' = lost /\ rows' \cup OpenRows' = rows \cup OpenRows
      BY <2>3, CommitEffect DEF Commit, history
    <3> QED
      BY <1>1, <3>1
  <2>4. ASSUME NEW b \in Boxes, Rollback(b) PROVE Later(m)
    <3>1. /\ lost \subseteq lost'
          /\ \A r \in rows \cup OpenRows : r \in rows' \cup OpenRows' \/ r.id[1] \in lost'
      BY <2>4, RollbackEffect
    <3> QED
      BY <1>1, <3>1
  <2> QED
    BY <2>1, <2>2, <2>3, <2>4, RowSteps
<1>2. ASSUME NEW m \in Msgs, folder'[m] = "Quarantine_AI", folder[m] # "Quarantine_AI"
      PROVE  Threat(m)
  <2>1. ASSUME NEW b \in Boxes, Route(b) PROVE Threat(m)
    <3>1. m = cur[b] /\ \E d \in found[b] : IsThreat(d)
      BY <1>2, <2>1 DEF Route, Moves, TypeOK
    <3>2. \E r \in txn[b] : r.id[1] = m /\ r.threat
      BY <2>1, <3>1 DEF Route, RoutedHaveRows
    <3> QED
      BY <3>2 DEF OpenRows
  <2>2. ASSUME NEW n \in Msgs, Deliver(n) \/ OpenMail(n) \/ MarkUnread(n) PROVE FALSE
    BY <1>2, <2>2 DEF Deliver, OpenMail, MarkUnread, TypeOK
  <2>3. ASSUME NEW b \in Boxes, Connect(b) \/ Search(b) \/ Fetch(b) \/ SkipSimulation(b) PROVE FALSE
    BY <1>2, <2>3 DEF Connect, Search, Fetch, SkipSimulation, server
  <2>4. ASSUME NEW b \in Boxes, Analyze(b) \/ Persist(b) \/ Commit(b) \/ Rollback(b) PROVE FALSE
    BY <1>2, <2>4 DEF Analyze, Persist, Commit, Rollback, server
  <2>5. ~UNCHANGED vars
    BY <1>2 DEF vars, server
  <2> QED
    BY <2>1, <2>2, <2>3, <2>4, <2>5 DEF Next, Thread, Fail, DeadlockVictim
<1>3. \A m \in Msgs : folder'[m] = "Quarantine_AI" => Later(m)
  BY <1>1, <1>2 DEF MovedAreThreats
<1> QED
  BY <1>3 DEF MovedAreThreats

----------------------------------------------------------------------------
(* The theorems. *)

\* In the initial states nothing is read, in hand or recorded.
LEMMA WatcherInitially == Init => WatcherInvariant
<1> SUFFICES ASSUME Init PROVE WatcherInvariant
  OBVIOUS
<1>1. TypeOK
  BY WatcherAssumption DEF Init, TypeOK, Places
<1>2. OpenRows = {}
  BY DEF Init, OpenRows
<1>3. PassesAreSound
  BY DEF Init, PassesAreSound, Working
<1>4. ChancesSuffice
  BY DEF Init, ChancesSuffice, Listed, Pending
<1>5. NumbersAreGiven /\ AlertsMatchRows
  BY <1>2 DEF Init, NumbersAreGiven, AlertsMatchRows
<1>6. RoutedHaveRows /\ TakenAreTouched
  BY <1>2 DEF Init, RoutedHaveRows, TakenAreTouched
<1>7. UnsentAreUnread /\ ReadMailIsAccountedFor
  BY DEF Init, UnsentAreUnread, ReadMailIsAccountedFor
<1>8. MovedAreThreats
  BY DEF Init, MovedAreThreats
<1> QED
  BY <1>1, <1>3, <1>4, <1>5, <1>6, <1>7, <1>8 DEF WatcherInvariant

\* The invariant is inductive: every step of a thread, of a recipient and every
\* failure of services/email_watcher.py keeps it.
THEOREM WatcherInductive == WatcherInvariant /\ [Next]_vars => WatcherInvariant'
<1> SUFFICES ASSUME WatcherInvariant, [Next]_vars PROVE WatcherInvariant'
  OBVIOUS
<1> USE DEF WatcherInvariant
<1>1. TypeOK' /\ PassesAreSound'
  BY WatcherTyping, PassStep
<1>2. ChancesSuffice' /\ NumbersAreGiven' /\ AlertsMatchRows'
  BY ChancesStep, NumbersStep, AlertsStep
<1>3. RoutedHaveRows' /\ TakenAreTouched' /\ UnsentAreUnread'
  BY RoutedStep, TakenStep, UnsentStep
<1>4. ReadMailIsAccountedFor' /\ MovedAreThreats'
  BY AccountedStep, MovedStep
<1> QED
  BY <1>1, <1>2, <1>3, <1>4

\* The watcher keeps its inductive invariant, for any mailboxes, messages,
\* detections and policies, and any number of failures.
THEOREM WatcherSafety == Spec => []WatcherInvariant
BY WatcherInitially, WatcherInductive, PTL DEF Spec

\* The state of the watcher threads, of the mail server and of the tables keeps
\* its types (email_watcher.py).
THEOREM WatcherTypes == Spec => []TypeOK
<1>1. WatcherInvariant => TypeOK
  BY DEF WatcherInvariant
<1> QED
  BY <1>1, WatcherSafety, PTL

\* Neither reconnects, nor rolled back passes, nor deadlocks make the watcher
\* analyse and persist a message more often than it was put back to unread
\* (the UNSEEN search of email_watcher.py against the flags of a pass).
THEOREM TakenOnce == Spec => []NoDoubleProcessing
<1>1. WatcherInvariant => NoDoubleProcessing
  BY DEF WatcherInvariant, ChancesSuffice, NoDoubleProcessing
<1> QED
  BY <1>1, WatcherSafety, PTL

\* No mail is marked read and forgotten: it was opened by its recipient,
\* accepted as a simulation, taken by a pass that failed, is in hand, or has
\* its row (the fetch of email_watcher.py sets \Seen before the analysis).
THEOREM NoMailForgotten == Spec => []ReadMailIsAccountedFor
<1>1. WatcherInvariant => ReadMailIsAccountedFor
  BY DEF WatcherInvariant
<1> QED
  BY <1>1, WatcherSafety, PTL

\* Audit records and SIEM alerts, which do not wait for the commit of the pass,
\* agree with the rows, and whatever has no row belongs to a failed pass
\* (persist_detection of ingest.py under email_watcher.py's transaction).
THEOREM AlertsAgreeWithRows == Spec => []AlertsMatchRows
<1>1. WatcherInvariant => AlertsMatchRows
  BY DEF WatcherInvariant
<1> QED
  BY <1>1, WatcherSafety, PTL

\* Quarantine_AI holds only messages judged a threat or lost by a failed pass,
\* and a committed threat is not in the unread inbox unless its recipient put
\* it back (the move or the flag of email_watcher.py's pass).
THEOREM PlacementHolds == Spec => []PlacementMatchesVerdict
<1>1. WatcherInvariant => PlacementMatchesVerdict
  BY DEF WatcherInvariant, MovedAreThreats, TakenAreTouched, Touched, PlacementMatchesVerdict
<1> QED
  BY <1>1, WatcherSafety, PTL

=============================================================================
