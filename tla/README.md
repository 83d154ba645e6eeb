# ThreatEye: TLA+ models and proofs

ThreatEye reads mail (IMAP, Microsoft 365, Gmail, an HTTP API), runs a hybrid
detector over it, stores a verdict with its evidence, quarantines threats,
alerts a SIEM, and learns from what analysts decide. This directory holds
TLA+ models of the parts of the backend (`src/backend`) whose correctness
depends on the order in which threads, processes, transactions and remote
services act, TLC configurations that check them, and proofs checked by TLAPS.
`PROJECT.json` links every definition to the lines it translates and lists
components, runs, hazards, findings, mutations and theorems.

## 1. Inventory

| Component | State | Operations | What is hard | Correct when |
|---|---|---|---|---|
| Detection verdict (`services/ingest.py`, `framework/policy_engine.py`) | policies, blocklist, reputation (read) | `persist_detection`, `apply_policies`, `enrich`, `apply_reputation` | five sources compete for one status; order of floors | a blocklisted or malicious mail is never delivered by the decision |
| IMAP watcher (`services/email_watcher.py`) | IMAP folder and flags, open transaction, row locks | connect, search, fetch, analyse, persist, place, commit, reconnect | IMAP, database, audit and SIEM have no common transaction; deadlock between mailboxes | each mail is taken once, none vanishes, all stores agree |
| Watcher slot (`email_watcher.py:222-285`, `framework/cache.py`) | Redis key with a time to live, file lock of a host, renewal thread, cached client | acquire, renew by name, stand by, take over | expiry under a living owner; fallback to another lock; a cached "no Redis" | one process watches, and some process does in the end |
| Ingest queue (`framework/jobqueue.py`, `POST /v1/emails`) | Redis list, status keys | enqueue, fall back, pop, process, report, poll | lost replies, crashes, an expiring status, two consumers | an accepted job is settled, a reported verdict is stored |
| SIEM delivery (`framework/siem.py`, `services/scheduler.py`) | thread pools, `siem_events` | submit, POST with retries, record, replay | in-memory pools that may refuse, concurrent replays, lost replies | the ledger adds up; a failed alert is sent again |
| Feedback loop (`framework/learning.py`, `framework/threat_intel.py`, `api/router.py`) | `emails`, `quarantine`, `intel_indicators`, `reputation` | review, release, delete, empty, edit indicators, block, ingest | a verdict is three transactions; others act between them | a confirmation blocks, trust is earned, quarantine and status agree |
| Cloud connectors (`services/mail_connectors.py`) | `mail_seen`, the mailbox | list, check for duplicates, recognise simulations, analyse, store, remember, quarantine | row, mark and move are three commits; one exception ends the poll of a mailbox; Gmail lists a day back | each mail is stored once, none is forgotten, mailbox and verdict agree |
| Accounts and sessions (`framework/security.py`, `api/deps.py`, `api/router.py`) | `users`, role in the access token, jtis in Redis, each process's Redis client | sign in, create, change or delete a user, refresh, log out | check-then-act on owners and tokens; a role that is 15 minutes old | a tenant keeps an owner; a token is spent once |
| Startup (`main.py`, `framework/migrations.py`, `security.py:load_auth_secret`, seeds) | `schema_migrations`, seeded tables, signing secret | import, migrate, seed, serve | several workers start at once, any of them dies | no worker serves an old schema; one seed, one secret |
| Simulation campaigns (`services/gophish_client.py`, `framework/sim_registry.py`) | the header of the sending profile, `sim_registry` | launch, stamp, post, register, recognise | mail is sent before it is registered; tokens age; another worker signs otherwise | our own simulations are not quarantined |
| Remediation (`framework/integrations.py`) | `remediation_actions` | notify, ticket, claw back, block | remote effects before one final commit | what was done is recorded |
| Cases, rate limits, event stream (`api/router.py`, `framework/cache.py`) | `cases`, counters, `last_id` | update, hit, stream | reopened cases, renewed windows, out-of-order ids | stamps, limits and events are right |
| Detection scoring (`services/ai_detector.py`, `framework/phish_corpus.py`, `framework/attachment_scanner.py`) | `domain_intel_cache` | layers, corpus match, fast path, model, floors, label | a cache other threads fill; any answer of WHOIS and of the model; a shortcut and an offline score that must agree with the whole | conclusive facts stay conclusive, the model only raises, the label follows the score |
| Reports, front ends, training scripts | none shared | queries, formatting, batch jobs | | not modelled, see section 7 |

Interaction: the watcher, the connectors and the queue's consumer run in the one
process that holds the watcher slot; the API runs in several workers. All of them
call `persist_detection`, which reads policies, the blocklist and reputation,
writes rows, commits an audit row on a connection of its own, and hands events to
the SIEM pool of its process. Before that the detector scores the message from its
facts, a domain cache it shares with every other analysis, and a model that may
not answer. Campaigns write the registry the connectors ask before they analyse
a mail. Analysts' requests write the blocklist and the
reputation that the next `persist_detection` reads.

## 2. Modules and the code

* **`Verdict`** is the decision of `persist_detection` as operators over a
  record (risk, heuristic score, BEC, prompt injection, matching indicators,
  attachment risk, learned scores): `Matches` and `PolicyResult` are the policy
  engine, `BlockFloor`, `AttachmentFloor` and `Adjusted` the three corrections
  in the order of the code, `IsThreat`, `Status`, `OpensCase` and `SiemEvents`
  what follows. `ImapWatcher` extends it and `Feedback` instantiates it.

* **`ImapWatcher`** has one process per mailbox. `Connect`, `Search`, `Fetch`,
  `SkipSimulation`, `Analyze`, `Persist`, `Route` and `Commit` are the stretches
  of `_watch_mailbox` between two effects that others can see. `Fetch` sets
  `\Seen`, as the library call does. `Persist` puts the row into the pass's open
  transaction (`txn`), takes the indicator row locks of `enrich` (`locks`), and
  lets the audit row and the events out at once. `Fail` is any exception or the
  death of the process: `conn.close()` without commit. `DeadlockVictim` is
  PostgreSQL breaking a cycle of lock waits. The mail server (`Deliver`) and the
  recipient's mail client (`OpenMail`, `MarkUnread`) are external.

* **`IngestQueue`** has one handler per request (`Push`, `SetQueued`,
  `ProcessSync`, `Poll`) and the consumer's loop (`Pop`, `MarkProcessing`,
  `Process`, `Report`). Every Redis call and the commit can fail before or
  after taking effect, and a push whose reply is late can be sent twice by the
  client library. Two consumers cover a watcher slot that changed hands early.
  **`IngestPromise`** is the abstract specification: attempts are owed and each
  is settled at most once, and a verdict is told only of an email that is
  stored. The refinement maps what is owed to copies in the list, jobs in a
  consumer's hand and a synchronous call in progress.

* **`SiemDelivery`** has `export_siem_event`'s hand-over to a pool (`Submit`, or
  `Refuse` when `executor.submit` raises and the event has no delivery), the pools
  of two processes, their threads (`Take`, `Post`, `Record`), the calls of `replay_failed` (`StartReplay`, `Resend`,
  `Mark`, `FinishReplay`, `ReplayError`), and `Crash`. `Resend` asks the pool and
  ignores its answer, as line 172 does, so `Mark` follows a refusal too; `Asked`
  counts the submissions whatever became of them. `NextRunTime` records how
  `start_scheduler` adds its jobs; it decides whether the scheduler is among the
  replayers. `Mark` waits for the row lock of another caller's uncommitted
  update. The rows of a replay are a sequence of row ids the guard describes
  (`NewestFirst`), and what is in flight is counted as a set of places in pools and
  threads, so that both can be reasoned about.

* **`Feedback`** has ingestion in two steps (`Enrich` reads the blocklist,
  `Store` decides and commits), the three transactions of a review (`Review`,
  `Learn`, `AutoBlock`) with `LearningFails` for the exception the handler
  swallows (`verdicts` keeps the order of the committed ones), and `Release`, `Delete`, `EmptyQuarantine`, `EditIntel` and
  `Remediate`. A mail's learned scores (`Known`) are the rows of reputation whose
  value is its sender, its domain, or the domain of one of the first
  `UrlsLookedUp` links (`Values`), whatever their kind: a verdict on mail
  that links to its own domain counts for that domain's senders too.
  The model lets others change an indicator between `Enrich` and
  `Store` even where `enrich`'s row lock would delay them: it allows more than
  the database does, so what holds of it holds of the code.

* **`Signals`**, **`Scoring`**, **`AttachmentScan`** and **`Corpus`** are the
  detector's pure parts. A message is a record of facts: what a regular
  expression, a word list or a header decides in the code is a field here, and
  from there on every weight, cap, threshold and order is the code's. `Signals`
  has the layers (heuristics, authentication, domain intelligence, BEC,
  injection, corpus match), `Scoring` their combination: `TakesFastPath`,
  `FastAnswer`, `FinalRisk` with its floors, `Label`, `IsOfflineThreat`.
  `AttachmentScan` is the risk of a file, `Corpus` the generator of the technique
  corpus, from which `MCDetector` checks that its techniques are a part.

* **`Detector`** is one analysis and its storing: `Receive`, `LookUp` in the
  domain cache, `Whois`, `Judge` (layers, fast path or model, score, label) or
  `Malformed` (an answer that makes it raise), and `Persist`, which hands the
  result to an instance of `Verdict`. Other threads analyse other URLs of the
  same domains and the table expires between any two steps. The cache is keyed
  by registered domain while its entry is that of one URL, and an entry whose
  WHOIS failed stays as long as any other. A cached entry therefore stands in for
  a link it was not measured on (`borrowed`), and whether that link's own host is
  internationalised is looked at only without one.

* **`WatcherSlot`** has the loop of `start_email_watcher` (`Acquire`: SET nx ex,
  or the host's file lock), the renewal threads and the key's expiry in ticks of
  15 s (`Tick`), `Stall` and `Resume` of a whole process, `Crash`, `Restart`, and
  a Redis that goes and comes back, empty or not. A holder never checks again: a
  slot that is held twice stays so until one of the processes dies.

* **`SimCampaign`** has `Launch`, `Stamp` (the header GoPhish keeps in its sending
  profile, named after the worker's signing secret), `Post`, `Register` per
  target, `Age` (seven days) and `Abandon`. The registered fingerprint is that
  of the template and never equals one of a rendered mail, and a subject is
  registered before it is sanitised; so the entry for recipient and subject
  decides, and `plain` says whether the subject survives.

* **`CloudConnectors`** composes the two with the pollers. `List`, `Open` (duplicate
  check and recognition), `Store`, `Mark` and `Quarantine` are the stretches
  between commits; `LookupFails`, `FetchFails`, `StoreFails` and `MarkFails` end
  the poll of a mailbox as the exception does, `AnalysisFails` skips one message,
  `Overlook` is the swallowed exception that turns a simulation into mail, and
  `CrashPoller` the death of the process at any step. `Poison` is mail whose
  storing always raises. `DayPasses` makes what has arrived older than a day
  (`old`), as `Age` of the campaigns does; a mailbox of `Gmail` lists only newer
  mail (`newer_than:1d`), one of Microsoft 365 the newest whatever their age.

* **`Startup`**, **`Accounts`** and **`Sessions`** are three protocols of the API's
  workers. `Startup` is a worker from import to serving, one action per
  transaction. `Accounts` has the requests of administrators, with the role
  their token claims and with `delete_user`'s count and DELETE apart. `Sessions`
  has refresh as four calls (`Check`, `Revoke`, and `Rotate`, which reads the
  account and issues), logout and login over a Redis that may fail. Each process
  asks for its client once (`Connect`, `Connected`) and keeps a failed answer
  until it is restarted (`Restart`): it then accepts any signed token and
  revokes nothing, though Redis answers. They share
  nothing that changes; **`Office`** plays one of them per behaviour, so that one
  run and one invariant serve all three.

* **`Faults`** is the budget of failures that the modules of a composition share.

* **`WatcherProofs`**, **`QueueProofs`**, **`SiemProofs`**, **`FeedbackProofs`**,
  **`CloudProofs`**, **`OfficeProofs`** and **`DetectorProofs`** hold the theorems,
  **`CountingLemmas`** what the proofs about queues and ledgers share: how often a
  value stands in a sequence, and what appending, taking and joining do to that.
  The modules **`MC...`** give the constants that are more than a set.

In each module a few operators marked *Mutation* follow a plausible slip of the
code; `PROJECT.json` names, for every property of a passing run, the mutation
that breaks it.

## 3. Runs

| Run | Bounds | Shows |
|---|---|---|
| `watcher` | 2 mailboxes, 4 messages (one simulation), shared indicators, 1 failure, 1 action of a recipient | `NoDoubleProcessing`, `ReadMailIsAccountedFor`, `AlertsMatchRows`, `PlacementMatchesVerdict`, `EveryMailIsDecided` |
| `queue` | 2 requests, 2 consumers, 2 faults | refinement of `IngestPromise`, `FinalStatusSticks`, `AcceptedIsSettled` |
| `siem` | 2 alerts, 2 pools of one thread, 2 attempts, 2 replays, 1 fault | `DeliveriesAddUp`, `SentMeansReceived`, `ReplayedIsAskedFor`, `RowsAreFinal`, `PoolsDrain` |
| `feedback` | 2 mails of one domain, 4 indicators, 1 link looked up (the code's 5), 2 analysts, 2 verdicts in all, 1 edit, 1 failure | `BlocklistIsDecisive`, `QuarantineIsConsistent`, `ConfirmedIsBlocked`, `TrustIsEarned`, `BlocksOnlyGrow` |
| `detector` | 116 messages over 3 domains (a lookalike, a punycode one, a shared host with and without an internationalised subdomain), 2 pretexts with 8 techniques of the corpus, 5 answers of the model, 3 of WHOIS, 2 of the classifier, 3 policies, one attachment | `DecisiveSignalsHold`, `ModelOnlyRaises`, `FastPathAgrees`, `OfflineAgrees`, `LabelFollowsVerdict`, `AllowedIsExplained` |
| `cloud` | 2 workers on 2 hosts with different secrets, 1 Gmail mailbox, 3 messages (a threat, one that cannot be stored, a simulation the analysis takes for a threat), a listing of 2, 1 fault of any kind | `OneWatcher`, `StoredOnce`, `SeenIsAccountedFor`, `PlacementMatchesVerdict`, `SimulationsAreSpared`, `SlotIsTaken`, `EveryMailIsConsidered` |
| `office` | 2 workers, 2 migrations, 2 seeded tables; 3 accounts, 5 changes; 3 requests, 3 tokens, 2 processes; 2 faults | `StartsAreIdempotent`, `OwnerRemains`, `OneTimeRefresh` |
| `watcher_txn` | as `watcher` | *violated*: the ingest is not one transaction |
| `siem_twice` | 1 alert, 2 callers | *violated*: a second call does send twice |
| `siem_paused` | 1 alert, no administrator | *violated*: failed alerts stay failed |
| `feedback_attachment` | as `feedback`, 1 analyst, 3 verdicts | *violated*: an attachment is not decisive |
| `sessions_unreached` | as `office`, 1 fault | *violated*: a revoked token is accepted while Redis answers |

Why the bounds suffice. In `watcher`, two mailboxes with two messages each can
close a cycle of row locks (each pass needs two messages), fail on the second
message of a batch, and re-deliver after a recipient marks mail unread; the
detections cover allowed, held, held threat, quarantined and suspicious.
In `queue`, two faults combine a lost reply with a crash or a Redis restart. In
`siem`, two alerts let a row fail while a replay of another runs, and two
callers overlap. In `feedback`, two verdicts reach the trust threshold of an
address, two analysts interleave their three transactions, and e2 links to its
own domain, with a URL and a host as two indicators, so that one confirmation
reaches the sender's domain as a link does; its second link, to the domain of
e1's, lies past the cut of the lookup. In `detector`, the domains are
the cases the domain layer tells apart, the texts reach every floor and both
sides of every threshold the properties name, and a shared host has a harmless
and a phishing page, so that a cached entry may be another URL's; the theorems
cover all other facts. In `cloud`, one fault is a crash, a stall longer than the
key's life (`Ttl` is 2 ticks), a Redis that goes, or any one failing call, at any
step of a poll; a message that cannot be stored stands between an older and a
newer one, and a listing of two can push the oldest out; a stall is what lets two
pollers meet, and a day that passes is a fault of the same budget. The mailbox is
Gmail's; one of Microsoft 365 has the same actions without the age limit. In
`office`, two faults let both workers die or Redis fail twice, five changes create a second and third owner and remove them again, and three
requests are enough for two that race and one that comes after; each process may
meet a Redis that is down when it first asks. The counters that would grow
for ever (`MaxFails`, `MaxTouches`, `MaxFaults`, `MaxReplays`, `MaxReviews`,
`MaxEdits`, `MaxChanges`) are constants used only in guards. Analysts are
symmetric in `feedback`, workers and requests in `office`; neither checks
liveness. `detector` and `office` do not check deadlock: one analysis ends, and
so do the changes, tokens and requests of the instance.

The five violated runs each check one sentence of a docstring or comment:

1. `ingest.py:59-60` says the whole ingest is one transaction. `audit_log`
   commits on its own connection, so a pass that rolls back leaves audit rows
   of emails that do not exist (and SIEM events, and moved or read mail).
2. `siem.py:147-149` says replayed rows are marked so a second call does not send
   them twice. The marks are committed after the loop and nothing locks the rows.
3. `scheduler.py:23-25` says failed alerts are re-sent. The job is added with
   `next_run_time=None`, which in APScheduler means paused.
4. `ingest.py:103` says a malicious attachment is decisive. The learned trust
   of a sender is subtracted afterwards.
5. `security.py:229-230` says a revoked token cannot be reused, backed by Redis
   when available. A worker whose first ping failed does without Redis for as
   long as it lives, and accepts a token another worker revoked.

What the passing runs say of the same code is worth as much: every
discrepancy of the audit trail is confined to failed passes, the queue settles
each attempt once even with two consumers, a replay never marks a row whose alert
it has not offered to the pool, and a final status is overwritten only by the
handler's own late "queued".
A property that names its exceptions names them as narrowly as the runs allow,
so it also says what is lost and when:

* An alert counts as out in `AlertsMatchRows` when `export_siem_event` is called;
  what a pool does with it, refusal included, is `SiemDelivery`'s.
* A score is lowered only after two safe verdicts on an address or three on a
  domain. It is raised after two confirmations of a domain, or after one of mail
  that links to it: rows are matched by value, so mail that links to its own
  domain makes that known bad at once (`TrustIsEarned`).
* The slot is exclusive through any crash and restart, and is lost when Redis
  fails or a holder is paused for longer than the key lives (`OneWatcher`).
* A mail is stored twice only if its mark was lost after the commit
  (`StoredOnce`), and is remembered without a row only if it is a registered
  simulation (`SeenIsAccountedFor`). A threat whose move failed stays in the
  inbox for good, because it is remembered first (`PlacementMatchesVerdict`).
* One message whose storing raises keeps every older message of the listing
  from being considered, at each poll; a day of waiting takes Gmail mail out of the
  listing for good (`EveryMailIsConsidered`).
* The pool may refuse what a replay offers it, and the row is marked all the same:
  `ReplayedIsAskedFor` counts submissions, not deliveries.
* An accepted job is settled also by being lost, with the Redis list or in the hand
  of a consumer that dies; a push whose reply is lost may be processed twice
  (`AcceptedIsSettled`, `IngestPromise`).
* A conclusive fact of a message or of the registered domain of its link stays
  conclusive whatever was cached; the host of the link itself only if no cached
  entry stood in for it (`DecisiveSignalsHold`).
* A simulation is stored only if it overtook its registration, met another
  secret, has a subject that rendering changes, or something failed
  (`SimulationsAreSpared`).
* Workers that start one after the other agree; two at once may seed twice or
  sign with different secrets (`StartsAreIdempotent`).
* Counting owners protects a deletion but not a second one in between, and
  `update_user` counts nobody (`OwnerRemains`).
* A refresh token that every request handled with Redis within reach of its
  process is never accepted after its end, and pays twice only when two requests
  present it at once (`OneTimeRefresh`).
* A domain called young by WHOIS replaces the corpus match of a brand by a
  search for the technique `new_domain`, which file lures do not have: a threat
  for `deterministic_score` may then be missed (`OfflineAgrees`).
* The ingest asks for more than 70 where the detector asks for 70: exactly 70
  is called a threat and let through (`AllowedIsExplained`).

Details of the code that no run turns on, met on the way: the 20 points for a
suspicious ending of a domain never count, as `ai_detector.py:408` compares
`"xyz"` with `".xyz"`; `metadata["attachments"]` is read and set by nobody;
`VAGUE_LABELS` knows English only; the answer to the Microsoft 365 move is not
looked at; `change_password` revokes no refresh token.

## 4. Fairness

* `ImapWatcher`: weak fairness of each mailbox thread. The loop never ends,
  every call returns or raises, the handler reconnects. Delivery, recipients
  and failures have none.
* `IngestQueue`: weak fairness of each handler and of each consumer loop, whose
  calls have timeouts and whose errors are caught. No fairness of polling,
  expiry or faults.
* `SiemDelivery`: weak fairness of the pool threads (6 s timeout per POST), of a
  replay in progress, and of the scheduler's call if its job were not paused.
  Nobody makes an administrator call the endpoint.
* `CloudConnectors`: weak fairness of time (`Tick`), of Redis's restart and of each
  worker's restart (the compose file says `restart: unless-stopped`), of a paused
  process, of the standby loop, which retries for ever, and of each poller, whose
  thread polls for ever, whose calls have timeouts and whose exceptions are
  caught. None of deliveries, campaigns or faults. `SlotIsTaken` and
  `EveryMailIsConsidered` are checked under it.
* `Feedback`, `Office` and `Detector` state no liveness.

`FailedIsResent` is refuted under the fairness of `SiemDelivery`.

## 5. Proofs

Every theorem is about `Spec`, for all values of the constants that satisfy the
named assumptions. The bounds of the runs stay parameters: each holds for every
value of `MaxFaults`, `MaxReviews` and so on. Every safety invariant and every
action property of a passing run, and the refinement, has its theorem; each
inductive invariant was checked by TLC on the run's instance before it was proved.

### IMAP watcher

`WatcherProofs` proves the five safety properties of the `watcher` run
(`WatcherTypes`, `TakenOnce`, `NoMailForgotten`, `AlertsAgreeWithRows`,
`PlacementHolds`) for any number of mailboxes, messages and indicators, whatever
locks they wait for and whichever passes fail. They follow from
`WatcherInductive` and `WatcherSafety`. Its `WatcherInvariant` has `TypeOK` and:

* `PassesAreSound`: a message a pass still has to fetch or has in hand is of its
  mailbox, so two threads never have the same one.
* `ChancesSuffice`: `NoDoubleProcessing` alone is not inductive, since it does not
  say why a message that may be taken was not taken yet. A message has one chance
  and another for each time it was marked unread; one that is unread, listed or in
  hand and not persisted has a chance left, and two if it is in hand and unread.
* `NumbersAreGiven`: rows, audit and alerts have numbers that were given, so a new
  row's number is fresh, which `AlertsMatchRows` needs in both directions.
* `RoutedHaveRows`, `TakenAreTouched`, `UnsentAreUnread`, `MovedAreThreats`: what a
  pass at `Route` has in its transaction, and that a taken message is read or was
  marked unread since. The two halves of `PlacementMatchesVerdict` follow.

Assumption: `WatcherAssumption`.

### Ingest queue

`QueueProofs` proves for any number of requests, consumers and faults the types,
`FinalStatusHolds` and `QueueKeepsPromise`: `IngestQueue` implements
`IngestPromise`. `QueueInductive` and `QueueSafety` give `QueueInvariant`:

* `CopiesAddUp`: the copies of a job on the list, those in a consumer's hand and
  the one behind a final status are no more than its pushes. For a job pushed once
  a final status therefore means that nobody is left to overwrite it, except the
  handler itself. That is `FinalStatusSticks`.
* `StagesAreSound`, `HandsAreSound`, `SuccessIsStored`: what handlers and consumers
  have done where they stand; a success, published or about to be, is stored.

The refinement maps what is owed to `Due`, the copies in the list, the consumers
at work on it and a synchronous call in progress: never more than three, the two
copies a retried push may leave and one call (`DueIsBounded`), which is why the
promise can bound them. For each action of the code the proof shows which step of
the promise it is, or that it stutters. Assumption: `QueueAssumption`.

### SIEM delivery

`SiemProofs` proves every safety property of the `siem` run (`SiemTypes`,
`DeliveriesAlwaysAddUp`, `SentWasReceived`, `ReplayedWasAskedFor`, `RowsStayFinal`)
for any number of alerts, processes, threads, retries, callers and faults. The
parts of `SiemInvariant`, from `SiemInductive` and `SiemSafety`:

* `CallsAreSound`: a call of `replay_failed` has only rows in its list and among
  its marks that failed. With it a commit turns nothing but failed rows into
  replayed ones, though the rows were read before other callers' commits.
* `DeliveriesAddUp` with `DeliveriesAreFinite`: each place in a pool and each thread is
  counted, and no place twice (`FlightIsSplit`, by process), so that a crash
  loses exactly what its process had.
* `SentIsAccountedFor`: `SentMeansReceived` is not inductive while a thread holds
  "sent" that is no row yet; those threads are counted with the rows.
* `ReplaysAreAccountedFor`: a row that is replayed, or will be when a running call commits,
  and a row asked for and not yet marked, each have a submission of their own, taken
  or refused, besides the one that raised the alert. Nothing of the kind holds of
  deliveries, as the pool may refuse.

Assumption: `SiemAssumption`.

### Feedback

`FeedbackProofs` proves of `Spec`, for any emails, analysts, indicators and
policies and without bounds other than the constants' own:

* `Typing`: `TypeOK`; reputation stays within -100..100 because `Bumped` clamps
  (`ClampBounds`, `LearnedType`).
* `BlocklistDecides`, `QuarantineAgrees`, `ConfirmationBlocks`: three invariants
  of the run.
* `BlocksStay`: the action property `BlocksOnlyGrow`.
* `TrustHolds`: the invariant `TrustIsEarned`.

They follow from `Invariance`, the inductive invariant `IInv`. `TypeOK` and the
three properties are not inductive. `BlocklistIsDecisive` needs that only a
stored mail has a status; `QuarantineIsConsistent` needs that a listed mail is
still there. `ConfirmedIsBlocked` says nothing while a review is in progress, so
its inductive form says which blocks are owed: a mail whose last verdict is a
confirmation has its promotable IOCs blocked, or its learning failed, or some
analyst's phishing verdict on it is still being learned (`Handled`, `Pending`).
The proof has one lemma per conjunct
(`QuarantineStep`, `BlocklistStep`, `UnreviewedStep`, `HandledStep`, the last
from `PendingStep` and `BlockedStep`) and in
each one step per action.

`TrustIsEarned` has an invariant of its own (`TrustInductive`). A verdict is in the
history once the first transaction commits, and moves a score in the second; so
`ScoresArePaidFor` bounds a score by the verdicts spent, those given less those an
analyst is still to learn from, and `SpentAreSound` says that the latter are
finitely many and no more than were given. `Cardinality` of the positions of
a verdict in `verdicts` replaces a sum, which would need induction over data.

Since rows are matched by value, a second invariant (`OriginInductive`) says where
each score comes from: no verdict raises an address (`AddrsAreNeverBad`), none
lowers the row of a linked domain, and that row is raised only by a confirmation
of mail that names it (`LinksAreConfirmed`). `ScoreIsEarned` puts the two
together for one row, and `TrustHolds` for the sum over the rows a mail is
looked up with.

Assumptions: `FeedbackAssumption` (the constants have their types, an email's
IOCs are a finite set). Nothing is assumed of `Verdict`'s policies: the decision
lemmas (`BlockersDecide`, `ThreatStatus`) hold for all of them.

### Cloud connectors, watcher slot and campaigns

`CloudProofs` proves every safety property of the `cloud` run (`CloudTyping`,
`WatcherIsOne`, `RowsAreOnce`, `RememberedIsAccountedFor`, `PlacementHolds`,
`SimulationsHold`) for any number of workers, hosts, mailboxes, messages and
campaigns, any budget of faults and any life of the key. They follow from
`CloudInvariance`. The parts of its `Invariant`:

* `KeyDecides`: until the slot is disturbed, Redis answers, nobody has given it
  up or holds the file lock, two holders are the same process, and the key is
  alive as long as it has a holder. `OneWatcher` alone is not inductive: it is
  the living key that keeps others out, and a crash leaves a key without holder.
* `PollersHold`, `HandsAreFull`: a poller works only while its process holds the
  slot, and what it has in hand after storing has a row. Together with `KeyDecides` this
  gives `RowsAreMarked`: a row is marked, or lost its mark, or is in a hand,
  and only an undisturbed slot makes that hand unique.
* `ThreatsArePlaced`, with the two pieces of history for failed moves and marks.
* `CampaignsKeepTrack`, `SimulationsAreTold`: what is not registered of a
  campaign is still to be registered or met trouble, and every analysed or stored
  simulation has one of the reasons.

Assumptions: `SlotAssumption`, `FaultsAssumption`, `CampaignAssumption`,
`CloudAssumption` (types of the constants).

### Startup, accounts and sessions

`OfficeProofs` proves `StartingIsIdempotent`, `AnOwnerRemains` and
`RefreshIsOneTime`, and the types, for any number of workers, migrations, seeded
tables, users, requests and tokens, from `OfficeInvariance`:

* `StagesAreSound` and `StartsAreAlone`: what a worker has done at each stage; and
  that as long as no two start together, one that is past the reading of a table
  still reads the truth.
* `OwnersAreSafe`: every deletion in progress leaves another owner. `OwnerRemains`
  alone is not inductive; the count of `delete_user` becomes this fact by a
  lemma on finite sets (`CountLeavesOne`), so the finiteness of the owners is in
  the invariant too.
* `RequestsAreSound` and `TokensAreSpent`: a token that was neither shared nor handled
  without Redis is in one request's hand at most, and is no longer known once it
  has been revoked, whichever processes have a client and which do not.

Each scene's lemma shows that its steps preserve its part, and the other two
stutter. Assumptions: `StartupAssumption`, `AccountsAssumption`,
`SessionsAssumption`, `FaultsAssumption`.

### Detector

`DetectorProofs` proves `DecisiveHolds`, `ModelRaises`, `FastPathIsFaithful`,
`AllowedHasReason`, `LabelHolds`, `OfflineHolds` and the types for every table of
domains, corpus, message, answer of WHOIS, of the classifier and of the model, every
set of policies and every reputation. `DetectorInvariance` says that an entry of the cache carries what
its domain owes, whichever URL it was made for (`DomainsAreHonest`); that the
intel in hand does, and what the link's own host owes unless it was borrowed; that layers, answer, score and label of a judged message are
those of its facts (`JudgedIsSound`); and that a row follows from them
(`RowIsSound`). On top of it, about the operators: `SilenceIsLowest` (the final
score with any answer is at least that of a silent model), `ShortcutAgrees`,
`OwedIsPaid` (each floor reaches its bar) and `IngestRaises` (only reputation
lowers a score after detection). `GreatestScore` shows that a non-empty set of
scores has a greatest, which the `CHOOSE` of the maxima needs; it argues by the
well-foundedness of strict inclusion of finite sets.

`LabelHolds` needs of `JudgedIsSound` that label and score come from the same layers
and the same answer. It holds for all policies because `LabelFollowsVerdict` names
the one kind that breaks the rest, a policy that quarantines by a score under 70
alone (`SetsLowBar`); no seeded policy is one.

`OfflineHolds` argues backwards from a message below the bar. None of the floors the
two scores share can have raised it (`BelowBar`), and without them the weighted sum
of the offline layers stays below its bar (`OfflineSumBound`), so the corpus match
alone made it a threat (`OfflineNeedsMatch`). The match with the intel in hand is
weaker; only an evasion that WHOIS brings into sight can take a match away
(`HiddenMatch`), and a domain of less than three days is rated so high that the
message would be over the bar. It needs that a pretext and brand which match by any technique match by
"lookalike_domain" too, and that techniques are severe. Both are part of
`SignalsAssumption`, and `BuilderListsLookalikes` proves that the corpus
`build_phishing_corpus.py` generates has them, from any pretexts rated 70 and more
(its table starts at 72): both of its pools of evasions contain
`lookalike_domain`, and no evasion lowers a severity.

Assumptions: `SignalsAssumption` (types; every high-value pretext has a technique
in the corpus; the two facts above), `DetectorAssumption` (the parameters are of
their types) and `PolicyAssumption` (policies have the fields of their table).

### Only model-checked

The five liveness properties: `EveryMailIsDecided`, `AcceptedIsSettled`,
`PoolsDrain`, `SlotIsTaken` and `EveryMailIsConsidered`. They rest on fairness, hence on
ENABLED, which the provers do not handle. The five violated runs are
counterexamples of TLC, and need no proof. That `MCTechniques` are part of the
generated corpus is an assumption TLC evaluates: `Corpus` numbers its entries by
counting, which no theorem turns on.

## 6. Plan

Done, in this order: `Verdict` and `ImapWatcher`; `IngestQueue` implementing
`IngestPromise`; `SiemDelivery`; `Feedback` and its proofs; `WatcherSlot`,
`SimCampaign` and `CloudConnectors` and their proofs; `Startup`, `Accounts`,
`Sessions` and theirs; `Signals`, `Scoring`, `AttachmentScan`, `Corpus`,
`Detector` and theirs; the proofs of `ImapWatcher`, of the queue's refinement and
of `SiemDelivery`; `TrustIsEarned`, `LabelFollowsVerdict` and `OfflineAgrees`.

Left, in order of importance:

1. Theorems that say more than the runs: the exact ledger of `SiemDelivery` without
   faults, the two policy engines' monotonicity in `Verdict`.
2. Cases, rate limiting, the event stream and the other remote actions of
   remediation, as far as they say something a test does not.
3. The browser's single flight of refreshes, composed with `Sessions`.

## 7. Not modelled

* Text: regular expressions and word lists of the heuristics, the classifier's
  features, the prompt, parsing of attachments. The models take the facts these
  decide, and any answer of the classifier and the language model.
* Cases and SOC metrics: one UPDATE per request. The rate limiter, whose window is
  renewed by every hit, that of the login included. The event stream, which may
  skip an id that commits after a greater one was sent. Remote actions of remediation other than
  blocking, recorded in one commit at the end. The last three are in the list of
  hazards.
* API keys, password rules, the mail for a reset, the statements of `db.py`, and
  the wait for the database before a start (`main.py:116-141`).
* Templates, landing pages, results of campaigns and storage of the roster.
* Encryption of settings, address checks, formatting of SIEM events, reports,
  the assistant, dashboards, front ends, training scripts: no state that two
  actors share, or pure input and output.
* A deployment without `REDIS_URL`, where refresh tokens are stateless by design. An alert of the watcher past the call of `export_siem_event`
  (that is `SiemDelivery`, composed with nothing). What an answer of the model of
  the wrong shape raises: it ends the analysis without a verdict, and the caller
  alone says what becomes of the mail.
* Several tenants: every table is scoped by organisation, and the models are of
  one. Text of evidence, timeline and case rows. Expiry of indicators: no code
  sets `expires_at`.
