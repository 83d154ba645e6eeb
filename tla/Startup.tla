------------------------------ MODULE Startup ------------------------------
(***************************************************************************)
(* How a worker process comes up (main.py).  Importing the modules creates  *)
(* the tables (db.py) and settles the signing secret (framework/security.py,*)
(* load_auth_secret); the lifespan handler then applies pending migrations, *)
(* seeds the first owner, and fills the tables of policies and playbooks    *)
(* when it finds them empty.  uvicorn starts several workers at once and    *)
(* nothing orders them; each step below is one transaction of PostgreSQL.   *)
(* The steps that are idempotent by themselves (CREATE ... IF NOT EXISTS,   *)
(* ON CONFLICT DO NOTHING or DO UPDATE: tables, owner, rules) leave no      *)
(* trace here.                                                              *)
(***************************************************************************)
EXTENDS Integers, Sequences, Faults

CONSTANTS
  Workers,
  Versions,   \* migrations, numbered in file name order
  Seeds,      \* the tables seeded when empty, in order
  NoSecret

ASSUME StartupAssumption ==
  Versions \subseteq Nat /\ Seeds \in Seq(STRING) /\ NoSecret \notin Workers

VARIABLES
  at,        \* worker -> "import", "secret", "list", "migrate", "count",
             \* "seed", "serving" or "dead"
  secret,    \* worker -> the secret it signs with, named by its generator
  stored,    \* the secret in the settings table
  listed,    \* worker -> the versions it believes applied
  done,      \* rows of schema_migrations
  filled,    \* worker -> how many of the seeded tables it has dealt with
  seeds,     \* position in Seeds -> how many times the defaults were inserted
  disturbed  \* history: two workers were starting at the same time, or the
             \* settings table could not be used

startupVars == <<at, secret, stored, listed, done, filled, seeds, disturbed>>

Starting == {"secret", "list", "migrate", "count", "seed"}
Serving  == {w \in Workers : at[w] = "serving"}

StartupInit ==
  /\ at     = [w \in Workers |-> "import"]
  /\ secret = [w \in Workers |-> NoSecret]
  /\ stored = NoSecret
  /\ listed = [w \in Workers |-> {}]
  /\ done   = {}
  /\ filled = [w \in Workers |-> 0]
  /\ seeds  = [i \in DOMAIN Seeds |-> 0]
  /\ disturbed = FALSE

Goes(w, to) == at' = [at EXCEPT ![w] = to]

\* load_auth_secret reads the settings table; a secret found there is taken.
Import(w) ==
  /\ at[w] = "import"
  /\ secret' = [secret EXCEPT ![w] = stored]
  /\ Goes(w, IF stored = NoSecret THEN "secret" ELSE "list")
  /\ disturbed' = (disturbed \/ \E v \in Workers \ {w} : at[v] \in Starting)
  /\ UNCHANGED <<stored, listed, done, filled, seeds, faults>>

\* Mutation: the generated secret is used and never stored.
KeptToItself(w) == stored
\* The upsert replaces whatever is there by then.
Published(w) == w
Generate(w) ==
  /\ at[w] = "secret"
  /\ stored' = Published(w)
  /\ secret' = [secret EXCEPT ![w] = w]
  /\ Goes(w, "list")
  /\ UNCHANGED <<listed, done, filled, seeds, disturbed, faults>>

\* Its exception path: a secret that no other process will know.
SecretFails(w) ==
  /\ at[w] \in {"import", "secret"} /\ Fault
  /\ secret' = [secret EXCEPT ![w] = w]
  /\ disturbed' = TRUE
  /\ Goes(w, "list")
  /\ UNCHANGED <<stored, listed, done, filled, seeds>>

\* run_migrations reads once which versions are applied...
ListDone(w) ==
  /\ at[w] = "list"
  /\ listed' = [listed EXCEPT ![w] = done]
  /\ Goes(w, "migrate")
  /\ UNCHANGED <<secret, stored, done, filled, seeds, disturbed, faults>>

\* ...and applies the others in order.  The primary key refuses a version that
\* another worker has recorded since, and the exception ends this worker.
Pending(w)     == Versions \ listed[w]
FirstPending(w, v) == v \in Pending(w) /\ \A k \in Pending(w) : v <= k
Migrate(w) ==
  \E v \in Versions :
    /\ at[w] = "migrate" /\ FirstPending(w, v) /\ v \notin done
    /\ done'   = done \cup {v}
    /\ listed' = [listed EXCEPT ![w] = @ \cup {v}]
    /\ UNCHANGED <<at, secret, stored, filled, seeds, disturbed, faults>>
MigrationRefused(w) ==
  /\ at[w] = "migrate" /\ \E v \in done : FirstPending(w, v)
  /\ Goes(w, "dead")
  /\ UNCHANGED <<secret, stored, listed, done, filled, seeds, disturbed, faults>>
Migrated(w) ==
  /\ at[w] = "migrate" /\ Pending(w) = {}
  /\ Goes(w, "count")
  /\ filled' = [filled EXCEPT ![w] = 0]
  /\ UNCHANGED <<secret, stored, listed, done, seeds, disturbed, faults>>

\* seed_default_policies, then seed_default_playbooks: count the rows, insert
\* the defaults if there were none, commit.
Table(w) == filled[w] + 1
IsEmpty(w) == seeds[Table(w)] = 0
Count(w) ==
  /\ at[w] = "count"
  /\ IF filled[w] = Len(Seeds) THEN Goes(w, "serving") /\ UNCHANGED filled
     ELSE IF IsEmpty(w) THEN Goes(w, "seed") /\ UNCHANGED filled
     ELSE filled' = [filled EXCEPT ![w] = @ + 1] /\ UNCHANGED at
  /\ UNCHANGED <<secret, stored, listed, done, seeds, disturbed, faults>>
Seed(w) ==
  /\ at[w] = "seed"
  /\ seeds'  = [seeds EXCEPT ![Table(w)] = @ + 1]
  /\ filled' = [filled EXCEPT ![w] = @ + 1]
  /\ Goes(w, "count")
  /\ UNCHANGED <<secret, stored, listed, done, disturbed, faults>>

\* A worker dies at any point; its supervisor starts another one.
Die(w) ==
  /\ at[w] # "dead" /\ Fault
  /\ Goes(w, "dead")
  /\ UNCHANGED <<secret, stored, listed, done, filled, seeds, disturbed>>
Respawn(w) ==
  /\ at[w] = "dead"
  /\ Goes(w, "import")
  /\ secret' = [secret EXCEPT ![w] = NoSecret]
  /\ UNCHANGED <<stored, listed, done, filled, seeds, disturbed, faults>>

Worker(w) ==
  \/ Import(w) \/ Generate(w) \/ ListDone(w) \/ Migrate(w) \/ MigrationRefused(w)
  \/ Migrated(w) \/ Count(w) \/ Seed(w) \/ Respawn(w)

StartupStep == \E w \in Workers : Worker(w) \/ SecretFails(w) \/ Die(w)

----------------------------------------------------------------------------
(* Properties. *)

StartupTypeOK ==
  /\ at \in [Workers -> Starting \cup {"import", "serving", "dead"}]
  /\ secret \in [Workers -> Workers \cup {NoSecret}]
  /\ stored \in Workers \cup {NoSecret}
  /\ done \subseteq Versions /\ listed \in [Workers -> SUBSET Versions]
  /\ filled \in [Workers -> 0..Len(Seeds)]
  /\ seeds \in [DOMAIN Seeds -> Nat]
  /\ disturbed \in BOOLEAN

\* Starting a worker is idempotent, whenever others die and are started again:
\* no worker serves before the schema is complete (migrations.py:5, "exactly
\* once"), and unless two of them start at the same time those that serve
\* accept each other's sessions, and every table was seeded once.
StartsAreIdempotent ==
  /\ Serving # {} => done = Versions
  /\ disturbed \/ /\ \A w \in Serving : secret[w] = stored
                  /\ \A i \in DOMAIN Seeds : seeds[i] <= 1

=============================================================================
