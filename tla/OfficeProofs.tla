---------------------------- MODULE OfficeProofs ----------------------------
(***************************************************************************)
(* Proofs about Office: for any number of workers, migrations, seeded        *)
(* tables, accounts, requests and tokens, and any budget of faults.          *)
(***************************************************************************)
EXTENDS Office, FiniteSetTheorems, TLAPS

----------------------------------------------------------------------------
(* Accounts. *)

\* Until an owner has been overtaken or updated away there is one, and one that
\* a pending request to delete will not remove.
OwnersAreSafe ==
  overtaken \/ updated
  \/ /\ Owners # {}
     /\ \A u \in Users : deleting[u] # None => Owners \ {deleting[u]} # {}

AccountsInvariant == AccountsTypeOK /\ IsFiniteSet(Owners) /\ OwnersAreSafe

\* There is an owner at the start, and no deletion in progress.
LEMMA AccountsInitially == ASSUME AccountsInit PROVE AccountsInvariant
<1> USE AccountsAssumption DEF AccountsInit
<1>1. Owners = {First}
  BY DEF Owners
<1>2. IsFiniteSet(Owners)
  BY <1>1, FS_Singleton
<1>3. /\ role \in [Users -> Roles \cup NoRole] /\ claim \in [Users -> Roles \cup {"unused"}]
      /\ deleting \in [Users -> Users \cup {None}] /\ changes \in 0..MaxChanges
  BY DEF Roles, NoRole
<1>4. active \in [Users -> BOOLEAN]
  BY Zenon
<1>5. \A u \in Users : deleting[u] = None
  OBVIOUS
<1> QED
  BY <1>1, <1>2, <1>3, <1>4, <1>5 DEF AccountsInvariant, AccountsTypeOK, OwnersAreSafe

\* Whoever is deleted after the count of owners leaves another owner.
LEMMA CountLeavesOne ==
  ASSUME IsFiniteSet(Owners), Owners # {}, NEW target \in Users, OwnersSuffice(target)
  PROVE  Owners \ {target} # {}
<1>1. CASE role[target] = "owner"
  <2> SUFFICES ASSUME Owners \subseteq {target} PROVE FALSE
    OBVIOUS
  <2>1. IsFiniteSet({target}) /\ Cardinality({target}) = 1
    BY FS_Singleton
  <2>2. Cardinality(Owners) <= 1
    BY <2>1, FS_Subset
  <2>3. Cardinality(Owners) \in Nat /\ Cardinality(Owners) > 1
    BY <1>1, FS_CardinalityType DEF OwnersSuffice
  <2> QED
    BY <2>2, <2>3
<1>2. CASE role[target] # "owner"
  BY <1>2 DEF Owners
<1> QED
  BY <1>1, <1>2

\* Requests of administrators keep the types.
LEMMA AccountsTyping == ASSUME AccountsTypeOK, AccountStep PROVE AccountsTypeOK'
<1> USE DEF AccountsTypeOK
<1>1. ASSUME Change PROVE changes' \in 0..MaxChanges
  BY <1>1, AccountsAssumption DEF Change
<1>2. ASSUME NEW u \in Users, SignIn(u) \/ TokenExpires(u) PROVE AccountsTypeOK'
  BY <1>2 DEF SignIn, TokenExpires
<1>3. ASSUME NEW u \in Users, Delete(u) PROVE AccountsTypeOK'
  BY <1>3, <1>1 DEF Delete, NoRole
<1>4. ASSUME NEW u \in Users, NEW t \in Users, CountOwners(u, t) PROVE AccountsTypeOK'
  BY <1>4 DEF CountOwners
<1>5. ASSUME NEW u \in Users, NEW t \in Users, NEW r \in Roles,
             CreateUser(u, t, r) \/ ChangeRole(u, t, r)
      PROVE  AccountsTypeOK'
  BY <1>5, <1>1 DEF CreateUser, ChangeRole
<1>6. ASSUME NEW u \in Users, NEW t \in Users, NEW b \in BOOLEAN, SetActive(u, t, b)
      PROVE  AccountsTypeOK'
  BY <1>6, <1>1 DEF SetActive
<1> QED
  BY <1>2, <1>3, <1>4, <1>5, <1>6 DEF AccountStep

\* The owners stay finitely many: a step adds one at most.
LEMMA OwnersStayFinite ==
  ASSUME IsFiniteSet(Owners), NEW t, Owners' \subseteq Owners \cup {t}
  PROVE  IsFiniteSet(Owners')
BY FS_AddElement, FS_Subset

\* Nobody but t gained or lost by a change of its account.
LEMMA OnlyOneMoves ==
  ASSUME AccountsTypeOK, NEW t \in Users,
         \A v \in Users \ {t} : role'[v] = role[v] /\ active'[v] = active[v]
  PROVE  Owners' \cup {t} = Owners \cup {t}
BY DEF Owners

\* A deletion that counted another owner leaves one, unless an owner left
\* meanwhile.
LEMMA OwnersStep == ASSUME AccountsInvariant, AccountStep PROVE IsFiniteSet(Owners') /\ OwnersAreSafe'
<1> USE DEF AccountsInvariant, AccountsTypeOK
<1>1. ASSUME NEW u \in Users, SignIn(u) \/ TokenExpires(u)
      PROVE  IsFiniteSet(Owners') /\ OwnersAreSafe'
  BY <1>1 DEF SignIn, TokenExpires, Owners, OwnersAreSafe
<1>2. ASSUME NEW u \in Users, NEW t \in Users, CountOwners(u, t)
      PROVE  IsFiniteSet(Owners') /\ OwnersAreSafe'
  <2>1. Owners' = Owners /\ UNCHANGED <<overtaken, updated>>
    BY <1>2 DEF CountOwners, Owners
  <2>2. CASE overtaken \/ updated
    BY <2>1, <2>2 DEF OwnersAreSafe
  <2>3. CASE ~(overtaken \/ updated)
    <3>1. Owners \ {t} # {}
      BY <1>2, <2>3, CountLeavesOne DEF CountOwners, OwnersAreSafe
    <3>2. \A v \in Users : deleting'[v] = deleting[v] \/ deleting'[v] = t
      BY <1>2 DEF CountOwners
    <3> QED
      BY <2>1, <2>3, <3>1, <3>2 DEF OwnersAreSafe
  <2> QED
    BY <2>1, <2>2, <2>3
<1>3. ASSUME NEW u \in Users, Delete(u) PROVE IsFiniteSet(Owners') /\ OwnersAreSafe'
  <2> DEFINE t == deleting[u]
  <2>1. t \in Users /\ t # None
    BY <1>3 DEF Delete
  <2>2. Owners' = Owners \ {t}
    BY <1>3, <2>1 DEF Delete, Owners
  <2>3. updated' = updated /\ (overtaken => overtaken')
    BY <1>3 DEF Delete, Undercut
  <2>4. deleting'[u] = None /\ \A v \in Users \ {u} : deleting'[v] = deleting[v]
    BY <1>3 DEF Delete
  <2>5. CASE t \in Owners
    <3>1. overtaken' \/ \A v \in Users \ {u} : deleting[v] = None
      BY <1>3, <2>5 DEF Delete, Undercut
    <3> QED
      BY <2>1, <2>2, <2>3, <2>4, <3>1, OwnersStayFinite DEF OwnersAreSafe
  <2>6. CASE t \notin Owners
    <3>1. Owners' = Owners
      BY <2>2, <2>6
    <3> QED
      BY <2>3, <2>4, <3>1 DEF OwnersAreSafe
  <2> QED
    BY <2>5, <2>6
<1>4. ASSUME NEW u \in Users, NEW t \in Users, NEW r \in Roles, CreateUser(u, t, r)
      PROVE  IsFiniteSet(Owners') /\ OwnersAreSafe'
  <2>1. Owners \subseteq Owners' /\ Owners' \subseteq Owners \cup {t}
    BY <1>4 DEF CreateUser, Owners
  <2>2. UNCHANGED <<deleting, overtaken, updated>>
    BY <1>4 DEF CreateUser
  <2> QED
    BY <2>1, <2>2, OwnersStayFinite DEF OwnersAreSafe
<1>5. ASSUME NEW u \in Users, NEW t \in Users, Owners' \cup {t} = Owners \cup {t},
             updated' = (updated \/ Owners = {t}),
             overtaken' = IF t \in Owners THEN Undercut(Users) ELSE overtaken,
             deleting' = deleting
      PROVE  IsFiniteSet(Owners') /\ OwnersAreSafe'
  <2>1. IsFiniteSet(Owners')
    BY <1>5, OwnersStayFinite
  <2>2. CASE overtaken \/ updated
    BY <1>5, <2>1, <2>2 DEF OwnersAreSafe, Undercut
  <2>3. CASE ~(overtaken \/ updated) /\ t \in Owners
    <3>1. updated' \/ Owners' # {}
      BY <1>5, <2>3
    <3>2. overtaken' \/ \A v \in Users : deleting[v] = None
      BY <1>5, <2>3 DEF Undercut
    <3> QED
      BY <1>5, <2>1, <3>1, <3>2 DEF OwnersAreSafe
  <2>4. CASE ~(overtaken \/ updated) /\ t \notin Owners
    BY <1>5, <2>1, <2>4 DEF OwnersAreSafe
  <2> QED
    BY <2>2, <2>3, <2>4
<1>6. ASSUME NEW u \in Users, NEW t \in Users, NEW r \in Roles, ChangeRole(u, t, r)
      PROVE  IsFiniteSet(Owners') /\ OwnersAreSafe'
  BY <1>5, <1>6, OnlyOneMoves DEF ChangeRole
<1>7. ASSUME NEW u \in Users, NEW t \in Users, NEW b \in BOOLEAN, SetActive(u, t, b)
      PROVE  IsFiniteSet(Owners') /\ OwnersAreSafe'
  BY <1>5, <1>7, OnlyOneMoves DEF SetActive
<1> QED
  BY <1>1, <1>2, <1>3, <1>4, <1>6, <1>7 DEF AccountStep

----------------------------------------------------------------------------
(* Starting workers. *)

\* A worker that got past the migrations has seen them all applied, and it
\* never looks beyond the list of seeded tables.
StagesAreSound ==
  /\ \A w \in Workers : listed[w] \subseteq done
  /\ \A w \in Workers : at[w] \in {"count", "seed", "serving"} => done = Versions
  /\ \A w \in Workers : at[w] = "seed" => filled[w] < Len(Seeds)

\* Until two workers start at once: a worker generates a secret only while
\* there is none, everyone past that point signs with the stored one, and a
\* table about to be seeded is empty.
StartsAreAlone ==
  disturbed
  \/ /\ \A v, w \in Workers : at[v] \in Starting /\ at[w] \in Starting => v = w
     /\ \A w \in Workers : at[w] = "secret" => stored = NoSecret
     /\ \A w \in Workers : at[w] \in {"list", "migrate", "count", "seed", "serving"} =>
                             secret[w] = stored /\ stored # NoSecret
     /\ \A i \in DOMAIN Seeds : seeds[i] <= 1
     /\ \A w \in Workers : at[w] = "seed" => seeds[Table(w)] = 0

StartupInvariant == StartupTypeOK /\ StagesAreSound /\ StartsAreAlone

\* No worker has started and nothing is seeded.
LEMMA StartupInitially == ASSUME StartupInit PROVE StartupInvariant
<1> USE StartupAssumption DEF StartupInit
<1>1. /\ at \in [Workers -> Starting \cup {"import", "serving", "dead"}]
      /\ \A w \in Workers : at[w] = "import"
  BY DEF Starting
<1>2. /\ secret \in [Workers -> Workers \cup {NoSecret}] /\ stored \in Workers \cup {NoSecret}
      /\ done \subseteq Versions /\ listed \in [Workers -> SUBSET Versions]
      /\ filled \in [Workers -> 0..Len(Seeds)] /\ seeds \in [DOMAIN Seeds -> Nat]
  OBVIOUS
<1>3. disturbed \in BOOLEAN
  BY Zenon
<1>4. \A i \in DOMAIN Seeds : seeds[i] <= 1
  OBVIOUS
<1>5. \A w \in Workers : listed[w] \subseteq done
  OBVIOUS
<1> QED
  BY <1>1, <1>2, <1>3, <1>4, <1>5
  DEF StartupInvariant, StartupTypeOK, StagesAreSound, StartsAreAlone, Starting

\* Steps of starting workers keep the types.
LEMMA StartupTyping ==
  ASSUME StartupTypeOK, StagesAreSound, StartupStep PROVE StartupTypeOK'
<1> USE StartupAssumption DEF StartupTypeOK
<1>1. ASSUME NEW w \in Workers, Import(w) PROVE StartupTypeOK'
  <2>1. disturbed' \in BOOLEAN
    BY <1>1, Zenon DEF Import
  <2> QED
    BY <1>1, <2>1 DEF Import, Goes, Starting
<1>2. ASSUME NEW w \in Workers, Generate(w) \/ ListDone(w) \/ Respawn(w) PROVE StartupTypeOK'
  BY <1>2, ZenonT(60) DEF Generate, Published, ListDone, Respawn, Goes, Starting
<1>3. ASSUME NEW w \in Workers, Migrate(w) PROVE StartupTypeOK'
  <2>1. PICK v \in Versions : /\ done' = done \cup {v}
                              /\ listed' = [listed EXCEPT ![w] = @ \cup {v}]
    BY <1>3 DEF Migrate
  <2>2. done' \subseteq Versions /\ listed' \in [Workers -> SUBSET Versions]
    BY <2>1
  <2> QED
    BY <1>3, <2>2 DEF Migrate
<1>7. ASSUME NEW w \in Workers, MigrationRefused(w) \/ Migrated(w) PROVE StartupTypeOK'
  <2>1. 0 \in 0..Len(Seeds)
    OBVIOUS
  <2> QED
    BY <1>7, <2>1 DEF MigrationRefused, Migrated, Goes, Starting
<1>4. ASSUME NEW w \in Workers, Count(w) PROVE StartupTypeOK'
  BY <1>4 DEF Count, Goes, Starting
<1>5. ASSUME NEW w \in Workers, Seed(w) PROVE StartupTypeOK'
  <2>3. Len(Seeds) \in Nat /\ DOMAIN Seeds = 1..Len(Seeds)
    OBVIOUS
  <2>4. filled[w] \in 0..Len(Seeds) /\ filled[w] < Len(Seeds)
    BY <1>5 DEF Seed, StagesAreSound
  <2>1. filled[w] + 1 \in 0..Len(Seeds) /\ Table(w) \in DOMAIN Seeds
    BY <2>3, <2>4 DEF Table
  <2>2. filled' \in [Workers -> 0..Len(Seeds)] /\ seeds' \in [DOMAIN Seeds -> Nat]
    BY <1>5, <2>1 DEF Seed
  <2> QED
    BY <1>5, <2>2 DEF Seed, Goes, Starting
<1>6. ASSUME NEW w \in Workers, SecretFails(w) \/ Die(w) PROVE StartupTypeOK'
  BY <1>6 DEF SecretFails, Die, Goes, Starting
<1> QED
  BY <1>1, <1>2, <1>3, <1>4, <1>5, <1>6, <1>7 DEF StartupStep, Worker

\* A worker at a stage has done what comes before it.
LEMMA StagesStep ==
  ASSUME StartupTypeOK, StagesAreSound, StartupStep PROVE StagesAreSound'
<1> USE StartupAssumption DEF StartupTypeOK, StagesAreSound
<1>1. ASSUME NEW w \in Workers, Import(w) \/ Generate(w) \/ ListDone(w) \/ Respawn(w)
                                \/ SecretFails(w) \/ Die(w)
      PROVE  StagesAreSound'
  BY <1>1 DEF Import, Generate, ListDone, Respawn, SecretFails, Die, Goes
<1>2. ASSUME NEW w \in Workers, Migrate(w) PROVE StagesAreSound'
  BY <1>2 DEF Migrate, FirstPending, Pending
<1>3. ASSUME NEW w \in Workers, MigrationRefused(w) \/ Migrated(w) PROVE StagesAreSound'
  BY <1>3 DEF MigrationRefused, Migrated, Goes, Pending
<1>4. ASSUME NEW w \in Workers, Count(w) PROVE StagesAreSound'
  <2>1. filled[w] # Len(Seeds) => filled[w] < Len(Seeds)
    OBVIOUS
  <2> QED
    BY <1>4, <2>1 DEF Count, Goes
<1>5. ASSUME NEW w \in Workers, Seed(w) PROVE StagesAreSound'
  BY <1>5 DEF Seed, Goes
<1> QED
  BY <1>1, <1>2, <1>3, <1>4, <1>5 DEF StartupStep, Worker

\* Who starts alone acts on what it read.
LEMMA StartsStep ==
  ASSUME StartupTypeOK, StagesAreSound, StartsAreAlone, StartupStep PROVE StartsAreAlone'
<1> USE StartupAssumption DEF StartupTypeOK, StartsAreAlone, Starting
<1>0. disturbed => disturbed'
  BY DEF StartupStep, Worker, Import, Generate, ListDone, Respawn, SecretFails, Die,
         Migrate, MigrationRefused, Migrated, Count, Seed
<1> SUFFICES ASSUME ~disturbed, ~disturbed' PROVE StartsAreAlone'
  BY <1>0
<1>1. ASSUME NEW w \in Workers, Import(w) PROVE StartsAreAlone'
  <2>1. \A v \in Workers \ {w} : at[v] \notin Starting
    BY <1>1 DEF Import
  <2> QED
    BY <1>1, <2>1 DEF Import, Goes, Table
<1>2. ASSUME NEW w \in Workers, Generate(w) PROVE StartsAreAlone'
  BY <1>2 DEF Generate, Published, Goes, Table
<1>3. ASSUME NEW w \in Workers, ListDone(w) \/ Respawn(w) \/ Die(w) \/ MigrationRefused(w)
      PROVE  StartsAreAlone'
  <2>1. CASE ListDone(w)
    BY <2>1 DEF ListDone, Goes, Table
  <2>2. CASE Respawn(w)
    BY <2>2 DEF Respawn, Goes, Table
  <2>3. CASE Die(w) \/ MigrationRefused(w)
    BY <2>3 DEF Die, MigrationRefused, Goes, Table
  <2> QED
    BY <1>3, <2>1, <2>2, <2>3
<1>4. ASSUME NEW w \in Workers, Migrate(w) \/ Migrated(w) PROVE StartsAreAlone'
  BY <1>4 DEF Migrate, Migrated, Goes, Table
<1>5. ASSUME NEW w \in Workers, Count(w) PROVE StartsAreAlone'
  BY <1>5 DEF Count, IsEmpty, Goes, Table
<1>6. ASSUME NEW w \in Workers, Seed(w) PROVE StartsAreAlone'
  BY <1>6 DEF Seed, Goes, Table
<1>7. ASSUME NEW w \in Workers, SecretFails(w) PROVE FALSE
  BY <1>7 DEF SecretFails
<1> QED
  BY <1>1, <1>2, <1>3, <1>4, <1>5, <1>6, <1>7 DEF StartupStep, Worker

----------------------------------------------------------------------------
(* Sessions. *)

Presents(r, t) == token[r] = t /\ step[r] \in {"checked", "revoked"}

RequestsAreSound ==
  /\ \A r \in Requests : step[r] \in {"checked", "revoked"} => token[r] \in issued
  /\ \A r \in Requests : step[r] = "revoked" => token[r] \in ended
  /\ \A t \in Tokens : t \notin issued => used[t] = 0

\* As long as Redis was reached whenever a token was handled: a revoked one is
\* gone from Redis and was not accepted since.  If also no two requests presented
\* it at once, one at most presents it, none after it paid for a successor.
Gone(t) == t \notin reused /\ (t \in ended => t \notin known)
Paid(t) ==
  /\ \A q, r \in Requests : Presents(q, t) /\ Presents(r, t) => q = r
  /\ used[t] = 0 \/ (used[t] = 1 /\ t \in ended /\ \A r \in Requests : ~Presents(r, t))

TokensAreGone == \A t \in issued \ unreached : Gone(t)
TokensArePaid == \A t \in issued \ (unreached \cup shared) : Paid(t)

SessionsInvariant == SessionsTypeOK /\ RequestsAreSound /\ TokensAreGone /\ TokensArePaid

\* No token is out and no request in progress.
LEMMA SessionsInitially == ASSUME SessionsInit PROVE SessionsInvariant
<1> USE DEF SessionsInit
<1>1. redis \in BOOLEAN /\ enabled \in BOOLEAN
  BY Zenon
<1>2. /\ issued = {} /\ known = {} /\ ended = {} /\ reused = {} /\ shared = {} /\ unreached = {}
      /\ client \in [Processes -> {"unasked", "connecting", "connected", "none"}]
      /\ step \in [Requests -> {"none", "checked", "revoked", "over"}]
      /\ token \in [Requests -> Tokens \cup {NoToken}]
      /\ server \in [Requests -> Processes \cup {NoToken}]
      /\ used \in [Tokens -> Nat] /\ \A t \in Tokens : used[t] = 0
      /\ \A r \in Requests : step[r] = "none"
  OBVIOUS
<1> QED
  BY <1>1, <1>2 DEF SessionsInvariant, SessionsTypeOK, RequestsAreSound, TokensAreGone, TokensArePaid

\* A step of the client or of Redis, or of an administrator, deals with no token.
Elsewhere ==
  \/ \E p \in Processes : Connect(p) \/ Connected(p) \/ Restart(p)
  \/ \E b \in BOOLEAN : SetEnabled(b)
  \/ RedisStops \/ RedisReturns

\* It ends requests at most, and Redis may lose tokens.
LEMMA ElsewhereStep ==
  ASSUME SessionsTypeOK, Elsewhere
  PROVE  /\ UNCHANGED <<issued, used, ended, reused, shared, unreached>>
         /\ known' \subseteq known
         /\ \A r \in Requests : \/ step'[r] = "over"
                                \/ step'[r] = step[r] /\ token'[r] = token[r]
<1>1. ASSUME NEW p \in Processes, Restart(p)
      PROVE  \A r \in Requests : \/ step'[r] = "over"
                                 \/ step'[r] = step[r] /\ token'[r] = token[r]
  BY <1>1 DEF Restart
<1> QED
  BY <1>1 DEF Elsewhere, Connect, Connected, Restart, SetEnabled, RedisStops, RedisReturns

\* The steps are those, and those of requests.
LEMMA SessionCases ==
  ASSUME SessionStep
  PROVE  \/ Elsewhere
         \/ \E p \in Processes : Login(p)
         \/ \E r \in Requests : Revoke(r) \/ Rotate(r)
         \/ \E r \in Requests, p \in Processes, t \in Tokens :
              Check(r, p, t) \/ Refuse(r, p, t) \/ Logout(r, p, t)
BY DEF SessionStep, Elsewhere

\* Steps of requests keep the types.
LEMMA SessionsTyping ==
  ASSUME SessionsTypeOK, RequestsAreSound, SessionStep PROVE SessionsTypeOK'
<1> USE DEF SessionsTypeOK
<1>1. ASSUME NEW p \in Processes, Issue(p)
      PROVE  issued' \subseteq Tokens /\ known' \subseteq issued' /\ issued \subseteq issued'
  BY <1>1 DEF Issue, NextToken
<1>2. ASSUME NEW p \in Processes, Login(p) PROVE SessionsTypeOK'
  BY <1>1, <1>2 DEF Login
<1>3. ASSUME NEW r \in Requests, NEW p \in Processes, NEW t \in Tokens,
             Check(r, p, t) \/ Refuse(r, p, t) \/ Logout(r, p, t)
      PROVE  SessionsTypeOK'
  BY <1>3 DEF Check, Refuse, Logout, Unreached, Without
<1>4. ASSUME NEW r \in Requests, Revoke(r) PROVE SessionsTypeOK'
  BY <1>4 DEF Revoke, Unreached, Without, RequestsAreSound
<1>5. ASSUME NEW r \in Requests, Rotate(r) PROVE SessionsTypeOK'
  <2>1. used' \in [Tokens -> Nat]
    BY <1>5 DEF Rotate
  <2>2. issued' \subseteq Tokens /\ known' \subseteq issued' /\ issued \subseteq issued'
    BY <1>5 DEF Rotate, Issue, NextToken
  <2> QED
    BY <1>5, <2>1, <2>2 DEF Rotate
<1>6. ASSUME NEW p \in Processes, Connect(p) \/ Connected(p) \/ Restart(p) PROVE SessionsTypeOK'
  BY <1>6 DEF Connect, Connected, Restart
<1>7. ASSUME NEW b \in BOOLEAN, SetEnabled(b) PROVE SessionsTypeOK'
  BY <1>7 DEF SetEnabled
<1>8. CASE RedisStops \/ RedisReturns
  BY <1>8 DEF RedisStops, RedisReturns
<1> QED
  BY <1>2, <1>3, <1>4, <1>5, <1>6, <1>7, <1>8 DEF SessionStep

\* A request keeps the token it presented.
LEMMA RequestsStep ==
  ASSUME SessionsTypeOK, RequestsAreSound, SessionStep PROVE RequestsAreSound'
<1> USE DEF SessionsTypeOK, RequestsAreSound
<1>1. ASSUME NEW p \in Processes, Login(p) PROVE RequestsAreSound'
  BY <1>1 DEF Login, Issue
<1>2. ASSUME NEW r \in Requests, NEW p \in Processes, NEW t \in Tokens,
             Check(r, p, t) \/ Refuse(r, p, t) \/ Logout(r, p, t)
      PROVE  RequestsAreSound'
  BY <1>2 DEF Check, Refuse, Logout
<1>3. ASSUME NEW r \in Requests, Revoke(r) PROVE RequestsAreSound'
  BY <1>3 DEF Revoke
<1>4. ASSUME NEW r \in Requests, Rotate(r) PROVE RequestsAreSound'
  <2>1. issued \subseteq issued' /\ token[r] \in issued
    BY <1>4 DEF Rotate, Issue
  <2>2. \A t \in Tokens : t \notin issued => used'[t] = used[t]
    BY <1>4, <2>1 DEF Rotate
  <2> QED
    BY <1>4, <2>1, <2>2 DEF Rotate
<1>5. CASE Elsewhere
  BY <1>5, ElsewhereStep
<1> QED
  BY <1>1, <1>2, <1>3, <1>4, <1>5, SessionCases

\* A revoked token stays gone.
LEMMA GoneStep ==
  ASSUME SessionsTypeOK, RequestsAreSound, TokensAreGone, SessionStep PROVE TokensAreGone'
<1> USE DEF SessionsTypeOK, Gone
<1> SUFFICES ASSUME NEW t \in issued', t \notin unreached' PROVE Gone(t)'
  BY DEF TokensAreGone
<1>1. unreached \subseteq unreached'
  BY ElsewhereStep, SessionCases DEF Login, Check, Refuse, Revoke, Rotate, Logout, Unreached
<1>2. t \in issued => Gone(t)
  BY <1>1 DEF TokensAreGone
<1>3. ASSUME NEW p \in Processes, Login(p) PROVE Gone(t)'
  BY <1>2, <1>3 DEF Login, Issue, NextToken
<1>4. ASSUME NEW r \in Requests, NEW p \in Processes, NEW u \in Tokens, Check(r, p, u)
      PROVE  Gone(t)'
  BY <1>2, <1>4 DEF Check, Valid, Unreached
<1>5. ASSUME NEW r \in Requests, NEW p \in Processes, NEW u \in Tokens,
             Refuse(r, p, u) \/ Logout(r, p, u)
      PROVE  Gone(t)'
  BY <1>2, <1>5 DEF Refuse, Logout, Without, Unreached
<1>6. ASSUME NEW r \in Requests, Revoke(r) PROVE Gone(t)'
  BY <1>2, <1>6 DEF Revoke, Without, Unreached
<1>7. ASSUME NEW r \in Requests, Rotate(r) PROVE Gone(t)'
  BY <1>2, <1>7 DEF Rotate, Issue, NextToken
<1>8. CASE Elsewhere
  BY <1>2, <1>8, ElsewhereStep
<1> QED
  BY <1>3, <1>4, <1>5, <1>6, <1>7, <1>8, SessionCases

\* A token that pays is gone, or was presented twice at once.
LEMMA PaidStep ==
  ASSUME SessionsTypeOK, RequestsAreSound, TokensAreGone, TokensArePaid, SessionStep
  PROVE  TokensArePaid'
<1> USE DEF SessionsTypeOK, RequestsAreSound
<1> SUFFICES ASSUME NEW t \in issued', t \notin unreached', t \notin shared' PROVE Paid(t)'
  BY DEF TokensArePaid
<1>1. unreached \subseteq unreached' /\ shared \subseteq shared'
  BY ElsewhereStep, SessionCases DEF Login, Check, Refuse, Revoke, Rotate, Logout, Unreached
<1>2. t \in issued => Gone(t) /\ Paid(t)
  BY <1>1 DEF TokensAreGone, TokensArePaid
<1>3. ASSUME NEW p \in Processes, Login(p) PROVE Paid(t)'
  BY <1>2, <1>3 DEF Login, Issue, NextToken, Paid, Presents
<1>4. ASSUME NEW r \in Requests, NEW p \in Processes, NEW u \in Tokens, Check(r, p, u)
      PROVE  Paid(t)'
  <2>1. t \in issued /\ Gone(t) /\ Paid(t)
    BY <1>2, <1>4 DEF Check
  <2>2. CASE u = t
    <3>1. t \in known /\ t \notin ended
      BY <1>4, <2>1, <2>2 DEF Check, Valid, Unreached, Gone
    <3>2. \A q \in Requests \ {r} : ~Presents(q, t)
      BY <1>4, <2>2, <3>1 DEF Check, Presents
    <3> QED
      BY <1>4, <2>1, <2>2, <3>1, <3>2 DEF Check, Paid, Presents
  <2>3. CASE u # t
    BY <1>4, <2>1, <2>3 DEF Check, Paid, Presents
  <2> QED
    BY <2>2, <2>3
<1>5. ASSUME NEW r \in Requests, NEW p \in Processes, NEW u \in Tokens,
             Refuse(r, p, u) \/ Logout(r, p, u)
      PROVE  Paid(t)'
  <2>1. t \in issued /\ Paid(t)
    BY <1>2, <1>5 DEF Refuse, Logout
  <2> QED
    BY <1>5, <2>1 DEF Refuse, Logout, Paid, Presents
<1>6. ASSUME NEW r \in Requests, Revoke(r) PROVE Paid(t)'
  <2>1. t \in issued /\ Paid(t)
    BY <1>2, <1>6 DEF Revoke
  <2>2. \A q \in Requests : Presents(q, t)' <=> Presents(q, t)
    BY <1>6 DEF Revoke, Presents
  <2>3. ended \subseteq ended' /\ UNCHANGED used
    BY <1>6 DEF Revoke
  <2> QED
    BY <2>1, <2>2, <2>3 DEF Paid
<1>7. ASSUME NEW r \in Requests, Rotate(r) PROVE Paid(t)'
  <2>1. CASE t \in issued /\ token[r] = t
    <3>1. t \in ended /\ used[t] = 0
      BY <1>2, <1>7, <2>1 DEF Rotate, Paid, Presents
    <3>2. used'[t] \in {0, 1} /\ ended' = ended
      BY <1>7, <2>1, <3>1 DEF Rotate
    <3>3. \A q \in Requests : ~Presents(q, t)'
      BY <1>2, <1>7, <2>1 DEF Rotate, Paid, Presents
    <3> QED
      BY <3>1, <3>2, <3>3 DEF Paid
  <2>2. CASE t \in issued /\ token[r] # t
    <3>1. used'[t] = used[t] /\ ended' = ended
      BY <1>7, <2>2 DEF Rotate
    <3>2. \A q \in Requests : Presents(q, t)' => Presents(q, t)
      BY <1>7, <2>2 DEF Rotate, Presents
    <3> QED
      BY <1>2, <2>2, <3>1, <3>2 DEF Paid
  <2>3. CASE t \notin issued
    <3>1. t \in Tokens
      BY <1>7, <2>3 DEF Rotate, Issue
    <3>2. used'[t] = 0
      BY <1>7, <2>3, <3>1 DEF Rotate
    <3>3. \A q \in Requests : ~Presents(q, t)'
      BY <1>7, <2>3 DEF Rotate, Presents
    <3> QED
      BY <3>2, <3>3 DEF Paid
  <2> QED
    BY <2>1, <2>2, <2>3
<1>8. CASE Elsewhere
  <2>1. \A q \in Requests : Presents(q, t)' => Presents(q, t)
    BY <1>8, ElsewhereStep DEF Presents
  <2> QED
    BY <1>2, <1>8, <2>1, ElsewhereStep DEF Paid
<1> QED
  BY <1>3, <1>4, <1>5, <1>6, <1>7, <1>8, SessionCases

----------------------------------------------------------------------------
(* The office. *)

\* The inductive invariant: those of the three scenes.
OfficeInvariant == StartupInvariant /\ AccountsInvariant /\ SessionsInvariant

\* A scene that is not played stays as it is.
LEMMA StartupStutters == ASSUME StartupInvariant, UNCHANGED startupVars PROVE StartupInvariant'
BY DEF startupVars, StartupInvariant, StartupTypeOK, StagesAreSound, StartsAreAlone, Table
\* The accounts do not change while another scene plays.
LEMMA AccountsStutter == ASSUME AccountsInvariant, UNCHANGED accountVars PROVE AccountsInvariant'
BY DEF accountVars, AccountsInvariant, AccountsTypeOK, OwnersAreSafe, Owners
\* Nor do the sessions.
LEMMA SessionsStutter == ASSUME SessionsInvariant, UNCHANGED sessionVars PROVE SessionsInvariant'
BY DEF sessionVars, SessionsInvariant, SessionsTypeOK, RequestsAreSound, TokensAreGone,
       TokensArePaid, Gone, Paid, Presents

\* Every step preserves the inductive invariant.
LEMMA OfficeStep == ASSUME OfficeInvariant, [Next]_vars PROVE OfficeInvariant'
<1> USE DEF OfficeInvariant
<1>1. StartupStep => StartupInvariant'
  BY StartupTyping, StagesStep, StartsStep DEF StartupInvariant
<1>2. AccountStep => AccountsInvariant'
  BY AccountsTyping, OwnersStep DEF AccountsInvariant
<1>3. SessionStep => SessionsInvariant'
  BY SessionsTyping, RequestsStep, GoneStep, PaidStep DEF SessionsInvariant
<1> QED
  BY <1>1, <1>2, <1>3, StartupStutters, AccountsStutter, SessionsStutter DEF Next, vars

\* The inductive invariant holds in every reachable state.
THEOREM OfficeInvariance == Spec => []OfficeInvariant
<1>1. Init => OfficeInvariant
  BY StartupInitially, AccountsInitially, SessionsInitially DEF Init, OfficeInvariant
<1> QED
  BY <1>1, OfficeStep, PTL DEF Spec

\* The state of the three scenes is well typed.
THEOREM OfficeTyping == Spec => []TypeOK
<1>1. OfficeInvariant => TypeOK
  BY DEF OfficeInvariant, StartupInvariant, AccountsInvariant, SessionsInvariant, TypeOK
<1> QED
  BY <1>1, OfficeInvariance, PTL

\* However many workers there are and whenever they die: none serves before the
\* last migration, and those that started one after the other share one secret
\* and seeded every table once.
THEOREM StartingIsIdempotent == Spec => []StartsAreIdempotent
<1>1. OfficeInvariant => StartsAreIdempotent
  BY DEF OfficeInvariant, StartupInvariant, StagesAreSound, StartsAreAlone,
     StartsAreIdempotent, Serving
<1> QED
  BY <1>1, OfficeInvariance, PTL

\* Deletions alone never remove the last owner, unless an owner left between a
\* request's count and its delete.
THEOREM AnOwnerRemains == Spec => []OwnerRemains
<1>1. OfficeInvariant => OwnerRemains
  BY DEF OfficeInvariant, AccountsInvariant, OwnersAreSafe, OwnerRemains
<1> QED
  BY <1>1, OfficeInvariance, PTL

\* A refresh token is never accepted after its revocation was answered, and pays
\* for one successor at most unless two requests presented it at once: however
\* many requests and processes there are, for every token that was always handled
\* with Redis within reach.
THEOREM RefreshIsOneTime == Spec => []OneTimeRefresh
<1>1. OfficeInvariant => OneTimeRefresh
  <2> SUFFICES ASSUME OfficeInvariant, NEW t \in issued \ unreached
               PROVE  t \notin reused /\ (t \notin shared => used[t] <= 1)
    BY DEF OneTimeRefresh
  <2>1. t \notin reused
    BY DEF OfficeInvariant, SessionsInvariant, TokensAreGone, Gone
  <2>2. t \notin shared => used[t] \in {0, 1}
    BY DEF OfficeInvariant, SessionsInvariant, TokensArePaid, Paid
  <2> QED
    BY <2>1, <2>2
<1> QED
  BY <1>1, OfficeInvariance, PTL

=============================================================================
