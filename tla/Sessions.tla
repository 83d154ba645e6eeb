------------------------------ MODULE Sessions ------------------------------
(***************************************************************************)
(* Refresh tokens (framework/security.py, framework/cache.py and the auth    *)
(* handlers of api/router.py).  A token is a signed jti; Redis holds the    *)
(* jtis that may still be used, and a process without a client for Redis, or *)
(* whose call raises, takes every token with a good signature.  A process    *)
(* asks for its client once and keeps the answer.  Refreshing checks the    *)
(* jti, revokes it, reads the account again and issues the next token: four *)
(* calls, and requests of two tabs of one browser may interleave at each.   *)
(***************************************************************************)
EXTENDS Integers, FiniteSets, Faults

CONSTANTS
  Requests,   \* refresh and logout requests
  Processes,  \* worker processes
  SecretOf,   \* process -> the secret it signs with
  Tokens,     \* refresh tokens, numbered in the order they are issued
  NoToken     \* no token, no process

ASSUME SessionsAssumption == Tokens \subseteq Nat /\ NoToken \notin Tokens \cup Processes

VARIABLES
  issued,    \* tokens issued so far
  signer,    \* token -> the process that signed it
  known,     \* jtis Redis holds
  redis,     \* Redis answers
  client,    \* process -> "unasked", "connecting", "connected" or "none"
  step,      \* request -> "none", "checked", "revoked" or "over"
  token,     \* request -> the token it presents, while it is served
  server,    \* request -> the process that serves it
  enabled,   \* the account is active
  used,      \* history: token -> how many refreshes it paid for
  ended,     \* history: tokens whose revocation has been answered
  reused,    \* history: tokens accepted after that
  shared,    \* history: tokens two requests presented at once
  unreached  \* history: tokens a request handled without reaching Redis

sessionVars == <<issued, signer, known, redis, client, step, token, server, enabled,
                 used, ended, reused, shared, unreached>>

SessionsInit ==
  /\ issued = {} /\ signer = [t \in Tokens |-> NoToken]
  /\ known = {} /\ redis = TRUE /\ enabled = TRUE
  /\ step   = [r \in Requests |-> "none"]
  /\ token  = [r \in Requests |-> NoToken]
  /\ server = [r \in Requests |-> NoToken]
  /\ used   = [t \in Tokens |-> 0]
  /\ client = [p \in Processes |-> "unasked"]
  /\ ended = {} /\ reused = {} /\ shared = {} /\ unreached = {}

Accepts(p, t) == SecretOf[p] = SecretOf[signer[t]]
NextToken(t) == t \in Tokens \ issued /\ \A k \in Tokens \ issued : t <= k

\* get_redis: `_initialised` is set before the first ping, whose outcome is kept;
\* until it is known the other threads of the process see no client.
Connect(p) ==
  /\ client[p] = "unasked"
  /\ client' = [client EXCEPT ![p] = "connecting"]
  /\ UNCHANGED <<issued, signer, known, redis, step, token, server, enabled,
                 used, ended, reused, shared, unreached, faults>>
Connected(p) ==
  /\ client[p] = "connecting"
  /\ client' = [client EXCEPT ![p] = IF redis THEN "connected" ELSE "none"]
  /\ UNCHANGED <<issued, signer, known, redis, step, token, server, enabled,
                 used, ended, reused, shared, unreached, faults>>
Reaches(p) == redis /\ client[p] = "connected"
Unreached(p, t) == IF Reaches(p) THEN unreached ELSE unreached \cup {t}

\* set_auth_cookies: sign the next token, remember_refresh.
Issue(p) ==
  \E t \in Tokens :
    /\ NextToken(t)
    /\ issued' = issued \cup {t}
    /\ signer' = [signer EXCEPT ![t] = p]
    /\ known'  = IF Reaches(p) THEN known \cup {t} ELSE known

\* login (change_password issues the same way, revoking nothing).
Login(p) ==
  /\ client[p] # "unasked" /\ enabled /\ Issue(p)
  /\ UNCHANGED <<redis, client, step, token, server, enabled, used, ended, reused,
                 shared, unreached, faults>>

\* refresh_session: signature and refresh_is_valid.
Valid(p, t) == ~Reaches(p) \/ t \in known
Check(r, p, t) ==
  /\ client[p] # "unasked"
  /\ step[r] = "none" /\ t \in issued /\ Accepts(p, t) /\ Valid(p, t)
  /\ step'   = [step EXCEPT ![r] = "checked"]
  /\ server' = [server EXCEPT ![r] = p]
  /\ token'  = [token EXCEPT ![r] = t]
  /\ reused' = IF t \in ended THEN reused \cup {t} ELSE reused
  /\ shared' = IF \E q \in Requests \ {r} : token[q] = t /\ step[q] = "checked"
                 THEN shared \cup {t} ELSE shared
  /\ unreached' = Unreached(p, t)
  /\ UNCHANGED <<issued, signer, known, redis, client, enabled, used, ended, faults>>
\* A refused token, or one this process cannot verify, is answered with 401.
Refuse(r, p, t) ==
  /\ client[p] # "unasked"
  /\ step[r] = "none" /\ t \in issued /\ ~(Accepts(p, t) /\ Valid(p, t))
  /\ step' = [step EXCEPT ![r] = "over"]
  /\ UNCHANGED <<issued, signer, known, redis, client, token, server, enabled, used,
                 ended, reused, shared, unreached, faults>>

\* Mutation: the token is revoked only when its successor is stored.
StillKnown(p, t) == known
\* revoke_refresh: without a client it does nothing, a failing call is swallowed.
Without(p, t) == IF Reaches(p) THEN known \ {t} ELSE known
Revoke(r) ==
  /\ step[r] = "checked"
  /\ known'  = Without(server[r], token[r])
  /\ unreached' = Unreached(server[r], token[r])
  /\ ended'  = ended \cup {token[r]}
  /\ step' = [step EXCEPT ![r] = "revoked"]
  /\ UNCHANGED <<issued, signer, redis, client, token, server, enabled, used, reused,
                 shared, faults>>

\* The account is read again; an inactive one gets nothing.
Rotate(r) ==
  /\ step[r] = "revoked"
  /\ step'   = [step EXCEPT ![r] = "over"]
  /\ token'  = [token EXCEPT ![r] = NoToken]
  /\ server' = [server EXCEPT ![r] = NoToken]
  /\ \/ /\ enabled /\ Issue(server[r])
        /\ used' = [used EXCEPT ![token[r]] = @ + 1]
     \/ /\ ~enabled
        /\ UNCHANGED <<issued, signer, known, used>>
  /\ UNCHANGED <<redis, client, enabled, ended, reused, shared, unreached, faults>>

\* logout: decodes the cookie, revokes, and answers the same either way.
Logout(r, p, t) ==
  /\ client[p] # "unasked"
  /\ step[r] = "none" /\ t \in issued
  /\ step' = [step EXCEPT ![r] = "over"]
  /\ IF Accepts(p, t)
       THEN /\ known' = Without(p, t) /\ unreached' = Unreached(p, t)
            /\ ended' = ended \cup {t}
       ELSE UNCHANGED <<known, ended, unreached>>
  /\ UNCHANGED <<issued, signer, redis, client, token, server, enabled, used, reused,
                 shared, faults>>

SetEnabled(b) ==
  /\ enabled # b /\ Fault /\ enabled' = b
  /\ UNCHANGED <<issued, signer, known, redis, client, step, token, server, used,
                 ended, reused, shared, unreached>>
\* Redis goes, and comes back empty (docker-compose.yml: no persistence) or,
\* after a network failure, as it was.
RedisStops ==
  /\ redis /\ Fault /\ redis' = FALSE
  /\ UNCHANGED <<issued, signer, known, client, step, token, server, enabled, used,
                 ended, reused, shared, unreached>>
RedisReturns ==
  /\ ~redis /\ redis' = TRUE /\ known' \in {{}, known}
  /\ UNCHANGED <<issued, signer, client, step, token, server, enabled, used,
                 ended, reused, shared, unreached, faults>>
\* A worker is killed and its successor asks for a client anew; its requests
\* stay unanswered.
Restart(p) ==
  /\ Fault
  /\ client' = [client EXCEPT ![p] = "unasked"]
  /\ step'   = [r \in Requests |-> IF server[r] = p THEN "over" ELSE step[r]]
  /\ token'  = [r \in Requests |-> IF server[r] = p THEN NoToken ELSE token[r]]
  /\ server' = [r \in Requests |-> IF server[r] = p THEN NoToken ELSE server[r]]
  /\ UNCHANGED <<issued, signer, known, redis, enabled, used, ended, reused, shared,
                 unreached>>

SessionStep ==
  \/ \E p \in Processes : Connect(p) \/ Connected(p) \/ Login(p) \/ Restart(p)
  \/ \E r \in Requests : \/ Revoke(r) \/ Rotate(r)
                         \/ \E p \in Processes, t \in Tokens :
                              Check(r, p, t) \/ Refuse(r, p, t) \/ Logout(r, p, t)
  \/ \E b \in BOOLEAN : SetEnabled(b)
  \/ RedisStops \/ RedisReturns

----------------------------------------------------------------------------
(* Properties. *)

SessionsTypeOK ==
  /\ issued \subseteq Tokens /\ known \subseteq issued
  /\ step \in [Requests -> {"none", "checked", "revoked", "over"}]
  /\ token \in [Requests -> Tokens \cup {NoToken}]
  /\ server \in [Requests -> Processes \cup {NoToken}]
  /\ used \in [Tokens -> Nat]
  /\ redis \in BOOLEAN /\ enabled \in BOOLEAN
  /\ client \in [Processes -> {"unasked", "connecting", "connected", "none"}]
  /\ ended \subseteq issued /\ reused \subseteq ended
  /\ shared \subseteq issued /\ unreached \subseteq issued

\* A token whose refresh or logout was answered is never accepted again, and,
\* unless two requests presented it at once, it pays for one successor at most;
\* whichever processes serve the requests, for every token that each of them
\* handled with Redis within reach (security.py:228-260, router.py:941-955).
OneTimeRefresh ==
  \A t \in issued \ unreached : t \notin reused /\ (t \notin shared => used[t] <= 1)

\* security.py:228-230: a revoked token cannot be reused, backed by Redis when
\* available.  While Redis answers, no process that has asked for its client
\* accepts a token whose revocation was answered and that Redis does not hold.
RevokedIsRefused ==
  [][\A r \in Requests :
       step[r] = "none" /\ step'[r] = "checked" /\ redis /\ client[server'[r]] # "connecting" =>
         token'[r] \notin ended \ known]_sessionVars

=============================================================================
