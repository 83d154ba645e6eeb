---------------------------- MODULE SimCampaign ----------------------------
(***************************************************************************)
(* Phishing simulations (services/gophish_client.py): a campaign stamps the *)
(* sending profile GoPhish keeps with a signed token, has GoPhish send one  *)
(* mail per target of the roster (services/roster.py), and then writes each *)
(* target into the simulation registry (framework/sim_registry.py).  Mail   *)
(* protection spares a mail that carries a valid token and is registered.   *)
(*                                                                         *)
(* GoPhish and its mail server are external.  The registered fingerprint    *)
(* is that of the template, never of the mail rendered from it, and an      *)
(* entry outlives every token (14 days to 7), so what decides is the token  *)
(* and the entry for the recipient and subject.                             *)
(***************************************************************************)
EXTENDS Integers, FiniteSets, Faults

CONSTANTS
  Workers,    \* processes that launch campaigns: requests and the scheduler
  Secrets,    \* signing secrets in use (security.py, load_auth_secret)
  SecretOf,   \* worker -> its signing secret
  People,     \* mailboxes of the employees
  Campaigns,
  LauncherOf  \* campaign -> the worker that launches it

ASSUME CampaignAssumption ==
  LauncherOf \in [Campaigns -> Workers] /\ SecretOf \in [Workers -> Secrets]

VARIABLES
  profile,    \* signing secret -> its header in the sending profile:
              \* "none", "fresh" or "stale"
  stage,      \* campaign -> "idle", "stamping", "posting", "registering",
              \* "over" or "failed" (before anything was sent)
  targets,    \* campaign -> whom it was launched against
  plain,      \* campaign -> its subject survives sanitising and rendering
  tokens,     \* campaign -> secrets with a valid token in its mail
  todoReg,    \* campaign -> targets not registered yet
  registry,   \* rows of sim_registry: <<campaign, recipient>>
  trouble     \* history: campaign -> what went wrong with it

simVars == <<profile, stage, targets, plain, tokens,
             todoReg, registry, trouble>>

SimInit ==
  /\ \E h \in {"none", "stale"} : profile = [s \in Secrets |-> h]
  /\ stage   = [c \in Campaigns |-> "idle"]
  /\ targets = [c \in Campaigns |-> {}]
  /\ plain   = [c \in Campaigns |-> FALSE]
  /\ tokens  = [c \in Campaigns |-> {}]
  /\ todoReg = [c \in Campaigns |-> {}]
  /\ registry = {}
  /\ trouble = [c \in Campaigns |-> {}]

Fresh == {s \in Secrets : profile[s] = "fresh"}

\* A request or the daily job launches it against the roster, a department or
\* a sample of it, or the employees of an uploaded file.
Launch(c) ==
  /\ stage[c] = "idle"
  /\ \E people \in SUBSET People \ {{}} : targets' = [targets EXCEPT ![c] = people]
  /\ \E b \in BOOLEAN : plain' = [plain EXCEPT ![c] = b]   \* the lure the LLM writes
  /\ stage' = [stage EXCEPT ![c] = "stamping"]
  /\ UNCHANGED <<profile, tokens, todoReg, registry, trouble, faults>>

\* Mutation: a header that is there already is kept as it is.
StampedOnce(s) == [profile EXCEPT ![s] = IF @ = "none" THEN "fresh" ELSE @]
\* The header of this worker is replaced, those under other names are kept.
Stamped(s) == [profile EXCEPT ![s] = "fresh"]

\* ensure_sending_profile.  The update of an existing profile may fail without
\* consequence; a failure to create it fails the launch.
Stamp(c) ==
  /\ stage[c] = "stamping"
  /\ \/ /\ profile' = Stamped(SecretOf[LauncherOf[c]])
        /\ stage' = [stage EXCEPT ![c] = "posting"]
        /\ UNCHANGED <<trouble, faults>>
     \/ /\ Fault
        /\ UNCHANGED profile
        /\ trouble' = [trouble EXCEPT ![c] = @ \cup {"unstamped"}]
        /\ stage' = [stage EXCEPT ![c] =
                       IF \E s \in Secrets : profile[s] # "none" THEN "posting" ELSE "failed"]
  /\ UNCHANGED <<targets, plain, tokens, todoReg,
                 registry>>

\* campaigns.post: from here on GoPhish sends, with the headers the profile has.
Post(c) ==
  /\ stage[c] = "posting"
  /\ \/ /\ tokens'  = [tokens EXCEPT ![c] = Fresh]
        /\ todoReg' = [todoReg EXCEPT ![c] = targets[c]]
        /\ stage'   = [stage EXCEPT ![c] = "registering"]
        /\ UNCHANGED faults
     \/ /\ Fault
        /\ stage' = [stage EXCEPT ![c] = "failed"]
        /\ UNCHANGED <<tokens, todoReg>>
  /\ UNCHANGED <<profile, targets, plain, registry,
                 trouble>>

\* register_simulation, one connection and commit per target; its failure is
\* logged and the next target is tried.
Register(c) ==
  \E b \in todoReg[c] :
    /\ todoReg' = [todoReg EXCEPT ![c] = @ \ {b}]
    /\ stage' = [stage EXCEPT ![c] = IF todoReg[c] = {b} THEN "over" ELSE @]
    /\ \/ registry' = registry \cup {<<c, b>>} /\ UNCHANGED <<trouble, faults>>
       \/ /\ Fault
          /\ trouble' = [trouble EXCEPT ![c] = @ \cup {"unregistered"}]
          /\ UNCHANGED registry
    /\ UNCHANGED <<profile, targets, plain, tokens>>

\* Seven days without a launch: no token made so far is accepted any more.
Age ==
  /\ Fault /\ Fresh # {}
  /\ profile' = [s \in Secrets |-> IF profile[s] = "none" THEN "none" ELSE "stale"]
  /\ tokens'  = [c \in Campaigns |-> {}]
  /\ trouble' = [c \in Campaigns |-> IF stage[c] \in {"idle", "stamping"}
                                     THEN trouble[c] ELSE trouble[c] \cup {"aged"}]
  /\ UNCHANGED <<stage, targets, plain, todoReg, registry>>

\* The launching worker dies between two calls.
Abandon(c) ==
  /\ stage[c] \in {"stamping", "posting", "registering"} /\ Fault
  /\ stage' = [stage EXCEPT ![c] = IF @ = "registering" THEN "over" ELSE "failed"]
  /\ todoReg' = [todoReg EXCEPT ![c] = {}]
  /\ trouble' = [trouble EXCEPT ![c] = @ \cup
                   IF todoReg[c] # {} THEN {"unregistered"} ELSE {}]
  /\ UNCHANGED <<profile, targets, plain, tokens,
                 registry>>

Launching ==
  \E c \in Campaigns : Launch(c) \/ Stamp(c) \/ Post(c) \/ Register(c) \/ Abandon(c)

SimStep == Age \/ Launching

Sent(c, b) == stage[c] \in {"registering", "over"} /\ b \in targets[c]

----------------------------------------------------------------------------
(* How the pollers recognise a simulation. *)

\* is_simulation: the registered subject against the rendered one.
IsSimulation(c, b) == plain[c] /\ <<c, b>> \in registry

\* The header named after the own secret, with a token signed by it.
Spared(w, c, b) == SecretOf[w] \in tokens[c] /\ IsSimulation(c, b)

=============================================================================
