------------------------------- MODULE Office -------------------------------
(***************************************************************************)
(* Starting workers, managing accounts and keeping sessions share no state  *)
(* that changes, beyond the budget of failures: a behaviour plays one of    *)
(* the three scenes, chosen at its start.                                   *)
(***************************************************************************)
EXTENDS Startup, Accounts, Sessions

VARIABLE scene   \* "startup", "accounts" or "sessions"

vars == <<scene, faults, startupVars, accountVars, sessionVars>>

Init ==
  /\ scene \in {"startup", "accounts", "sessions"}
  /\ FaultsInit /\ StartupInit /\ AccountsInit /\ SessionsInit

Next ==
  /\ UNCHANGED scene
  /\ \/ scene = "startup" /\ StartupStep /\ UNCHANGED <<accountVars, sessionVars>>
     \/ scene = "accounts" /\ AccountStep /\ UNCHANGED <<startupVars, sessionVars, faults>>
     \/ scene = "sessions" /\ SessionStep /\ UNCHANGED <<startupVars, accountVars>>

Spec == Init /\ [][Next]_vars

\* Types of the three scenes.
TypeOK == StartupTypeOK /\ AccountsTypeOK /\ SessionsTypeOK

=============================================================================
