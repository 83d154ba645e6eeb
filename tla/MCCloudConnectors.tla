------------------------ MODULE MCCloudConnectors ------------------------
(* Two workers on two hosts, one Gmail mailbox, a threat, a mail that       *)
(* cannot be stored and one simulation.                                     *)
EXTENDS CloudConnectors

CONSTANTS p1, p2

MCHostOf == [p \in {p1, p2} |-> p]
MCBoxOf == [m \in {1, 2, 3} |-> "alice"]
MCLauncherOf == [c \in {"drill"} |-> p1]
MCSecretOf == [p \in {p1, p2} |-> IF p = p1 THEN "s1" ELSE "s2"]
MCCampaignOf == [m \in {1, 2, 3} |-> IF m = 3 THEN "drill" ELSE None]

=============================================================================
