------------------------------ MODULE MCOffice ------------------------------
(* Two workers, three accounts, three requests that share three tokens.     *)
EXTENDS Office, TLC

CONSTANTS w1, w2, r1, r2, r3

MCSeeds == <<"policies", "playbooks">>
MCSecretOf == [w \in {w1, w2} |-> "table"]
\* Workers are interchangeable, and so are requests.
MCSymmetry == Permutations({w1, w2}) \cup Permutations({r1, r2, r3})

=============================================================================
