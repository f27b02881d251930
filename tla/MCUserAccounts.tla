--------------------------- MODULE MCUserAccounts ---------------------------
(* Instances of UserAccounts for TLC. *)
EXTENDS UserAccounts, TLC

Symmetry == Permutations(Emails) \cup Permutations(Passwords)
                \cup Permutations(Raws) \cup Permutations(Requests)

\* Bound: a behaviour has wrong passwords and one token, or any tokens and mails.
LoginsOrMails ==
    wrong > 0 => /\ resends = 0
                 /\ Len(issues) + Cardinality({r \in Requests : req[r].phase = "issue"}) <= 1
=============================================================================
