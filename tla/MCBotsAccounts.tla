--------------------------- MODULE MCBotsAccounts ---------------------------
(* Bots and Accounts in one run.  They share nothing: a behaviour is one   *)
(* of the one or of the other.  Two of the bots' channels share a server;  *)
(* one user is the first owner and the one who signs in with codes, the    *)
(* others are alike.                                                       *)
EXTENDS Bots, Accounts, TLC

CONSTANTS k1, k2, k3, s1, s2, t1, t2, u1, u2, u3

VARIABLE part

MCChannels == {k1, k2, k3}
MCGuildOf == [x \in MCChannels |-> IF x = k3 THEN s2 ELSE s1]
MCSymmetry == Permutations({t1, t2}) \cup Permutations({k1, k2})
              \cup Permutations(Requests) \cup Permutations({u2, u3})

MCInit ==
    /\ part \in {"bots", "accounts"} /\ BotsInit /\ AccountsInit
    /\ part = "bots" \/ provider = "telegram"

MCNext ==
    \/ part = "bots" /\ BotsNext /\ UNCHANGED <<part, accountVars>>
    \/ part = "accounts" /\ AccountsNext /\ UNCHANGED <<part, botVars>>

MCSpec == MCInit /\ [][MCNext]_<<part, botVars, accountVars>>
=============================================================================
