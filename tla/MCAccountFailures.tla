------------------------- MODULE MCAccountFailures -------------------------
(* Instances of AccountFailures for TLC.  A behaviour is about the sessions *)
(* of accounts or about their roles.                                        *)
EXTENDS AccountFailures, TLC

CONSTANTS p1, p2, i1, i2, alice, bob, h1, h2, t1, d1

TwoProcs == {p1, p2}
TwoIds == {i1, i2}
TwoNames == {alice, bob}
TwoHashes == {h1, h2}
OneToken == {t1}
OneDb == {d1}

SessionOps == {"setup", "login", "logout", "delete"} \cup PasswordOps
RoleOps == {"setup", "login", "create", "update", "cli_role"}
LeftOps == SessionOps \cup RoleOps
SetupApart == ({"setup"} \X AllOps) \cup (AllOps \X {"setup"})
AllFaults == {"cancel", "stmt"}

VARIABLE subject  \* the operations of the behaviour
mcVars == <<failVars, subject>>

\* Roles are about accounts with one hash, and sessions that go on.
Keeps ==
    /\ \A p \in Procs : req'[p].op \in subject \cup {"none"}
    /\ subject = RoleOps =>
         /\ \A i, j \in DOMAIN users' : users'[i].hash = users'[j].hash
         /\ \A t \in DOMAIN sessions' : ~ sessions'[t].expired

MCInit == FailInit /\ subject \in {SessionOps, RoleOps}
MCNext == FailNext /\ Keeps /\ UNCHANGED subject
MCSpec == MCInit /\ [][MCNext]_mcVars

Symmetry == Permutations(Procs) \cup Permutations(Ids) \cup
            Permutations(Names) \cup Permutations(Hashes)
=============================================================================
