--------------------------- MODULE MCWebAccounts ---------------------------
(* Instances of WebAccounts for TLC. *)
EXTENDS WebAccounts, TLC

CONSTANTS p1, p2, i1, i2, i3, alice, bob, h1, h2, t1, t2, d1

TwoProcs == {p1, p2}
TwoIds == {i1, i2}
ThreeIds == {i1, i2, i3}
TwoNames == {alice, bob}
OneHash == {h1}
TwoHashes == {h1, h2}
OneToken == {t1}
TwoTokens == {t1, t2}
OneDb == {d1}

\* The operations of an instance.
SetupOps == {"setup"}
AccountOps == {"setup", "login", "create", "update", "delete", "cli_delete"}
WebRoleOps == {"setup", "login", "create", "update"}
QuietOps == {"logout"} \cup PasswordOps
RoleOps == {"setup", "login"} \cup Removers \cup {"cli_create"} \cup QuietOps
SessionOps == {"setup", "login", "delete", "cli_delete"} \cup QuietOps

\* What clients keep apart.
Nothing == {}
RemoversApart == (Removers \X Removers) \cup {<<"setup", "setup">>}
                 \cup (QuietOps \X AllOps) \cup (AllOps \X QuietOps)

StatementOnly == {"stmt"}
CancelOnly == {"cancel"}

Symmetry == Permutations(Procs) \cup Permutations(Ids) \cup
            Permutations(Names) \cup Permutations(Hashes) \cup
            Permutations(Tokens) \cup Permutations(Dbs)
=============================================================================
