-------------------------- MODULE PgBouncerHealing --------------------------
(***************************************************************************)
(* What a single rebuild mends.  Rebuilds overlap, fail and are killed,    *)
(* and PgBouncer is restarted with its base file, in any order; whatever   *)
(* the files then look like, one rebuild that runs from its first query    *)
(* to its reload with nothing in between is enough.  This is the step that *)
(* AccessConverges rests on, stated without fairness.                      *)
(*                                                                         *)
(* Two history variables follow the steps of PgBouncerSync; no step reads  *)
(* them.                                                                   *)
(***************************************************************************)
EXTENDS PgBouncerSync

VARIABLES
    pass,      \* what the rebuild under way will have brought up to date if
               \* nothing comes in between; "outdated" if the users changed
    settled    \* what is up to date when nothing is being rebuilt

history == <<pass, settled>>
healVars == <<vars, history>>

Parts == {"access", "pool"}

HealTypeOK == pass \in Parts \cup {"none", "outdated"} /\ settled \subseteq Parts

\* Only w may be at work.
Alone(w) == \A v \in Workers \ {w} : At(v, "idle")

\* Something comes in between: nothing is known any more.
Disturbed == pass' = "none" /\ settled' = {}

\* The requests, and the tick, that lead straight to a rebuild.
Opening(w) ==
    \/ w = Ticker /\ Tick
    \/ /\ w \in Handlers
       /\ \/ \E d \in Dbs, b \in BOOLEAN : TogglePgBouncerDatabase(w, d, b)
          \/ \E p \in Pools : UpdatePgBouncerConfig(w, p)
    \/ InsertRow(w) \/ DeleteRow(w)

\* The requests that write a row first, and restores, which run no rebuild.
Announcing(w) ==
    \/ /\ w \in Handlers
       /\ \E d \in Dbs : CreateDatabase(w, d) \/ DeleteDatabase(w, d) \/ RestoreBackup(w, d)
    \/ RecreateDatabase(w)

RebuildStep(w) ==
    \/ QueryAcl(w) \/ TruncateHba(w) \/ WriteHba(w) \/ QueryDbs(w) \/ ReadIni(w)
    \/ QueryPool(w) \/ ReadSection(w)
    \/ TruncateIni(w) \/ WriteIni(w) \/ ReloadPgBouncer(w)

Opens(w) ==
    LET part == IF work'[w].pc = "query_pool" THEN "pool" ELSE "access"
    IN  IF Alone(w) THEN pass' = part /\ settled' = settled \ {part} ELSE Disturbed

GoesOn(w) ==
    IF pass = "none" \/ budget' # budget THEN Disturbed
    ELSE IF work'[w].pc = "idle"
         THEN pass' = "none" /\ settled' = settled \cup ({pass} \cap Parts)
         ELSE UNCHANGED history

HealNext ==
    \/ \E w \in Workers :
         \/ Opening(w) /\ Opens(w)
         \/ Announcing(w) /\ IF Alone(w) THEN UNCHANGED history ELSE Disturbed
         \/ RebuildStep(w) /\ GoesOn(w)
    \/ /\ \E a \in Acls : ManagedUsersChange(a)
       /\ pass' = IF pass = "access" THEN "outdated" ELSE pass
       /\ settled' = settled \ {"access"}
    \/ (StopPgBouncer \/ LaunchPgBouncer) /\ UNCHANGED history
    \/ CopyBaseIni /\ Disturbed
    \/ RestartApp /\ pass' = "access" /\ settled' = {}

\* The app starts with a rebuild; a container that runs already has read the
\* settings of the base file, which are the stored ones.
HealInit == /\ Init
            /\ pass = "access"
            /\ settled = IF Boot THEN {"pool"} ELSE {}

HealSpec == HealInit /\ [][HealNext]_healVars

-----------------------------------------------------------------------------
(* Properties *)

\* After a rebuild of the HBA file and the databases that nothing came in
\* between, and until something does, PgBouncer runs with the allow list of the
\* users and with the allowed databases, and no others: however torn the files
\* were, whatever had been overwritten and whichever reloads had failed, unless
\* PgBouncer had lost its [pgbouncer] section and cannot be reached.
AccessHealed ==
    "access" \in settled /\ Idling /\ Reachable
        => live.hba = acl /\ live.dbs = Allowed

\* After such a save of the pool settings PgBouncer runs with them, unless it has
\* lost its [pgbouncer] section, which no rebuild writes; rebuilds of the
\* databases leave them in place.
PoolHealed ==
    "pool" \in settled /\ Idling /\ Reachable => live.pool = pool
=============================================================================
