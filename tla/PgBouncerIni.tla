---------------------------- MODULE PgBouncerIni ----------------------------
(***************************************************************************)
(* The shared pgbouncer.ini line by line.  PgBouncerSync has the file as a *)
(* record of what PgBouncer reads in it; the code has a text, which it     *)
(* splits into lines, and decides line by line which to keep.  Here the    *)
(* text goes along with the record, through every step of PgBouncerSync:   *)
(* rebuilds that overlap, torn files, failing writes, restarts.            *)
(*                                                                         *)
(* A file is the sequence of its sections, the first being what stands     *)
(* above all headers; a section has a value for each key that is set in    *)
(* it.  Comments and blank lines are left out.                             *)
(***************************************************************************)
EXTENDS PgBouncerSync, Sequences

VARIABLES
    file,    \* shared/pgbouncer.ini
    drafts,  \* the text each rebuild is about to write, and which one it is
    author   \* the rebuild that has written the file last (history)

lineVars == <<file, drafts, author>>
iniVars == <<vars, lineVars>>

\* configKeys of rebuildPgBouncerSection.
PoolKeys == {"pool_mode", "default_pool_size", "max_client_conn"}

\* auth_type stands for the settings that no rebuild touches.
Keys == Dbs \cup {Star} \cup PoolKeys \cup {"auth_type"}

Absent == "absent"
Host == "host=db port=5432"

ASSUME LineAssumption == /\ {Absent, Host, "hba"} \cap Pools = {}
                         /\ Star \notin PoolKeys \cup {"auth_type"}

Authors == {"nobody", "base", "databases", "settings"}

Section == [name : {"top", "databases", "pgbouncer"},
            entries : [Keys -> Pools \cup {Absent, Host, "hba"}]]

NoLines == [k \in Keys |-> Absent]

\* strings.Split of an empty text: one line, above all headers.
EmptyFile == <<[name |-> "top", entries |-> NoLines]>>

BaseFile ==
    <<[name |-> "top", entries |-> NoLines],
      [name |-> "databases",
       entries |-> [k \in Keys |-> IF k = Star THEN Host ELSE Absent]],
      [name |-> "pgbouncer",
       entries |-> [k \in Keys |-> CASE k \in PoolKeys -> BasePool
                                     [] k = "auth_type" -> "hba"
                                     [] OTHER -> Absent]]>>

NoDraft == [text |-> EmptyFile, by |-> "nobody"]

LineTypeOK ==
    /\ file \in Seq(Section)
    /\ drafts \in [Workers -> [text : Seq(Section), by : Authors]]
    /\ author \in Authors

-----------------------------------------------------------------------------
(* The two rebuilds of the text *)

DatabasesSection(D) ==
    [name |-> "databases", entries |-> [k \in Keys |-> IF k \in D THEN Host ELSE Absent]]

\* Mutant of ReplaceDatabases: the section begins anew and never ends.
ReplaceToTheEnd(f, D) ==
    IF \E i \in DOMAIN f : f[i].name = "databases"
    THEN <<f[1], DatabasesSection(D)>>
    ELSE Append(f, DatabasesSection(D))

\* Mutant of ReplaceDatabases: a database that has a line keeps it.
MergeDatabases(f, D) ==
    LET Merged(s) == [name |-> "databases",
                      entries |-> [k \in Keys |-> IF k \notin D THEN Absent
                                                  ELSE IF s.entries[k] # Absent THEN s.entries[k]
                                                  ELSE Host]]
        g == [i \in DOMAIN f |-> IF f[i].name = "databases" THEN Merged(f[i]) ELSE f[i]]
    IN  IF \E i \in DOMAIN f : f[i].name = "databases" THEN g
        ELSE Append(g, DatabasesSection(D))

\* The loop drops the lines from the header [databases] to the next header and
\* puts the new section there, or at the end if there was no such header.
ReplaceDatabases(f, D) ==
    LET g == [i \in DOMAIN f |-> IF f[i].name = "databases" THEN DatabasesSection(D) ELSE f[i]]
    IN  IF \E i \in DOMAIN f : f[i].name = "databases" THEN g
        ELSE Append(g, DatabasesSection(D))

\* The keys that have a line somewhere.
Found(f) == {k \in PoolKeys : \E i \in DOMAIN f : f[i].entries[k] # Absent}

\* The loop looks at the key of a line and not at the section it is in; a key
\* without a line is set at the end of the file.
ReplaceSettings(f, p) ==
    [i \in DOMAIN f |->
       [name |-> f[i].name,
        entries |-> [k \in Keys |->
           IF /\ k \in PoolKeys
              /\ f[i].entries[k] # Absent \/ (i = Len(f) /\ k \notin Found(f))
           THEN p ELSE f[i].entries[k]]]]

-----------------------------------------------------------------------------
(* The text follows the steps of PgBouncerSync *)

\* Without a file there is nothing to rebuild.
Drafts(w, text, by) ==
    /\ drafts' = IF ini = None THEN drafts
                 ELSE [drafts EXCEPT ![w] = [text |-> text, by |-> by]]
    /\ UNCHANGED <<file, author>>

\* A failing write leaves the truncated file.
Writes(w) ==
    /\ IF budget' = budget THEN file' = drafts[w].text /\ author' = drafts[w].by
                           ELSE UNCHANGED <<file, author>>
    /\ drafts' = [drafts EXCEPT ![w] = NoDraft]

\* The steps that touch neither the file nor a draft.
Elsewhere(w) ==
    \/ w \in Handlers /\ Begin(w)
    \/ InsertRow(w) \/ DeleteRow(w) \/ RecreateDatabase(w) \/ QueryAcl(w) \/ TruncateHba(w) \/ WriteHba(w)
    \/ QueryDbs(w) \/ QueryPool(w) \/ ReloadPgBouncer(w)

IniNext ==
    \/ \E w \in Workers :
         \/ ReadIni(w) /\ Drafts(w, ReplaceDatabases(file, work[w].dbs), "databases")
         \/ ReadSection(w) /\ Drafts(w, ReplaceSettings(file, work[w].pool), "settings")
         \/ TruncateIni(w) /\ file' = EmptyFile /\ author' = "nobody" /\ UNCHANGED drafts
         \/ WriteIni(w) /\ Writes(w)
         \/ Elsewhere(w) /\ UNCHANGED lineVars
    \/ (Tick \/ StopPgBouncer \/ LaunchPgBouncer) /\ UNCHANGED lineVars
    \/ (\E a \in Acls : ManagedUsersChange(a)) /\ UNCHANGED lineVars
    \/ CopyBaseIni /\ file' = BaseFile /\ author' = "base" /\ UNCHANGED drafts
    \/ RestartApp /\ drafts' = [w \in Workers |-> NoDraft] /\ UNCHANGED <<file, author>>

IniInit ==
    /\ Init
    /\ file = IF Boot THEN BaseFile ELSE EmptyFile
    /\ author = IF Boot THEN "base" ELSE "nobody"
    /\ drafts = [w \in Workers |-> NoDraft]

IniSpec == IniInit /\ [][IniNext]_iniVars

-----------------------------------------------------------------------------
(* Properties *)

\* The databases PgBouncer can connect to by the text f.
Readable(f) ==
    {k \in Keys : \E i \in DOMAIN f : f[i].name = "databases" /\ f[i].entries[k] = Host}

\* The text f gives PgBouncer what the record r says, except databases that are
\* named like a pool setting.
Says(f, r) ==
    /\ Readable(f) \subseteq r.dbs
    /\ r.dbs \ Readable(f) \subseteq PoolKeys
    /\ r.rest <=> \E i \in DOMAIN f : f[i].name = "pgbouncer" /\ f[i].entries["auth_type"] = "hba"
    /\ \A i \in DOMAIN f : f[i].name = "pgbouncer" =>
         \A k \in PoolKeys : f[i].entries[k] = r.pool

\* The record of PgBouncerSync is what the text says, and so is what a rebuild
\* is about to write: the two loops over the lines neither lose a line of the
\* [pgbouncer] section nor leave a closed database behind, whatever they find.
TextSaysRecord ==
    /\ ini # None => Says(file, ini)
    /\ \A w \in Workers :
         work[w].pc \in {"truncate_ini", "write_ini"} => Says(drafts[w].text, work[w].ini)

\* An open database that the text does not let PgBouncer connect to has the name
\* of a pool setting, and a save of the pool settings has written the file last:
\* the next rebuild of the databases brings its line back.
OverwrittenBySave ==
    ini # None /\ Readable(file) # ini.dbs =>
        author = "settings" /\ ini.dbs \cap PoolKeys # {}
=============================================================================
