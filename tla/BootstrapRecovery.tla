-------------------------- MODULE BootstrapRecovery --------------------------
(* The start of the desktop application over data that may be damaged: the     *)
(* completion of pending resets, the completion of pending database repairs,   *)
(* the check of settings.db, and the repair and the reset that the user may    *)
(* choose when the check fails (storage/bootstrap-recovery.ts, and             *)
(* apps/desktop/src/main/index.ts, which calls it).                            *)
(*                                                                             *)
(* Every rename, and every commit to a database being rebuilt, is a step; the  *)
(* process may die before any of them, and any of them may throw.  The shared  *)
(* memory file of a database travels with its write-ahead log and is left out. *)
EXTENDS Naturals

CONSTANTS Repairs,       \* names of repair directories, each used once
          Resets,        \* names of reset transactions, each used once
          None,
          MaxCrashes,    \* bound: deaths of the process
          MaxThrows,     \* bound: steps that throw
          MaxDamages     \* bound: how often the database is damaged

ASSUME NamesAssumption == None \notin Repairs \cup Nat /\ Repairs \cap Nat = {}
ASSUME BoundsAssumption == {MaxCrashes, MaxThrows, MaxDamages} \subseteq Nat

VARIABLES db,        \* settings.db: None or a database
          wal,       \* the id of the database that settings.db-wal belongs to
          repair,    \* [Repairs -> directory]
          home,      \* [Dirs -> the epoch in which the directory was created, or None]
          reset,     \* [Resets -> "none", "pending" or "done"]
          epoch,     \* finished resets
          saved,     \* ids of the databases that lie in the backup of a reset
          used,      \* ids of the databases that the Host has opened
          phase,     \* what the process does
          at,        \* how far the repair is
          current,   \* the repair directory at work
          todo,      \* pending repairs not looked at yet in this start
          issue,     \* the kind of the fatal issue
          crashes, throws, damages

data == <<db, wal, repair>>
resets == <<home, reset, epoch, saved>>
work == <<at, current, todo>>
bounds == <<crashes, throws, damages>>
vars == <<data, resets, used, phase, work, issue, bounds>>

Dirs == {"system", "characters", "companions"}
Ids == Repairs \cup Nat
(* form: how far a new database is; rows: the user's rows can be read from it;   *)
(* health: whether the integrity check, and then the check of its rows, accepts. *)
Databases == [id : Ids, form : {"empty", "schema", "final"}, rows : BOOLEAN,
              health : {"ok", "rows", "pages"}]
Directories == [name : {"none", "repair", "corrupt", "moved"},
                next : Databases \cup {None}, db : Databases \cup {None}, wal : Ids \cup {None}]
ASSUME NoneAssumption == None \notin Databases
NoDirectory == [name |-> "none", next |-> None, db |-> None, wal |-> None]
Fresh == [id |-> epoch, form |-> "final", rows |-> FALSE, health |-> "ok"]

Init == /\ epoch = 0
        /\ db = [Fresh EXCEPT !.rows = TRUE] /\ wal = None
        /\ repair = [i \in Repairs |-> NoDirectory]
        /\ home = [d \in Dirs |-> 0] /\ reset = [t \in Resets |-> "none"]
        /\ saved = {} /\ used = {0}
        /\ phase = "off" /\ at = "none" /\ current = None /\ todo = {} /\ issue = "none"
        /\ crashes = 0 /\ throws = 0 /\ damages = 0

(* existsSync and databaseIntegrity: a database without tables is accepted. *)
Sound(file) == file # None /\ file.health # "pages"

-----------------------------------------------------------------------------
(* Resets *)

Resetting == phase \in {"resets", "resetting"}
Pending == {t \in Resets : reset[t] = "pending"}
(* PRODUCT_DIRECTORIES, in the order in which they are moved *)
Order == <<"system", "characters", "companions">>
NextDirectory(d) == \E n \in 1..3 : /\ d = Order[n] /\ home[d] # None
                                    /\ \A k \in 1..3 : k < n => home[Order[k]] = None

DatabasesOf(i) == {file.id : file \in {repair[i].next, repair[i].db} \ {None}}

(* The directory becomes part of the backup, a second one of its name as a failed attempt. *)
ResetMoves(t, d) ==
    /\ Resetting /\ t \in Pending /\ NextDirectory(d)
    /\ home' = [home EXCEPT ![d] = None]
    /\ IF d = "system"
       THEN /\ db' = None /\ wal' = None
            /\ repair' = [i \in Repairs |-> IF repair[i].name = "none" THEN NoDirectory
                                            ELSE [NoDirectory EXCEPT !.name = "moved"]]
            /\ saved' = saved \cup (UNION {DatabasesOf(i) : i \in Repairs})
                              \cup {file.id : file \in {db} \ {None}}
       ELSE UNCHANGED <<data, saved>>
    /\ UNCHANGED <<reset, epoch, used, phase, work, issue, bounds>>

(* Seeded fault: the transaction is closed after its first directory. *)
ResetFinishesEarly(t) ==
    /\ Resetting /\ t \in Pending /\ home["system"] = None
    /\ reset' = [reset EXCEPT ![t] = "done"]
    /\ epoch' = epoch + 1
    /\ UNCHANGED <<data, home, saved, used, phase, work, issue, bounds>>

(* Seeded fault: the transaction keeps its name. *)
ResetFinishesUnnamed(t) ==
    /\ Resetting /\ t \in Pending /\ \A d \in Dirs : home[d] = None
    /\ UNCHANGED vars

ResetFinishes(t) ==
    /\ Resetting /\ t \in Pending /\ \A d \in Dirs : home[d] = None
    /\ reset' = [reset EXCEPT ![t] = "done"]
    /\ epoch' = epoch + 1
    /\ UNCHANGED <<data, home, saved, used, phase, work, issue, bounds>>

(* ensureSystemDirectories creates what is missing. *)
MakeDirectories == home' = [d \in Dirs |-> IF home[d] = None THEN epoch ELSE home[d]]

(* At the start the repairs follow; the reset the user asked for ends with a relaunch. *)
ResetsEnd == /\ Resetting /\ Pending = {}
             /\ IF phase = "resets"
                THEN /\ phase' = "repairs" /\ at' = "pick"
                     /\ MakeDirectories
                     /\ todo' = {i \in Repairs : repair[i].name = "repair"}
                ELSE phase' = "off" /\ UNCHANGED <<home, at, todo>>
             /\ UNCHANGED <<data, reset, epoch, saved, used, current, issue, bounds>>

-----------------------------------------------------------------------------
(* Repairs: the renames that a repair and the completion of a repair share *)

Repairing == phase \in {"repairs", "repairing"}
DirectoryIs(changed) == repair' = [repair EXCEPT ![current] = changed]

(* moveDatabaseAside *)
DatabaseAside == /\ Repairing /\ at = "aside"
                 /\ IF db = None THEN UNCHANGED <<db, repair>>
                    ELSE db' = None /\ DirectoryIs([repair[current] EXCEPT !.db = db])
                 /\ at' = "asideLog"
                 /\ UNCHANGED <<wal, resets, used, phase, current, todo, issue, bounds>>

(* Seeded fault: the log stays at its place. *)
LogStays == /\ Repairing /\ at = "asideLog"
            /\ at' = "install"
            /\ UNCHANGED <<data, resets, used, phase, current, todo, issue, bounds>>

LogAside == /\ Repairing /\ at = "asideLog"
            /\ IF wal = None THEN UNCHANGED <<wal, repair>>
               ELSE wal' = None /\ DirectoryIs([repair[current] EXCEPT !.wal = wal])
            /\ at' = "install"
            /\ UNCHANGED <<db, resets, used, phase, current, todo, issue, bounds>>

Install == /\ Repairing /\ at = "install"
           /\ db' = repair[current].next
           /\ DirectoryIs([repair[current] EXCEPT !.next = None])
           /\ at' = "archive"
           /\ UNCHANGED <<wal, resets, used, phase, current, todo, issue, bounds>>

RepairIsOver == /\ current' = None
                /\ IF phase = "repairs"
                   THEN at' = "pick" /\ todo' = todo \ {current} /\ UNCHANGED phase
                   ELSE at' = "none" /\ phase' = "off" /\ UNCHANGED todo

(* Seeded fault: the directory is removed instead of renamed. *)
ArchiveRemoves == /\ Repairing /\ at = "archive"
                  /\ DirectoryIs([NoDirectory EXCEPT !.name = "corrupt"])
                  /\ RepairIsOver
                  /\ UNCHANGED <<db, wal, resets, used, issue, bounds>>

(* .repair- becomes .corrupt- *)
Archive == /\ Repairing /\ at = "archive"
           /\ DirectoryIs([repair[current] EXCEPT !.name = "corrupt"])
           /\ RepairIsOver
           /\ UNCHANGED <<db, wal, resets, used, issue, bounds>>

(***************************************************************************)
(* recoverPendingDatabaseRepairs looks at the directories in any order: a  *)
(* new database replaces a target that is missing or unsound; a directory  *)
(* beside a sound target is closed.                                        *)
(***************************************************************************)
Look(i) == /\ phase = "repairs" /\ at = "pick" /\ i \in todo
           /\ IF Sound(db) THEN current' = i /\ at' = "archive" /\ UNCHANGED todo
              ELSE IF Sound(repair[i].next) THEN current' = i /\ at' = "aside" /\ UNCHANGED todo
              ELSE todo' = todo \ {i} /\ UNCHANGED <<current, at>>
           /\ UNCHANGED <<data, resets, used, phase, issue, bounds>>

-----------------------------------------------------------------------------
(* createRecoveredDatabase *)

(* The user asks for the repair; the repair directory is made. *)
Repair(i) == /\ phase = "fatal" /\ issue = "database" /\ repair[i].name = "none"
             /\ phase' = "repairing" /\ at' = "create" /\ current' = i
             /\ MakeDirectories
             /\ repair' = [repair EXCEPT ![i].name = "repair"]
             /\ UNCHANGED <<db, wal, reset, epoch, saved, used, todo, issue, bounds>>

NextIs(form, rows) == DirectoryIs([repair[current] EXCEPT !.next =
                         [id |-> current, form |-> form, rows |-> rows, health |-> "ok"]])
Builds(from, to) == /\ phase = "repairing" /\ at = from /\ at' = to
                    /\ UNCHANGED <<db, wal, resets, used, phase, current, todo, issue>>

CreateNext == Builds("create", "schema") /\ NextIs("empty", FALSE) /\ UNCHANGED bounds

CommitSchema == Builds("schema", "migrate") /\ NextIs("schema", FALSE) /\ UNCHANGED bounds

(* Every row that can be read and fits is copied; then the new database is checked. *)
Migrate == /\ Builds("migrate", "aside")
           /\ NextIs("final", db # None /\ db.rows)
           /\ UNCHANGED bounds

Throwing == throws < MaxThrows /\ throws' = throws + 1 /\ UNCHANGED <<crashes, damages>>

(* The transaction of the rows fails and is rolled back; the repair goes on. *)
MigrateNothing == Builds("migrate", "aside") /\ NextIs("final", FALSE) /\ Throwing

-----------------------------------------------------------------------------
(* The start, the Host and the user *)

Boot == /\ phase = "off"
        /\ phase' = "resets" /\ issue' = "none"
        /\ UNCHANGED <<data, resets, used, work, bounds>>

Refused == db # None /\ db.health # "ok"

(* inspectBootstrapHealth accepts settings.db, and the Host opens it. *)
Opens == /\ phase = "repairs" /\ at = "pick" /\ todo = {}
         /\ ~Refused
         /\ db' = CASE db = None -> Fresh
                    [] db # None /\ db.form = "empty" -> [db EXCEPT !.form = "schema"]
                    [] OTHER -> db
         /\ wal' = IF wal = None THEN db'.id ELSE wal
         /\ used' = used \cup {db'.id}
         /\ phase' = "open" /\ at' = "none"
         /\ UNCHANGED <<repair, resets, current, todo, issue, bounds>>

(* Checking has opened and closed the database, which may have emptied its log. *)
Refuses == /\ phase = "repairs" /\ at = "pick" /\ todo = {}
           /\ Refused
           /\ wal' \in {wal, None}
           /\ phase' = "fatal" /\ issue' = "database" /\ at' = "none"
           /\ UNCHANGED <<db, repair, resets, used, current, todo, bounds>>

(* The user's work *)
Use == /\ phase = "open" /\ ~db.rows
       /\ db' = [db EXCEPT !.rows = TRUE]
       /\ UNCHANGED <<wal, repair, resets, used, phase, work, issue, bounds>>

Close == /\ phase = "open"
         /\ wal' = None
         /\ phase' = "off"
         /\ UNCHANGED <<db, repair, resets, used, work, issue, bounds>>

(* A row that the start reads, or a page, becomes unreadable. *)
Damage == /\ phase = "open" /\ damages < MaxDamages
          /\ \/ db' = [db EXCEPT !.health = "rows"]
             \/ \E readable \in {db.rows, FALSE} :
                   db' = [db EXCEPT !.health = "pages", !.rows = readable]
          /\ phase' = "off"
          /\ wal' \in {wal, None}
          /\ damages' = damages + 1
          /\ UNCHANGED <<repair, resets, used, work, issue, crashes, throws>>

Reset(t) == /\ phase = "fatal" /\ reset[t] = "none"
            /\ reset' = [reset EXCEPT ![t] = "pending"]
            /\ phase' = "resetting"
            /\ UNCHANGED <<data, home, epoch, saved, used, work, issue, bounds>>

Exit == /\ phase = "fatal"
        /\ phase' = "off"
        /\ UNCHANGED <<data, resets, used, work, issue, bounds>>

(* Whatever throws leads back to the choice of the user, in the same process. *)
Throws == /\ Resetting \/ Repairing
          /\ Throwing
          /\ phase' = "fatal"
          /\ issue' = IF phase \in {"resets", "repairs"} THEN "filesystem" ELSE issue
          /\ at' = "none" /\ current' = None /\ todo' = {}
          /\ UNCHANGED <<data, resets, used>>

(* The process dies; a commit that it cuts off leaves a journal, with which the *)
(* database is not accepted.                                                    *)
Crash == /\ phase # "off" /\ crashes < MaxCrashes
         /\ crashes' = crashes + 1
         /\ phase' = "off"
         /\ at' = "none" /\ current' = None /\ todo' = {}
         /\ \/ UNCHANGED repair
            \/ /\ at \in {"schema", "migrate"}
               /\ DirectoryIs([repair[current] EXCEPT !.next.health = "pages"])
         /\ UNCHANGED <<db, wal, resets, used, issue, throws, damages>>

ResetStep == (\E t \in Resets : ResetFinishes(t) \/ \E d \in Dirs : ResetMoves(t, d)) \/ ResetsEnd
RepairStep == \/ DatabaseAside \/ LogAside \/ Install \/ Archive
              \/ \E i \in Repairs : Look(i)
              \/ CreateNext \/ CommitSchema \/ Migrate
StartStep == Boot \/ Opens \/ Refuses
Choice == (\E i \in Repairs : Repair(i)) \/ (\E t \in Resets : Reset(t))

Next == \/ ResetStep \/ RepairStep \/ StartStep \/ Choice
        \/ MigrateNothing \/ Use \/ Close \/ Damage \/ Exit \/ Throws \/ Crash

Spec == Init /\ [][Next]_vars

(* The process runs on, and a user who is asked again and again at last takes *)
(* one of the two ways out instead of leaving.                                *)
Fairness == WF_vars(ResetStep) /\ WF_vars(RepairStep) /\ WF_vars(StartStep) /\ SF_vars(Choice)
FairSpec == Spec /\ Fairness

-----------------------------------------------------------------------------
(* Properties *)

(* Every variable keeps its type: the layout of the data root, the transactions *)
(* and the position of the start (bootstrap-recovery.ts).                       *)
TypeOK == /\ db \in Databases \cup {None} /\ wal \in Ids \cup {None}
          /\ repair \in [Repairs -> Directories]
          /\ \A i \in Repairs : repair[i].name = "none" => repair[i] = NoDirectory
          /\ home \in [Dirs -> Nat \cup {None}]
          /\ reset \in [Resets -> {"none", "pending", "done"}]
          /\ epoch \in Nat /\ saved \subseteq Ids /\ used \subseteq Ids
          /\ phase \in {"off", "resets", "resetting", "repairs", "repairing", "fatal", "open"}
          /\ at \in {"none", "pick", "create", "schema", "migrate", "aside", "asideLog",
                     "install", "archive"}
          /\ current \in Repairs \cup {None} /\ todo \subseteq Repairs
          /\ issue \in {"none", "database", "filesystem"}
          /\ crashes \in 0..MaxCrashes /\ throws \in 0..MaxThrows /\ damages \in 0..MaxDamages

(* A write-ahead log never lies beside a database it does not belong to: SQLite  *)
(* would be asked to replay it (moveDatabaseAside before the rename of new.db).  *)
LogBesideItsDatabase == db # None /\ wal # None => wal = db.id

(* Whatever database the Host has ever opened is still there, at its place or in *)
(* a directory that keeps it for the user: no sequence of interrupted repairs    *)
(* and resets removes or overwrites one (the renames of bootstrap-recovery.ts).  *)
OriginalsKept == \A id \in used : \/ db # None /\ db.id = id
                                  \/ \E i \in Repairs : id \in DatabasesOf(i)
                                  \/ id \in saved

(* The Host never opens a mixture: when it is open no reset is half-way, and     *)
(* every product directory was created after the last reset that was finished.   *)
ResetTakesAll == phase = "open" => Pending = {} /\ \A d \in Dirs : home[d] = epoch

(* A start that was refused leads to an open Host, provided the user keeps       *)
(* choosing and the faults end (the recovery loop of index.ts).                  *)
Recovers == phase = "fatal" ~> phase = "open"
==============================================================================
