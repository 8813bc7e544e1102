------------------------ MODULE BootstrapRecoveryProofs -----------------------
(* Proofs about BootstrapRecovery: for any number of repairs, resets, crashes, *)
(* throws and damages, no database is lost, no log meets a database that is    *)
(* not its own, and the Host never opens on half a reset.                      *)
(*                                                                             *)
(* Beside the properties, the inductive invariant says where the process may   *)
(* be and what it relies on there (Place), that a log whose database was moved *)
(* lies beside a repair that the next start will find and finish (Orphan), and *)
(* that a directory that holds an original and a new database has not yet seen *)
(* the new one installed (Held), so that no second original is moved over it.  *)
EXTENDS BootstrapRecovery, TLAPS

Building == {"create", "schema", "migrate"}
Renaming == {"aside", "asideLog", "install", "archive"}

Place == /\ phase = "repairs" => at \in Renaming \cup {"pick"}
         /\ phase = "repairing" => at \in Building \cup Renaming
         /\ phase \notin {"repairs", "repairing"} => at = "none" /\ current = None
         /\ at = "pick" => current = None
         /\ at \in Building \cup Renaming => current \in Repairs /\ repair[current].name = "repair"
         /\ todo # {} => phase = "repairs"
         /\ phase = "repairs" /\ current # None => current \in todo
         /\ \A i \in todo : repair[i].name = "repair"

Relied == /\ at \in Building => repair[current].db = None
          /\ at = "create" => repair[current].next = None
          /\ at \in {"schema",
              "migrate"} => repair[current].next # None /\ repair[current].next.id = current
          /\ at \in {"aside", "asideLog", "install"} => Sound(repair[current].next)
          /\ at = "aside" /\ db # None => repair[current].db = None
          /\ at \in {"asideLog", "install"} => db = None
          /\ at = "install" => wal = None
          /\ at = "archive" => Sound(db)
          /\ phase = "open" => db # None

Orphan == db = None /\ wal # None =>
    \E i \in Repairs : /\ repair[i].name = "repair" /\ Sound(repair[i].next)
                       /\ at \in Building => i # current
                       /\ phase = "repairs" => i \in todo

Holds(i) == repair[i].name = "repair" /\ repair[i].db # None /\ repair[i].next # None
Held == \A i \in Repairs : Holds(i) =>
           /\ Sound(repair[i].next) /\ (db = None \/ Sound(db))
           /\ phase # "open" /\ (phase = "repairs" => i \in todo)

Homes == /\ \A d \in Dirs : home[d] \in {None, epoch}
         /\ phase \in {"repairs", "open"} => Pending = {} /\ \A d \in Dirs : home[d] = epoch

IInv == /\ TypeOK /\ Place /\ Relied /\ LogBesideItsDatabase
        /\ Orphan /\ Held /\ OriginalsKept /\ Homes
-----------------------------------------------------------------------------
LEMMA DirectoryWithNext ==
    ASSUME NEW d \in Directories, NEW n \in Databases \cup {None}
    PROVE  /\ [d EXCEPT !.next = n] \in Directories
           /\ [d EXCEPT !.next = n].next = n
           /\ [d EXCEPT !.next = n].name = d.name
           /\ [d EXCEPT !.next = n].db = d.db
           /\ [d EXCEPT !.next = n].wal = d.wal
    BY DEF Directories

LEMMA DirectoryWithDatabase ==
    ASSUME NEW d \in Directories, NEW n \in Databases \cup {None}
    PROVE  /\ [d EXCEPT !.db = n] \in Directories
           /\ [d EXCEPT !.db = n].db = n
           /\ [d EXCEPT !.db = n].name = d.name
           /\ [d EXCEPT !.db = n].next = d.next
    BY DEF Directories

LEMMA DirectoryWithLog ==
    ASSUME NEW d \in Directories, NEW w \in Ids \cup {None}
    PROVE  /\ [d EXCEPT !.wal = w] \in Directories
           /\ [d EXCEPT !.wal = w].db = d.db
           /\ [d EXCEPT !.wal = w].name = d.name
           /\ [d EXCEPT !.wal = w].next = d.next
    BY DEF Directories

(* The same database, but for what changes when it is used or damaged. *)
LEMMA DatabaseChanged ==
    ASSUME NEW x \in Databases, NEW rows \in BOOLEAN, NEW health \in {"ok", "rows", "pages"},
           NEW form \in {"empty", "schema", "final"}
    PROVE  LET y == [x EXCEPT !.rows = rows]
               z == [x EXCEPT !.health = health]
               w == [x EXCEPT !.form = form]
               v == [x EXCEPT !.health = health, !.rows = rows]
           IN  /\ {y, z, w, v} \subseteq Databases
               /\ y.id = x.id /\ z.id = x.id /\ w.id = x.id /\ v.id = x.id
               /\ y.health = x.health /\ w.health = x.health
    BY DEF Databases

LEMMA FreshIsDatabase == ASSUME TypeOK PROVE /\ Fresh \in Databases /\ Fresh.health = "ok"
    BY DEF Fresh, Databases, TypeOK, Ids

(* What a step has to keep for every opened database to be found again. *)
LEMMA KeptWhere ==
    ASSUME OriginalsKept, used' = used,
           db # None => \/ db' # None /\ db'.id = db.id
                        \/ \E i \in Repairs : db.id \in DatabasesOf(i)'
                        \/ db.id \in saved',
           \A i \in Repairs : \A id \in DatabasesOf(i) :
               \/ db' # None /\ db'.id = id
               \/ id \in DatabasesOf(i)'
               \/ id \in saved',
           saved \subseteq saved'
    PROVE  OriginalsKept'
    BY DEF OriginalsKept

LEMMA InvParts == ASSUME IInv PROVE TypeOK
    BY DEF IInv

(* One commit to the database that is being built *)
LEMMA BuildKeeps ==
    ASSUME IInv, NEW from \in Building, NEW to \in Building \cup {"aside"},
           NEW form \in {"empty", "schema", "final"}, NEW rows \in BOOLEAN,
           Builds(from, to), NextIs(form, rows), to # "create",
           crashes' \in 0..MaxCrashes, throws' \in 0..MaxThrows, damages' \in 0..MaxDamages
    PROVE  IInv'
    <1> DEFINE n == [id |-> current, form |-> form, rows |-> rows, health |-> "ok"]
    <1>a. /\ current \in Repairs /\ repair[current].name = "repair" /\ repair[current].db = None
          /\ repair[current].next # None => repair[current].next.id = current
          /\ at = from /\ phase = "repairing" /\ todo = {}
      BY DEF IInv, Place, Relied, Building, Builds
    <1>b. n \in Databases /\ n # None /\ n.id = current /\ n.health = "ok"
      BY <1>a, NoneAssumption DEF Databases, Ids
    <1>c. PICK d \in Directories : d = repair[current]
      BY <1>a DEF IInv, TypeOK
    <1> DEFINE e == [d EXCEPT !.next = n]
    <1>d. e \in Directories /\ e.next = n /\ e.name = "repair" /\ e.db = None
      BY <1>a, <1>b, <1>c, DirectoryWithNext
    <1>e. repair' = [repair EXCEPT ![current] = e]
      BY <1>c DEF NextIs, DirectoryIs
    <1> HIDE DEF n, e
    <1>f. repair \in [Repairs -> Directories]
      BY DEF IInv, TypeOK
    <1>g. /\ repair' \in [Repairs -> Directories] /\ repair'[current] = e
          /\ \A i \in Repairs : i # current => repair'[i] = repair[i]
      BY <1>a, <1>d, <1>e, <1>f
    <1>h. /\ at' = to /\ phase' = "repairing"
          /\ UNCHANGED <<db, wal, home, reset, epoch, saved, used, current, todo, issue>>
      BY <1>a DEF Builds, resets
    <1>1. TypeOK'
      BY <1>a, <1>d, <1>g, <1>h DEF IInv, TypeOK, Building
    <1>2. Place'
      BY <1>a, <1>d, <1>g, <1>h DEF Place, Building, Renaming
    <1>3. Relied'
      BY <1>a, <1>b, <1>d, <1>g, <1>h DEF Relied, Building, Sound
    <1>4. LogBesideItsDatabase'
      BY <1>h DEF IInv, LogBesideItsDatabase
    <1>5. Orphan'
      BY <1>a, <1>g, <1>h DEF IInv, Orphan
    <1>6. Held'
      BY <1>a, <1>d, <1>g, <1>h DEF IInv, Held, Holds
    <1>7. OriginalsKept'
      <2>1. \A i \in Repairs : \A id \in DatabasesOf(i) : id \in DatabasesOf(i)'
        <3>1. \A i \in Repairs : i # current => DatabasesOf(i)' = DatabasesOf(i)
          BY <1>g DEF DatabasesOf
        <3>2. \A id \in DatabasesOf(current) : id = current
          BY <1>a DEF DatabasesOf
        <3>3. n \in {repair'[current].next, repair'[current].db} \ {None}
          BY <1>b, <1>d, <1>g
        <3>4. ASSUME NEW i \in Repairs, i = current PROVE current \in DatabasesOf(i)'
          BY <3>3, <3>4, <1>b, <1>h DEF DatabasesOf
        <3> QED
          BY <3>1, <3>2, <3>4, <1>a
      <2> QED
        BY <2>1, <1>h, KeptWhere DEF IInv
    <1>8. Homes'
      BY <1>a, <1>h DEF IInv, Homes
    <1> QED
      BY <1>1, <1>2, <1>3, <1>4, <1>5, <1>6, <1>7, <1>8 DEF IInv

LEMMA ResetMovesInv ==
    ASSUME NEW t \in Resets, NEW d \in Dirs, IInv, ResetMoves(t, d) PROVE IInv'
    <1>1. TypeOK'
      <2>1. [NoDirectory EXCEPT !.name = "moved"] \in Directories
        BY DEF NoDirectory, Directories
      <2>2. \A i \in Repairs : DatabasesOf(i) \subseteq Ids
        <3> TAKE i \in Repairs
        <3>1. \A file \in Databases : file.id \in Ids
          BY DEF Databases
        <3>2. repair[i].next \in Databases \cup {None} /\ repair[i].db \in Databases \cup {None}
          BY DEF IInv, TypeOK, Directories
        <3> QED
          BY <3>1, <3>2 DEF DatabasesOf
      <2>3. {file.id : file \in {db} \ {None}} \subseteq Ids
        BY DEF IInv, TypeOK, Databases
      <2>4. saved' \subseteq Ids
        <3>1. saved \subseteq Ids
          BY DEF IInv, TypeOK
        <3>2. CASE d = "system"
          <4>1. saved' = saved \cup (UNION {DatabasesOf(i) : i \in Repairs})
                           \cup {file.id : file \in {db} \ {None}}
            BY <3>2 DEF ResetMoves
          <4>2. UNION {DatabasesOf(i) : i \in Repairs} \subseteq Ids
            BY <2>2
          <4> QED
            BY <2>3, <3>1, <4>1, <4>2
        <3>3. CASE d # "system"
          BY <3>1, <3>3 DEF ResetMoves
        <3> QED
          BY <3>2, <3>3
      <2>5. /\ repair' \in [Repairs -> Directories]
            /\ \A i \in Repairs : repair'[i].name = "none" => repair'[i] = NoDirectory
        BY <2>1 DEF IInv, TypeOK, ResetMoves, data, NoDirectory
      <2>6. home' \in [Dirs -> Nat \cup {None}]
        BY DEF IInv, TypeOK, ResetMoves
      <2> QED
        BY <2>4, <2>5, <2>6 DEF IInv, TypeOK, ResetMoves, data, work, bounds
    <1>2. Place'
      BY DEF IInv, Place, Building, Renaming, ResetMoves, Resetting, work
    <1>3. Relied'
      BY NoneAssumption DEF IInv, Place, Relied, Building, ResetMoves, Resetting, work
    <1>4. LogBesideItsDatabase'
      BY DEF IInv, LogBesideItsDatabase, ResetMoves, data
    <1>5. Orphan'
      BY DEF IInv, Orphan, ResetMoves, data, work
    <1>6. Held'
      BY DEF IInv, Held, Holds, NoDirectory, ResetMoves, Resetting, data
    <1>7. OriginalsKept'
      <2>1. CASE d = "system"
        <3>1. \A i \in Repairs : DatabasesOf(i) \subseteq saved'
          BY <2>1 DEF ResetMoves
        <3>2. db # None => db.id \in saved'
          <4>2. saved' = saved \cup (UNION {DatabasesOf(i) : i \in Repairs})
                           \cup {file.id : file \in {db} \ {None}}
            BY <2>1 DEF ResetMoves
          <4>1. db # None => db.id \in {file.id : file \in {db} \ {None}}
            OBVIOUS
          <4> QED
            BY <4>1, <4>2
        <3>3. saved \subseteq saved' /\ used' = used
          BY <2>1 DEF ResetMoves
        <3> QED
          BY <3>1, <3>2, <3>3, KeptWhere DEF IInv
      <2>2. CASE d # "system"
        BY <2>2 DEF IInv, OriginalsKept, DatabasesOf, ResetMoves, data
      <2> QED
        BY <2>1, <2>2
    <1>8. Homes'
      BY DEF IInv, Homes, ResetMoves
    <1> QED
      BY <1>1, <1>2, <1>3, <1>4, <1>5, <1>6, <1>7, <1>8 DEF IInv

LEMMA ResetFinishesInv ==
    ASSUME NEW t \in Resets, IInv, ResetFinishes(t) PROVE IInv'
    <1>1. TypeOK'
      BY NamesAssumption, BoundsAssumption DEF IInv, TypeOK, ResetFinishes, data, work, bounds
    <1>2. Place'
      BY DEF IInv, Place, Building, Renaming, ResetFinishes, Resetting, work
    <1>3. Relied'
      BY NoneAssumption DEF IInv, Place, Relied, Building, ResetFinishes, Resetting, work
    <1>4. LogBesideItsDatabase'
      BY DEF IInv, LogBesideItsDatabase, ResetFinishes, data
    <1>5. Orphan'
      BY DEF IInv, Orphan, ResetFinishes, data, work
    <1>6. Held'
      BY DEF IInv, Held, Holds, ResetFinishes, Resetting, data
    <1>7. OriginalsKept'
      BY DEF IInv, OriginalsKept, DatabasesOf, ResetFinishes, data
    <1>8. Homes'
      BY DEF IInv, Homes, ResetFinishes
    <1> QED
      BY <1>1, <1>2, <1>3, <1>4, <1>5, <1>6, <1>7, <1>8 DEF IInv

LEMMA ResetsEndInv ==
    ASSUME IInv, ResetsEnd PROVE IInv'
    <1>1. TypeOK'
      BY NamesAssumption, BoundsAssumption DEF IInv, TypeOK, ResetsEnd, MakeDirectories, data,
          bounds
    <1>2. Place'
      BY DEF IInv, Place, Building, Renaming, ResetsEnd, Resetting, data
    <1>3. Relied'
      BY NoneAssumption DEF IInv, Place, Relied, Building, ResetsEnd, Resetting
    <1>4. LogBesideItsDatabase'
      BY DEF IInv, LogBesideItsDatabase, ResetsEnd, data
    <1>5. Orphan'
      BY DEF IInv, Orphan, Building, ResetsEnd, data
    <1>6. Held'
      BY DEF IInv, Held, Holds, ResetsEnd, data
    <1>7. OriginalsKept'
      BY DEF IInv, OriginalsKept, DatabasesOf, ResetsEnd, data
    <1>8. Homes'
      BY DEF IInv, Homes, Pending, ResetsEnd, MakeDirectories
    <1> QED
      BY <1>1, <1>2, <1>3, <1>4, <1>5, <1>6, <1>7, <1>8 DEF IInv

LEMMA DatabaseAsideInv ==
    ASSUME IInv, DatabaseAside PROVE IInv'
    <1>a. /\ Repairing /\ at = "aside" /\ at' = "asideLog"
          /\ UNCHANGED <<wal, home, reset, epoch, saved, used, phase, current, todo, issue,
              crashes, throws, damages>>
      BY DEF DatabaseAside, resets, bounds
    <1>b. /\ current \in Repairs /\ repair[current].name = "repair"
          /\ phase \in {"repairs", "repairing"} /\ (phase = "repairs" => current \in todo)
          /\ Sound(repair[current].next) /\ repair \in [Repairs -> Directories]
      BY <1>a, NamesAssumption DEF IInv, Place, Relied, TypeOK
    <1>c. /\ repair' \in [Repairs -> Directories]
          /\ \A i \in Repairs : /\ repair'[i].name = repair[i].name /\ repair'[i].next = repair[i].next
                                /\ i # current => repair'[i] = repair[i]
          /\ db' = None
          /\ repair'[current].db = (IF db = None THEN repair[current].db ELSE db)
      <2>1. CASE db = None
        BY <2>1, <1>b DEF DatabaseAside
      <2>2. CASE db # None
        <3>1. PICK d \in Directories : d = repair[current]
          BY <1>b
        <3> DEFINE e == [d EXCEPT !.db = db]
        <3>2. /\ e \in Directories /\ e.name = d.name /\ e.next = d.next /\ e.db = db
          BY <3>1, DirectoryWithDatabase DEF IInv, TypeOK
        <3>3. repair' = [repair EXCEPT ![current] = e] /\ db' = None
          BY <2>2, <3>1 DEF DatabaseAside, DirectoryIs
        <3> HIDE DEF e
        <3>4. /\ repair' \in [Repairs -> Directories] /\ repair'[current] = e
              /\ \A i \in Repairs : i # current => repair'[i] = repair[i]
          BY <1>b, <3>2, <3>3
        <3> QED
          BY <3>1, <3>2, <3>3, <3>4, <2>2
      <2> QED
        BY <2>1, <2>2
    <1>1. TypeOK'
      BY <1>a, <1>b, <1>c, InvParts DEF TypeOK
    <1>2. Place'
      BY <1>a, <1>b, <1>c DEF IInv, Place, Renaming, TypeOK
    <1>3. Relied'
      BY <1>a, <1>b, <1>c DEF Relied, Building
    <1>4. LogBesideItsDatabase'
      BY <1>a, <1>c DEF LogBesideItsDatabase
    <1>5. Orphan'
      BY <1>a, <1>b, <1>c DEF Orphan, Building
    <1>6. Held'
      BY <1>a, <1>b, <1>c DEF IInv, Held, Holds
    <1>7. OriginalsKept'
      <2>1. ASSUME NEW i \in Repairs, NEW id \in DatabasesOf(i)
            PROVE  id \in DatabasesOf(i)'
        <3>1. CASE i # current \/ db = None
          BY <1>c, <3>1 DEF DatabasesOf
        <3>2. CASE i = current /\ db # None
          <4>1. repair[current].db = None
            BY <1>a, <3>2 DEF IInv, Relied
          <4>2. id = repair[current].next.id /\ repair[current].next # None
            BY <3>2, <4>1 DEF DatabasesOf
          <4> QED
            BY <1>c, <3>2, <4>2, <1>b DEF DatabasesOf
        <3> QED
          BY <3>1, <3>2
      <2>2. ASSUME db # None, NEW i \in Repairs, i = current
            PROVE  db.id \in DatabasesOf(i)'
        <3>1. db \in {repair'[i].next, repair'[i].db} \ {None}
          BY <1>c, <2>2
        <3> QED
          BY <3>1, <2>2 DEF DatabasesOf
      <2> QED
        BY <1>a, <1>b, <2>1, <2>2, KeptWhere DEF IInv
    <1>8. Homes'
      BY <1>a DEF IInv, Homes, Pending
    <1> QED
      BY <1>1, <1>2, <1>3, <1>4, <1>5, <1>6, <1>7, <1>8 DEF IInv

LEMMA LogAsideInv ==
    ASSUME IInv, LogAside PROVE IInv'
    <1>a. /\ Repairing /\ at = "asideLog" /\ at' = "install"
          /\ UNCHANGED <<db, home, reset, epoch, saved, used, phase, current, todo, issue,
              crashes, throws, damages>>
      BY DEF LogAside, resets, bounds
    <1>b. /\ current \in Repairs /\ repair[current].name = "repair"
          /\ phase \in {"repairs", "repairing"} /\ (phase = "repairs" => current \in todo)
          /\ Sound(repair[current].next) /\ repair \in [Repairs -> Directories]
      BY <1>a, NamesAssumption DEF IInv, Place, Relied, TypeOK
    <1>c. /\ repair' \in [Repairs -> Directories]
          /\ \A i \in Repairs : /\ repair'[i].name = repair[i].name /\ repair'[i].next = repair[i].next
                                /\ i # current => repair'[i] = repair[i]
          /\ wal' = None
          /\ \A i \in Repairs : repair'[i].db = repair[i].db
      <2>1. CASE wal = None
        BY <2>1, <1>b DEF LogAside
      <2>2. CASE wal # None
        <3>1. PICK d \in Directories : d = repair[current]
          BY <1>b
        <3> DEFINE e == [d EXCEPT !.wal = wal]
        <3>2. /\ e \in Directories /\ e.name = d.name /\ e.next = d.next /\ e.db = d.db
          BY <3>1, DirectoryWithLog DEF IInv, TypeOK
        <3>3. repair' = [repair EXCEPT ![current] = e] /\ wal' = None
          BY <2>2, <3>1 DEF LogAside, DirectoryIs
        <3> HIDE DEF e
        <3>4. /\ repair' \in [Repairs -> Directories] /\ repair'[current] = e
              /\ \A i \in Repairs : i # current => repair'[i] = repair[i]
          BY <1>b, <3>2, <3>3
        <3> QED
          BY <3>1, <3>2, <3>3, <3>4, <2>2
      <2> QED
        BY <2>1, <2>2
    <1>1. TypeOK'
      BY <1>a, <1>b, <1>c, InvParts DEF TypeOK
    <1>2. Place'
      BY <1>a, <1>b, <1>c DEF IInv, Place, Renaming, TypeOK
    <1>3. Relied'
      BY <1>a, <1>b, <1>c DEF IInv, Relied, Building
    <1>4. LogBesideItsDatabase'
      BY <1>a, <1>c DEF LogBesideItsDatabase
    <1>5. Orphan'
      BY <1>a, <1>b, <1>c DEF Orphan
    <1>6. Held'
      BY <1>a, <1>b, <1>c DEF IInv, Held, Holds
    <1>7. OriginalsKept'
      <2>1. \A i \in Repairs : DatabasesOf(i)' = DatabasesOf(i)
        BY <1>c DEF DatabasesOf
      <2> QED
        BY <1>a, <2>1, KeptWhere DEF IInv
    <1>8. Homes'
      BY <1>a DEF IInv, Homes, Pending
    <1> QED
      BY <1>1, <1>2, <1>3, <1>4, <1>5, <1>6, <1>7, <1>8 DEF IInv

LEMMA InstallInv ==
    ASSUME IInv, Install PROVE IInv'
    <1>1. TypeOK'
      BY NamesAssumption, BoundsAssumption DEF IInv, TypeOK, Place, Directories, Install,
          DirectoryIs, resets, bounds
    <1>2. Place'
      BY DEF IInv, Place, Renaming, Install, DirectoryIs
    <1>3. Relied'
      BY NoneAssumption DEF IInv, Relied, Building, Install
    <1>4. LogBesideItsDatabase'
      BY DEF IInv, Relied, LogBesideItsDatabase, Install
    <1>5. Orphan'
      BY DEF IInv, Relied, Orphan, Install
    <1>6. Held'
      BY DEF IInv, Relied, Held, Holds, Install, DirectoryIs
    <1>7. OriginalsKept'
      BY DEF IInv, Relied, OriginalsKept, DatabasesOf, Install, DirectoryIs, resets
    <1>8. Homes'
      BY DEF IInv, Homes, Pending, Install, resets
    <1> QED
      BY <1>1, <1>2, <1>3, <1>4, <1>5, <1>6, <1>7, <1>8 DEF IInv

LEMMA ArchiveInv ==
    ASSUME IInv, Archive PROVE IInv'
    <1>1. TypeOK'
      BY NamesAssumption, BoundsAssumption DEF IInv, TypeOK, Place, Directories, Archive,
          DirectoryIs, RepairIsOver, resets, bounds
    <1>2. Place'
      BY DEF IInv, Place, Building, Renaming, Archive, DirectoryIs, RepairIsOver
    <1>3. Relied'
      BY NoneAssumption DEF Relied, Building, Archive, RepairIsOver
    <1>4. LogBesideItsDatabase'
      BY DEF IInv, LogBesideItsDatabase, Archive
    <1>5. Orphan'
      BY DEF IInv, Relied, Orphan, Sound, Archive
    <1>6. Held'
      BY DEF IInv, TypeOK, Held, Holds, Archive, DirectoryIs, RepairIsOver
    <1>7. OriginalsKept'
      BY DEF IInv, OriginalsKept, DatabasesOf, Archive, DirectoryIs, resets
    <1>8. Homes'
      BY DEF IInv, Homes, Pending, Archive, RepairIsOver, resets
    <1> QED
      BY <1>1, <1>2, <1>3, <1>4, <1>5, <1>6, <1>7, <1>8 DEF IInv

LEMMA LookInv ==
    ASSUME NEW i \in Repairs, IInv, Look(i) PROVE IInv'
    <1>1. TypeOK'
      BY NamesAssumption, BoundsAssumption DEF IInv, TypeOK, Look, data, resets, bounds
    <1>2. Place'
      BY DEF IInv, Place, Renaming, Look, data
    <1>3. Relied'
      BY NoneAssumption DEF IInv, Place, Relied, Held, Holds, Sound, Building, Look, data
    <1>4. LogBesideItsDatabase'
      BY DEF IInv, LogBesideItsDatabase, Look, data
    <1>5. Orphan'
      BY DEF IInv, Orphan, Building, Look, data
    <1>6. Held'
      BY DEF IInv, Held, Holds, Look, data
    <1>7. OriginalsKept'
      BY DEF IInv, OriginalsKept, DatabasesOf, Look, data, resets
    <1>8. Homes'
      BY DEF IInv, Homes, Pending, Look, resets
    <1> QED
      BY <1>1, <1>2, <1>3, <1>4, <1>5, <1>6, <1>7, <1>8 DEF IInv

LEMMA RepairInv ==
    ASSUME NEW i \in Repairs, IInv, Repair(i) PROVE IInv'
    <1>1. TypeOK'
      BY NamesAssumption, BoundsAssumption DEF IInv, TypeOK, Directories, Repair,
          MakeDirectories, bounds
    <1>2. Place'
      BY DEF IInv, TypeOK, Place, Building, Repair
    <1>3. Relied'
      <2>1. repair[i] = NoDirectory
        BY DEF IInv, TypeOK, Repair
      <2>2. repair'[i].db = None /\ repair'[i].next = None /\ at' = "create" /\ current' = i /\ phase' = "repairing"
        BY <2>1 DEF Repair, NoDirectory
      <2> QED
        BY <2>2 DEF Relied
    <1>4. LogBesideItsDatabase'
      BY DEF IInv, LogBesideItsDatabase, Repair
    <1>5. Orphan'
      BY DEF IInv, Orphan, Repair
    <1>6. Held'
      BY DEF IInv, TypeOK, Held, Holds, NoDirectory, Repair
    <1>7. OriginalsKept'
      BY DEF IInv, OriginalsKept, DatabasesOf, Repair
    <1>8. Homes'
      BY DEF IInv, Homes, Repair, MakeDirectories
    <1> QED
      BY <1>1, <1>2, <1>3, <1>4, <1>5, <1>6, <1>7, <1>8 DEF IInv

LEMMA CreateNextInv ==
    ASSUME IInv, CreateNext PROVE IInv'
    <1>1. Builds("create", "schema") /\ NextIs("empty", FALSE)
      BY DEF CreateNext
    <1>2. crashes' \in 0..MaxCrashes /\ throws' \in 0..MaxThrows /\ damages' \in 0..MaxDamages
      BY BoundsAssumption DEF IInv, TypeOK, CreateNext, bounds
    <1>3. (FALSE) \in BOOLEAN
      BY DEF IInv
    <1> QED
      BY <1>1, <1>2, <1>3, BuildKeeps DEF Building

LEMMA CommitSchemaInv ==
    ASSUME IInv, CommitSchema PROVE IInv'
    <1>1. Builds("schema", "migrate") /\ NextIs("schema", FALSE)
      BY DEF CommitSchema
    <1>2. crashes' \in 0..MaxCrashes /\ throws' \in 0..MaxThrows /\ damages' \in 0..MaxDamages
      BY BoundsAssumption DEF IInv, TypeOK, CommitSchema, bounds
    <1>3. (FALSE) \in BOOLEAN
      BY DEF IInv
    <1> QED
      BY <1>1, <1>2, <1>3, BuildKeeps DEF Building

LEMMA MigrateInv ==
    ASSUME IInv, Migrate PROVE IInv'
    <1>1. Builds("migrate", "aside") /\ NextIs("final", db # None /\ db.rows)
      BY DEF Migrate
    <1>2. crashes' \in 0..MaxCrashes /\ throws' \in 0..MaxThrows /\ damages' \in 0..MaxDamages
      BY BoundsAssumption DEF IInv, TypeOK, Migrate, bounds
    <1>3. (db # None /\ db.rows) \in BOOLEAN
      BY DEF IInv
    <1> QED
      BY <1>1, <1>2, <1>3, BuildKeeps DEF Building

LEMMA MigrateNothingInv ==
    ASSUME IInv, MigrateNothing PROVE IInv'
    <1>1. Builds("migrate", "aside") /\ NextIs("final", FALSE)
      BY DEF MigrateNothing
    <1>2. crashes' \in 0..MaxCrashes /\ throws' \in 0..MaxThrows /\ damages' \in 0..MaxDamages
      BY BoundsAssumption DEF IInv, TypeOK, MigrateNothing, Throwing
    <1>3. (FALSE) \in BOOLEAN
      BY DEF IInv
    <1> QED
      BY <1>1, <1>2, <1>3, BuildKeeps DEF Building

LEMMA BootInv ==
    ASSUME IInv, Boot PROVE IInv'
    <1>1. TypeOK'
      BY NamesAssumption, BoundsAssumption DEF IInv, TypeOK, Boot, data, resets, work, bounds
    <1>2. Place'
      BY DEF IInv, Place, Building, Renaming, Boot, work
    <1>3. Relied'
      BY NoneAssumption DEF IInv, Place, Relied, Building, Boot, work
    <1>4. LogBesideItsDatabase'
      BY DEF IInv, LogBesideItsDatabase, Boot, data
    <1>5. Orphan'
      BY DEF IInv, Orphan, Boot, data, work
    <1>6. Held'
      BY DEF IInv, Held, Holds, Boot, data
    <1>7. OriginalsKept'
      BY DEF IInv, OriginalsKept, DatabasesOf, Boot, data, resets
    <1>8. Homes'
      BY DEF IInv, Homes, Boot, resets
    <1> QED
      BY <1>1, <1>2, <1>3, <1>4, <1>5, <1>6, <1>7, <1>8 DEF IInv

LEMMA OpensInv ==
    ASSUME IInv, Opens PROVE IInv'
    <1>a. /\ db' \in Databases /\ db' # None /\ db'.health = "ok"
          /\ db # None => db'.id = db.id
      <2>1. CASE db = None
        BY <2>1, InvParts, FreshIsDatabase, NoneAssumption DEF Opens
      <2>2. CASE db # None
        <3>1. db \in Databases /\ db.health = "ok"
          BY <2>2 DEF IInv, TypeOK, Opens, Refused
        <3>2. db' \in {db, [db EXCEPT !.form = "schema"]}
          BY <2>2 DEF Opens
        <3>3. /\ [db EXCEPT !.form = "schema"] \in Databases
              /\ [db EXCEPT !.form = "schema"].id = db.id
              /\ [db EXCEPT !.form = "schema"].health = db.health
          BY <3>1 DEF Databases
        <3> QED
          BY <3>1, <3>2, <3>3, NoneAssumption
      <2> QED
        BY <2>1, <2>2
    <1>b. /\ phase = "repairs" /\ at = "pick" /\ todo = {} /\ phase' = "open" /\ at' = "none"
          /\ wal' = (IF wal = None THEN db'.id ELSE wal) /\ used' = used \cup {db'.id}
          /\ UNCHANGED <<repair, home, reset, epoch, saved, current, todo, issue, crashes,
              throws, damages>>
      BY DEF Opens, resets, bounds
    <1>c. db'.id \in Ids
      BY <1>a DEF Databases
    <1>1. TypeOK'
      BY <1>a, <1>b, <1>c DEF IInv, TypeOK
    <1>2. Place'
      BY <1>a, <1>b DEF IInv, Place, Building, Renaming
    <1>3. Relied'
      BY <1>a, <1>b DEF Relied, Building
    <1>4. LogBesideItsDatabase'
      BY <1>a, <1>b DEF IInv, LogBesideItsDatabase, Orphan
    <1>5. Orphan'
      BY <1>a, <1>b DEF Orphan
    <1>6. Held'
      BY <1>a, <1>b DEF IInv, Held, Holds
    <1>7. OriginalsKept'
      BY <1>a, <1>b DEF IInv, OriginalsKept, DatabasesOf
    <1>8. Homes'
      BY <1>a, <1>b DEF IInv, Homes, Pending
    <1> QED
      BY <1>1, <1>2, <1>3, <1>4, <1>5, <1>6, <1>7, <1>8 DEF IInv

LEMMA RefusesInv ==
    ASSUME IInv, Refuses PROVE IInv'
    <1>1. TypeOK'
      BY NamesAssumption, BoundsAssumption DEF IInv, TypeOK, Refuses, resets, bounds
    <1>2. Place'
      BY DEF IInv, Place, Building, Renaming, Refuses
    <1>3. Relied'
      BY NoneAssumption DEF Relied, Building, Refuses
    <1>4. LogBesideItsDatabase'
      BY DEF IInv, LogBesideItsDatabase, Refuses
    <1>5. Orphan'
      BY DEF IInv, Orphan, Refuses
    <1>6. Held'
      BY DEF IInv, Held, Holds, Refuses
    <1>7. OriginalsKept'
      BY DEF IInv, OriginalsKept, DatabasesOf, Refuses, resets
    <1>8. Homes'
      BY DEF IInv, Homes, Refuses, resets
    <1> QED
      BY <1>1, <1>2, <1>3, <1>4, <1>5, <1>6, <1>7, <1>8 DEF IInv

LEMMA UseInv ==
    ASSUME IInv, Use PROVE IInv'
    <1>a. /\ db' \in Databases /\ db' # None /\ db'.id = db.id /\ db # None
      <2>1. db \in Databases
        BY DEF IInv, TypeOK, Relied, Use
      <2> QED
        BY <2>1, NoneAssumption, DatabaseChanged DEF Use
    <1>b. /\ phase = "open" /\ phase' = "open"
          /\ UNCHANGED <<wal, used, repair, home, reset, epoch, saved, at, current, todo, issue,
              crashes, throws, damages>>
      BY DEF Use, resets, work, bounds
    <1>c. at = "none" /\ todo = {}
      BY <1>b DEF IInv, Place
    <1>1. TypeOK'
      BY <1>a, <1>b DEF IInv, TypeOK
    <1>2. Place'
      BY <1>b, <1>c DEF IInv, Place
    <1>3. Relied'
      BY <1>a, <1>b, <1>c DEF Relied, Building
    <1>4. LogBesideItsDatabase'
      BY <1>a, <1>b DEF IInv, LogBesideItsDatabase
    <1>5. Orphan'
      BY <1>a, <1>b DEF Orphan
    <1>6. Held'
      BY <1>a, <1>b DEF IInv, Held, Holds
    <1>7. OriginalsKept'
      BY <1>a, <1>b DEF IInv, OriginalsKept, DatabasesOf
    <1>8. Homes'
      BY <1>a, <1>b DEF IInv, Homes, Pending
    <1> QED
      BY <1>1, <1>2, <1>3, <1>4, <1>5, <1>6, <1>7, <1>8 DEF IInv

LEMMA CloseInv ==
    ASSUME IInv, Close PROVE IInv'
    <1>1. TypeOK'
      BY NamesAssumption, BoundsAssumption DEF IInv, TypeOK, Close, resets, work, bounds
    <1>2. Place'
      BY DEF IInv, Place, Close, work
    <1>3. Relied'
      BY NoneAssumption DEF IInv, Relied, Close, work
    <1>4. LogBesideItsDatabase'
      BY DEF LogBesideItsDatabase, Close
    <1>5. Orphan'
      BY DEF Orphan, Close
    <1>6. Held'
      BY DEF IInv, Held, Holds, Close
    <1>7. OriginalsKept'
      BY DEF IInv, OriginalsKept, DatabasesOf, Close, resets
    <1>8. Homes'
      BY DEF IInv, Homes, Close, resets
    <1> QED
      BY <1>1, <1>2, <1>3, <1>4, <1>5, <1>6, <1>7, <1>8 DEF IInv

LEMMA DamageInv ==
    ASSUME IInv, Damage PROVE IInv'
    <1>a. /\ db' \in Databases /\ db' # None /\ db'.id = db.id /\ db # None
      <2>1. db \in Databases
        BY DEF IInv, TypeOK, Relied, Damage
      <2>2. db.rows \in BOOLEAN
        BY <2>1 DEF Databases
      <2>3. CASE db' = [db EXCEPT !.health = "rows"]
        BY <2>1, <2>3, NoneAssumption, DatabaseChanged
      <2>4. ASSUME NEW readable \in {db.rows, FALSE}, db' = [db EXCEPT !.health = "pages",
          !.rows = readable]
            PROVE db' \in Databases /\ db'.id = db.id
        BY <2>1, <2>2, <2>4 DEF Databases
      <2> QED
        BY <2>1, <2>3, <2>4, NoneAssumption DEF Damage
    <1>b. /\ phase = "open" /\ phase' = "off" /\ wal' \in {wal, None}
          /\ UNCHANGED <<used, repair, home, reset, epoch, saved, at, current, todo, issue,
              crashes, throws>>
      BY DEF Damage, resets, work
    <1>c. at = "none" /\ todo = {} /\ damages' \in 0..MaxDamages
      BY <1>b, BoundsAssumption DEF IInv, Place, TypeOK, Damage
    <1>1. TypeOK'
      BY <1>a, <1>b, <1>c, BoundsAssumption DEF IInv, TypeOK
    <1>2. Place'
      BY <1>b, <1>c DEF IInv, Place
    <1>3. Relied'
      BY <1>a, <1>b, <1>c DEF Relied, Building
    <1>4. LogBesideItsDatabase'
      BY <1>a, <1>b DEF IInv, LogBesideItsDatabase
    <1>5. Orphan'
      BY <1>a, <1>b DEF Orphan
    <1>6. Held'
      BY <1>a, <1>b DEF IInv, Held, Holds
    <1>7. OriginalsKept'
      BY <1>a, <1>b DEF IInv, OriginalsKept, DatabasesOf
    <1>8. Homes'
      BY <1>a, <1>b DEF IInv, Homes
    <1> QED
      BY <1>1, <1>2, <1>3, <1>4, <1>5, <1>6, <1>7, <1>8 DEF IInv

LEMMA ResetInv ==
    ASSUME NEW t \in Resets, IInv, Reset(t) PROVE IInv'
    <1>1. TypeOK'
      BY NamesAssumption, BoundsAssumption DEF IInv, TypeOK, Reset, data, work, bounds
    <1>2. Place'
      BY DEF IInv, Place, Building, Renaming, Reset, work
    <1>3. Relied'
      BY NoneAssumption DEF IInv, Place, Relied, Building, Reset, work
    <1>4. LogBesideItsDatabase'
      BY DEF IInv, LogBesideItsDatabase, Reset, data
    <1>5. Orphan'
      BY DEF IInv, Orphan, Reset, data, work
    <1>6. Held'
      BY DEF IInv, Held, Holds, Reset, data
    <1>7. OriginalsKept'
      BY DEF IInv, OriginalsKept, DatabasesOf, Reset, data
    <1>8. Homes'
      BY DEF IInv, Homes, Reset
    <1> QED
      BY <1>1, <1>2, <1>3, <1>4, <1>5, <1>6, <1>7, <1>8 DEF IInv

LEMMA ExitInv ==
    ASSUME IInv, Exit PROVE IInv'
    <1>1. TypeOK'
      BY NamesAssumption, BoundsAssumption DEF IInv, TypeOK, Exit, data, resets, work, bounds
    <1>2. Place'
      BY DEF IInv, Place, Building, Renaming, Exit, work
    <1>3. Relied'
      BY NoneAssumption DEF IInv, Place, Relied, Building, Exit, work
    <1>4. LogBesideItsDatabase'
      BY DEF IInv, LogBesideItsDatabase, Exit, data
    <1>5. Orphan'
      BY DEF IInv, Orphan, Exit, data, work
    <1>6. Held'
      BY DEF IInv, Held, Holds, Exit, data
    <1>7. OriginalsKept'
      BY DEF IInv, OriginalsKept, DatabasesOf, Exit, data, resets
    <1>8. Homes'
      BY DEF IInv, Homes, Exit, resets
    <1> QED
      BY <1>1, <1>2, <1>3, <1>4, <1>5, <1>6, <1>7, <1>8 DEF IInv

LEMMA ThrowsInv ==
    ASSUME IInv, Throws PROVE IInv'
    <1>1. TypeOK'
      BY NamesAssumption, BoundsAssumption DEF IInv, TypeOK, Throws, Throwing, data, resets
    <1>2. Place'
      BY DEF Place, Building, Renaming, Throws
    <1>3. Relied'
      BY NoneAssumption DEF Relied, Building, Throws
    <1>4. LogBesideItsDatabase'
      BY DEF IInv, LogBesideItsDatabase, Throws, data
    <1>5. Orphan'
      BY DEF IInv, Orphan, Building, Throws, data
    <1>6. Held'
      BY DEF IInv, Held, Holds, Throws, data
    <1>7. OriginalsKept'
      BY DEF IInv, OriginalsKept, DatabasesOf, Throws, data, resets
    <1>8. Homes'
      BY DEF IInv, Homes, Throws, resets
    <1> QED
      BY <1>1, <1>2, <1>3, <1>4, <1>5, <1>6, <1>7, <1>8 DEF IInv

LEMMA CrashInv ==
    ASSUME IInv, Crash PROVE IInv'
    <1>a. /\ phase' = "off" /\ at' = "none" /\ current' = None /\ todo' = {}
          /\ UNCHANGED <<db, wal, home, reset, epoch, saved, used, issue, throws, damages>>
      BY DEF Crash, resets
    <1>b. \/ repair' = repair
          \/ /\ at \in {"schema", "migrate"}
             /\ repair' = [repair EXCEPT ![current] = [repair[current] EXCEPT !.next.health = "pages"]]
      BY DEF Crash, DirectoryIs
    <1>c. /\ repair' \in [Repairs -> Directories]
          /\ \A i \in Repairs : /\ repair'[i].name = repair[i].name
                                /\ repair'[i].db = repair[i].db
                                /\ repair'[i].name = "none" => repair'[i] = repair[i]
                                /\ DatabasesOf(i)' = DatabasesOf(i)
                                /\ repair'[i] # repair[i] => at \in Building /\ i = current /\ repair[i].db = None
      <2>1. CASE repair' = repair
        BY <2>1 DEF IInv, TypeOK, DatabasesOf
      <2>2. CASE /\ at \in {"schema", "migrate"}
                 /\ repair' = [repair EXCEPT ![current] = [repair[current] EXCEPT !.next.health = "pages"]]
        <3>1. /\ current \in Repairs /\ repair \in [Repairs -> Directories]
              /\ repair[current].name = "repair" /\ repair[current].db = None
              /\ repair[current].next # None
          BY <2>2 DEF IInv, Place, Relied, TypeOK, Building
        <3>2. PICK d \in Directories : d = repair[current]
          BY <3>1
        <3>3. d.next \in Databases /\ d.next # None
          BY <3>1, <3>2 DEF Directories
        <3>4. PICK n \in Databases : n = [d.next EXCEPT !.health = "pages"] /\ n.id = d.next.id /\ n # None
          BY <3>3, NoneAssumption, DatabaseChanged
        <3>5. PICK e \in Directories : /\ e = [d EXCEPT !.next = n] /\ e.next = n
                                       /\ e.name = d.name /\ e.db = d.db
          BY <3>4, DirectoryWithNext
        <3>6. [d EXCEPT !.next.health = "pages"] = [d EXCEPT !.next = [d.next EXCEPT !.health = "pages"]]
          BY DEF Directories
        <3>7. repair' = [repair EXCEPT ![current] = e]
          BY <2>2, <3>2, <3>4, <3>5, <3>6
        <3>8. /\ repair' \in [Repairs -> Directories] /\ repair'[current] = e
              /\ \A i \in Repairs : i # current => repair'[i] = repair[i]
          BY <3>1, <3>7
        <3>9. ASSUME NEW i \in Repairs, i = current PROVE DatabasesOf(i)' = DatabasesOf(i)
          <4>1. /\ {repair'[current].next, repair'[current].db} \ {None} = {n}
                /\ {repair[current].next, repair[current].db} \ {None} = {d.next}
            BY <3>1, <3>2, <3>3, <3>4, <3>5, <3>8
          <4>3. /\ {file.id : file \in {repair'[current].next, repair'[current].db} \ {None}}
                     = {n.id}
                /\ DatabasesOf(current) = {d.next.id}
            BY <4>1 DEF DatabasesOf
          <4> QED
            BY <4>3, <3>4, <3>9 DEF DatabasesOf
        <3>10. \A i \in Repairs : i # current => DatabasesOf(i)' = DatabasesOf(i)
          BY <3>8 DEF DatabasesOf
        <3>11. ASSUME NEW i \in Repairs
               PROVE  /\ repair'[i].name = repair[i].name
                      /\ repair'[i].db = repair[i].db
                      /\ repair'[i].name = "none" => repair'[i] = repair[i]
                      /\ repair'[i] # repair[i] => at \in Building /\ i = current /\ repair[i].db = None
          BY <2>2, <3>1, <3>2, <3>5, <3>8 DEF Building
        <3>12. \A i \in Repairs : DatabasesOf(i)' = DatabasesOf(i)
          BY <3>9, <3>10
        <3> QED
          BY <3>8, <3>11, <3>12
      <2> QED
        BY <1>b, <2>1, <2>2
    <1>1. TypeOK'
      BY <1>a, <1>c, BoundsAssumption DEF IInv, TypeOK, Crash
    <1>2. Place'
      BY <1>a, <1>c DEF Place, Building, Renaming
    <1>3. Relied'
      BY <1>a DEF Relied, Building
    <1>4. LogBesideItsDatabase'
      BY <1>a DEF IInv, LogBesideItsDatabase
    <1>5. Orphan'
      BY <1>a, <1>c DEF IInv, Orphan, Building
    <1>6. Held'
      BY <1>a, <1>c DEF IInv, Held, Holds
    <1>7. OriginalsKept'
      BY <1>a, <1>c, KeptWhere DEF IInv
    <1>8. Homes'
      BY <1>a DEF IInv, Homes
    <1> QED
      BY <1>1, <1>2, <1>3, <1>4, <1>5, <1>6, <1>7, <1>8 DEF IInv

LEMMA StutterInv == ASSUME IInv, UNCHANGED vars PROVE IInv'
    BY DEF IInv, TypeOK, Place, Relied, LogBesideItsDatabase, Orphan, Held, Holds,
        OriginalsKept, Homes, DatabasesOf, Pending, vars, data, resets, work, bounds

LEMMA InitInv == Init => IInv
    <1> SUFFICES ASSUME Init PROVE IInv
      OBVIOUS
    <1>0. /\ Fresh \in Databases /\ [Fresh EXCEPT !.rows = TRUE] \in Databases
          /\ NoDirectory \in Directories
      BY DEF Init, Fresh, Databases, NoDirectory, Directories, Ids
    <1>1. TypeOK
      BY <1>0, BoundsAssumption DEF Init, TypeOK, Ids
    <1>2. Place /\ Relied /\ LogBesideItsDatabase /\ Orphan /\ Held
      BY NoneAssumption DEF Init, Place, Relied, LogBesideItsDatabase, Orphan, Held, Holds,
          Building, Renaming, NoDirectory
    <1>3. OriginalsKept
      BY <1>1, NoneAssumption DEF Init, OriginalsKept, Fresh, Databases, TypeOK
    <1>4. Homes
      BY DEF Init, Homes
    <1> QED
      BY <1>1, <1>2, <1>3, <1>4 DEF IInv

LEMMA NextInv == IInv /\ [Next]_vars => IInv'
    BY ResetMovesInv, ResetFinishesInv, ResetsEndInv, DatabaseAsideInv, LogAsideInv, InstallInv,
        ArchiveInv, LookInv, RepairInv, CreateNextInv, CommitSchemaInv, MigrateInv,
            MigrateNothingInv, BootInv, OpensInv, RefusesInv, UseInv, CloseInv, DamageInv,
                ResetInv, ExitInv, ThrowsInv, CrashInv, StutterInv
    DEF Next, ResetStep, RepairStep, StartStep, Choice

LEMMA Invariance == Spec => []IInv
    BY InitInv, NextInv, PTL DEF Spec

-----------------------------------------------------------------------------
(* Every variable keeps its type, whatever the bounds (bootstrap-recovery.ts).   *)
THEOREM TypeCorrect == Spec => []TypeOK
    <1>1. IInv => TypeOK
      BY DEF IInv
    <1> QED
      BY Invariance, <1>1, PTL

(* A write-ahead log never lies beside a database that is not its own, wherever  *)
(* repairs are interrupted (moveDatabaseAside, recoverPendingDatabaseRepairs).   *)
THEOREM LogsFollow == Spec => []LogBesideItsDatabase
    <1>1. IInv => LogBesideItsDatabase
      BY DEF IInv
    <1> QED
      BY Invariance, <1>1, PTL

(* No sequence of repairs, resets, throws and crashes removes or overwrites a    *)
(* database that the Host has opened (the renames of bootstrap-recovery.ts).     *)
THEOREM NothingRemoved == Spec => []OriginalsKept
    <1>1. IInv => OriginalsKept
      BY DEF IInv
    <1> QED
      BY Invariance, <1>1, PTL

(* The Host opens only when no reset is half-way and every product directory is  *)
(* younger than the last reset (completePendingProductResets).                   *)
THEOREM ResetsAreWhole == Spec => []ResetTakesAll
    <1>1. IInv => ResetTakesAll
      BY DEF IInv, Homes, ResetTakesAll
    <1> QED
      BY Invariance, <1>1, PTL
==============================================================================
