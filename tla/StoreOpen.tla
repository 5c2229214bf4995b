------------------------------ MODULE StoreOpen ------------------------------
(***************************************************************************)
(* The database file as builds of different versions open it: each process  *)
(* copies an older file, creates the tables it misses, and migrates, in      *)
(* commits of their own, and may die between any two.  Beside them the file  *)
(* is backed up, moved aside and restored.  A table stands for all those     *)
(* that came with one version; table 0 is SchemaVersion.                     *)
(***************************************************************************)
EXTENDS Integers, FiniteSets, FiniteSetsExt, Sequences

CONSTANTS
  Openers,         \* the processes that open the Store
  Builds,          \* the schema versions builds read, 1..n
  Shipped,         \* the versions a migration step leads to
  NoFile,
  LastSecond, MaxFiles   \* bounds

ASSUME FilesAssumption ==
  /\ IsFiniteSet(Builds) /\ Builds = 1..Cardinality(Builds)
  /\ Shipped \subseteq Builds /\ LastSecond \in Nat

VARIABLES
  second,          \* the clock the copies are named by
  files,           \* every file there has been: its tables and recorded versions; the tables
                   \* it had when it was restored, or its first version recorded, and whether
                   \* another process was opening it then; the versions it was migrated from
  db,              \* which of them is cointoss.db, or NoFile
  openers,         \* per process: where it is in opening which file, and what is to do
  copies,          \* <<version, second>> -> the copy of that name
  backup,          \* a backup directory: [tables, versions, manifest], or NoFile
  restorers        \* processes past restore's checks

fileVars == <<second, files, db, openers, copies, backup, restorers>>

TablesOf(build) == 0..build
Latest(versions) == IF versions = {} THEN 0 ELSE Max(versions)

(* _stored_version: 0 when none is recorded. *)
StoredVersion(f) == IF 0 \in f.tables THEN Latest(f.versions) ELSE 0

Blank == [tables |-> {}, versions |-> {}, born |-> {}, raced |-> FALSE, from |-> {}]
Closed == [at |-> "closed", build |-> 0, file |-> 0, todo |-> {}]

FilesTypeOK ==
  /\ second \in 0..LastSecond
  /\ db \in {NoFile} \cup DOMAIN files
  /\ \A k \in DOMAIN files :
       /\ files[k].tables \subseteq TablesOf(Max(Builds)) /\ files[k].versions \subseteq Builds
       /\ files[k].versions # {} => 0 \in files[k].tables
  /\ \A p \in Openers :
       /\ openers[p].at \in 
            {"closed", "back_up", "tables", "create", "version", "first", "step", "record", "open"}
       /\ openers[p].at # "closed" => openers[p].build \in Builds /\ openers[p].file \in DOMAIN files
  /\ \A name \in DOMAIN copies : copies[name].file \in DOMAIN files /\ copies[name].again \in BOOLEAN
  /\ restorers \subseteq Openers

FilesInit ==
  /\ second = 0
  /\ files = <<>> /\ db = NoFile
  /\ openers = [p \in Openers |-> Closed]
  /\ copies = <<>> /\ backup = NoFile /\ restorers = {}

-----------------------------------------------------------------------------
(* Opening, Store.__init__.  A process keeps to the file it connected to. *)

(* Mutant of Stages: the tables are created before the file is copied. *)
CopyLast == <<"tables", "back_up", "version">>

Stages == <<"back_up", "tables", "version">>

After(stage) ==
  LET n == CHOOSE m \in DOMAIN Stages : Stages[m] = stage
  IN IF n = Len(Stages) THEN "open" ELSE Stages[n + 1]

File(p) == files[openers[p].file]

(* The table to create, or the step to apply, next: the lowest that is left. *)
Due(p) == Min(openers[p].todo)

(* _connect: the file is there from then on. *)
Connect(p, build) ==
  /\ openers[p].at = "closed" /\ p \notin restorers
  /\ db = NoFile => Len(files) < MaxFiles
  /\ files' = IF db = NoFile THEN Append(files, Blank) ELSE files
  /\ db' = IF db = NoFile THEN Len(files') ELSE db
  /\ openers' = [openers EXCEPT ![p] =
       [Closed EXCEPT !.at = Stages[1], !.build = build, !.file = db']]
  /\ UNCHANGED <<second, copies, backup, restorers>>

(* _steps, and whether they fall short: MigrationGap. *)
Steps(stored, build) == {v \in Shipped : stored < v /\ v <= build}
Gap(stored, build) == build \notin Steps(stored, build)

Refused(p) == /\ openers' = [openers EXCEPT ![p] = Closed]
              /\ UNCHANGED <<second, files, db, copies, backup, restorers>>

(* _back_up_before_migrating: a gap is refused before a copy is taken. *)
Skip(p) ==
  /\ openers[p].at = "back_up"
  /\ StoredVersion(File(p)) = 0 \/ StoredVersion(File(p)) >= openers[p].build
  /\ openers' = [openers EXCEPT ![p].at = After("back_up")]
  /\ UNCHANGED <<second, files, db, copies, backup, restorers>>

Copying(p) ==
  /\ openers[p].at = "back_up"
  /\ StoredVersion(File(p)) \in 1..openers[p].build - 1

RefuseGap(p) ==
  /\ Copying(p)
  /\ Gap(StoredVersion(File(p)), openers[p].build) \/ db = NoFile
  /\ Refused(p)

(* backup_database, of the path, under a name of the second it is taken in. *)
BackUp(p) ==
  /\ Copying(p)
  /\ ~ Gap(StoredVersion(File(p)), openers[p].build) /\ db # NoFile
  /\ LET name == <<StoredVersion(File(p)), second>>
         copy == [file |-> db, tables |-> files[db].tables, versions |-> files[db].versions,
                  again |-> name \in DOMAIN copies]
     IN copies' = [n \in DOMAIN copies \cup {name} |-> IF n = name THEN copy ELSE copies[n]]
  /\ openers' = [openers EXCEPT ![p].at = After("back_up")]
  /\ UNCHANGED <<second, files, db, backup, restorers>>

(* _create_missing_tables: what is missing is read once, and each table is a commit. *)

(* Mutant of Missing: a file that has tables is taken to have them all. *)
MissingWhenNew(f, build) == IF f.tables = {} THEN TablesOf(build) ELSE {}

Missing(f, build) == TablesOf(build) \ f.tables

ListTables(p) ==
  /\ openers[p].at = "tables"
  /\ openers' = [openers EXCEPT ![p].at = "create",
                                ![p].todo = Missing(File(p), openers[p].build)]
  /\ UNCHANGED <<second, files, db, copies, backup, restorers>>

CreateTable(p) ==
  /\ openers[p].at = "create" /\ openers[p].todo # {}
  /\ Due(p) \notin File(p).tables
  /\ files' = [files EXCEPT ![openers[p].file].tables = @ \cup {Due(p)}]
  /\ openers' = [openers EXCEPT ![p].todo = @ \ {Due(p)}]
  /\ UNCHANGED <<second, db, copies, backup, restorers>>

(* Another process has created it since. *)
RefuseTable(p) ==
  /\ openers[p].at = "create" /\ openers[p].todo # {}
  /\ Due(p) \in File(p).tables
  /\ Refused(p)

TablesDone(p) ==
  /\ openers[p].at = "create" /\ openers[p].todo = {}
  /\ openers' = [openers EXCEPT ![p].at = After("tables")]
  /\ UNCHANGED <<second, files, db, copies, backup, restorers>>

(* _check_version: the version is read again. *)
CheckVersion(p) ==
  /\ openers[p].at = "version"
  /\ LET stored == StoredVersion(File(p))
         build == openers[p].build
     IN \/ /\ stored \in {0, build}
           /\ openers' = [openers EXCEPT ![p].at = IF stored = 0 THEN "first" ELSE After("version")]
           /\ UNCHANGED files
        \/ /\ stored > build \/ (stored \in 1..build - 1 /\ Gap(stored, build))
           /\ openers' = [openers EXCEPT ![p] = Closed]
           /\ UNCHANGED files
        \/ /\ stored \in 1..build - 1 /\ ~ Gap(stored, build)
           /\ openers' = [openers EXCEPT ![p].at = "step", ![p].todo = Steps(stored, build)]
           /\ files' = [files EXCEPT ![openers[p].file].from = @ \cup {stored}]
  /\ UNCHANGED <<second, db, copies, backup, restorers>>

(* Whether a new file gets its first version while another process is opening it. *)
OpenedBeside(p) ==
  /\ File(p).versions = {}
  /\ \E q \in Openers \ {p} : openers[q].file = openers[p].file /\ openers[q].at # "open"

(* _record_version: a version is recorded once, by constraint. *)
Recorded(p, version, next) ==
  IF version \in File(p).versions \/ 0 \notin File(p).tables
  THEN Refused(p)
  ELSE /\ files' = [files EXCEPT ![openers[p].file].versions = @ \cup {version},
                                 ![openers[p].file].born =
                                   IF File(p).versions = {} THEN File(p).tables ELSE @,
                                 ![openers[p].file].raced = @ \/ OpenedBeside(p)]
       /\ openers' = [openers EXCEPT ![p] = next]
       /\ UNCHANGED <<second, db, copies, backup, restorers>>

RecordFirst(p) ==
  /\ openers[p].at = "first"
  /\ Recorded(p, openers[p].build, [openers[p] EXCEPT !.at = After("version")])

(* _migrate: a step, and the version it leads to, in two commits.  The one shipped adds *)
(* the tables of its version that are not there. *)
ApplyStep(p) ==
  /\ openers[p].at = "step"
  /\ files' = [files EXCEPT ![openers[p].file].tables = @ \cup {Due(p)}]
  /\ openers' = [openers EXCEPT ![p].at = "record"]
  /\ UNCHANGED <<second, db, copies, backup, restorers>>

RecordStep(p) ==
  /\ openers[p].at = "record"
  /\ LET left == openers[p].todo \ {Due(p)}
     IN Recorded(p, Due(p),
                 [openers[p] EXCEPT !.todo = left,
                                    !.at = IF left = {} THEN After("version") ELSE "step"])

(* The process closes its Store, or dies on the way to it. *)
Leave(p) == openers[p].at # "closed" /\ Refused(p)

-----------------------------------------------------------------------------
(* backup.py, and the user. *)

(* take: one consistent read of the file; the manifest is written last, and not for a *)
(* file that records no version. *)
Take ==
  /\ db # NoFile /\ backup = NoFile
  /\ backup' = [tables |-> files[db].tables, versions |-> files[db].versions, manifest |-> FALSE]
  /\ UNCHANGED <<second, files, db, openers, copies, restorers>>

WriteManifest ==
  /\ backup # NoFile /\ ~ backup.manifest /\ StoredVersion(backup) # 0
  /\ backup' = [backup EXCEPT !.manifest = TRUE]
  /\ UNCHANGED <<second, files, db, openers, copies, restorers>>

(* restore: everything is checked first, the database put in place last. *)
CheckRestore(p, build) ==
  /\ openers[p].at = "closed" /\ p \notin restorers
  /\ backup # NoFile /\ backup.manifest /\ StoredVersion(backup) <= build
  /\ db = NoFile /\ Len(files) < MaxFiles
  /\ restorers' = restorers \cup {p}
  /\ UNCHANGED <<second, files, db, openers, copies, backup>>

PutInPlace(p) ==
  /\ p \in restorers /\ Len(files) < MaxFiles
  /\ files' = Append(files, [Blank EXCEPT !.tables = backup.tables, !.versions = backup.versions,
                                          !.born = backup.tables])
  /\ db' = Len(files')
  /\ restorers' = restorers \ {p}
  /\ UNCHANGED <<second, openers, copies, backup>>

AbandonRestore(p) ==
  /\ p \in restorers
  /\ restorers' = restorers \ {p}
  /\ UNCHANGED <<second, files, db, openers, copies, backup>>

(* The user moves cointoss.db aside, to restore over it. *)
MoveAside ==
  /\ db # NoFile
  /\ db' = NoFile
  /\ UNCHANGED <<second, files, openers, copies, backup, restorers>>

PassSecond ==
  /\ second < LastSecond
  /\ second' = second + 1
  /\ UNCHANGED <<files, db, openers, copies, backup, restorers>>

OpeningNext ==
  \/ PassSecond
  \/ \E p \in Openers :
       \/ \E build \in Builds : Connect(p, build)
       \/ Skip(p) \/ RefuseGap(p) \/ BackUp(p)
       \/ ListTables(p) \/ CreateTable(p) \/ RefuseTable(p) \/ TablesDone(p)
       \/ CheckVersion(p) \/ RecordFirst(p) \/ ApplyStep(p) \/ RecordStep(p) \/ Leave(p)

BackupNext ==
  \/ MoveAside \/ Take \/ WriteManifest
  \/ \E p \in Openers :
       \/ \E build \in Builds : CheckRestore(p, build)
       \/ PutInPlace(p) \/ AbandonRestore(p)

FilesNext == OpeningNext \/ BackupNext

FilesSpec == FilesInit /\ [][FilesNext]_fileVars

-----------------------------------------------------------------------------
(* Properties. *)

(* store.py:900, 976: whatever processes die, and whatever others open meanwhile, a file *)
(* that records a version has every table of it, a copy and a backup no less. *)
VersionIsTrue ==
  \A f \in {files[k] : k \in DOMAIN files} \cup {copies[name] : name \in DOMAIN copies}
           \cup ({backup} \ {NoFile}) :
    \A v \in f.versions : TablesOf(v) \subseteq f.tables

(* store.py:898: a file that was migrated has a copy as an older build left it, with no *)
(* table of the newer one, however many opens it took.  Two copies of one second share a *)
(* name, and a file whose first version came while another build was opening it is new. *)
MigratedKeepsPristineCopy ==
  (db # NoFile /\ ~ files[db].raced) =>
    \A v \in files[db].from :
      \E name \in DOMAIN copies :
        /\ name[1] <= v
        /\ \/ copies[name].again
           \/ /\ copies[name].file = db
              /\ copies[name].tables \subseteq TablesOf(name[1]) \cup files[db].born
=============================================================================
