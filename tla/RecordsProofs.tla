---------------------------- MODULE RecordsProofs ----------------------------
(***************************************************************************)
(* The file Trades and Series are kept in: a recorded version is true of its *)
(* file and a migrated file has its copy, for every number of builds,        *)
(* processes and files, and whoever dies where.  Then the Series: what is    *)
(* committed loads back, for every number of programs, recipes, axes and     *)
(* dates.  Then the positions, which add up for every number of Trades,      *)
(* quantity and cost.  Last the types of all three parts.                    *)
(***************************************************************************)
EXTENDS MCRecords, SupersessionFacts, FiniteSetTheorems

Stage == {"closed", "back_up", "tables", "create", "version", "first", "step", "record", "open"}

AnyFile == [tables : SUBSET Nat, versions : SUBSET Nat, born : SUBSET Nat, raced : BOOLEAN,
            from : SUBSET Nat]
AnyOpener == [at : Stage, build : Nat, file : Nat, todo : SUBSET Nat]
AnyCopy == [file : Nat, tables : SUBSET Nat, versions : SUBSET Nat, again : BOOLEAN]
AnyBackup == [tables : SUBSET Nat, versions : SUBSET Nat, manifest : BOOLEAN]

(* Every version a file records, it has the tables of. *)
Holds(f) == \A v \in f.versions : TablesOf(v) \subseteq f.tables

(* What a process that is opening a file knows of it. *)
Ready(o, f) ==
  /\ o.at = "create" => TablesOf(o.build) \ o.todo \subseteq f.tables
  /\ o.at \in {"version", "first", "step", "record", "open"} => TablesOf(o.build) \subseteq f.tables
  /\ o.at \in {"step", "record"} => o.todo # {} /\ o.todo \subseteq TablesOf(o.build)

FilesTrue == files \in Seq(AnyFile) /\ \A k \in DOMAIN files : Holds(files[k])

OpenersReady ==
  /\ openers \in [Openers -> AnyOpener]
  /\ \A p \in Openers : openers[p].at # "closed" =>
       openers[p].file \in DOMAIN files /\ Ready(openers[p], files[openers[p].file])

CopiesTrue == \A name \in DOMAIN copies : copies[name] \in AnyCopy /\ Holds(copies[name])

BackupTrue ==
  /\ backup # NoFile => backup \in AnyBackup /\ Holds(backup)
  /\ restorers # {} => backup # NoFile /\ backup.manifest

FilesInv ==
  /\ second \in Nat /\ db \in {NoFile} \cup DOMAIN files
  /\ FilesTrue /\ OpenersReady /\ CopiesTrue /\ BackupTrue

-----------------------------------------------------------------------------
LEMMA BuildsAre ==
  ASSUME FilesAssumption
  PROVE  /\ Builds \subseteq Nat \ {0} /\ Shipped \subseteq Builds
         /\ \E n \in Nat : \A b \in Builds : b <= n
<1>1. Cardinality(Builds) \in Nat
  BY FS_CardinalityType DEF FilesAssumption
<1> QED BY <1>1 DEF FilesAssumption

(* Copying comes first, then the tables, then the version. *)
LEMMA StagesInOrder ==
  /\ Stages[1] = "back_up"
  /\ After("back_up") = "tables" /\ After("tables") = "version" /\ After("version") = "open"
<1> DEFINE n(stage) == CHOOSE m \in DOMAIN Stages : Stages[m] = stage
<1>1. DOMAIN Stages = 1..3 /\ Len(Stages) = 3
  BY DEF Stages
<1>2. Stages[1] = "back_up" /\ Stages[2] = "tables" /\ Stages[3] = "version"
  BY DEF Stages
<1>3. n("back_up") = 1 /\ n("tables") = 2 /\ n("version") = 3
  BY <1>1, <1>2
<1> QED BY <1>1, <1>2, <1>3 DEF After

(* What a process knows of its file stays so when tables come to it. *)
LEMMA ReadyStays ==
  ASSUME NEW o \in AnyOpener, NEW f \in AnyFile, NEW g \in AnyFile,
         Ready(o, f), f.tables \subseteq g.tables
  PROVE  Ready(o, g)
BY DEF Ready

(* One file changes: it gains tables and records versions it has the tables of. *)
LEMMA FileGrows ==
  ASSUME FilesInv, NEW k \in DOMAIN files, NEW g \in AnyFile,
         files' = [files EXCEPT ![k] = g], Holds(g), files[k].tables \subseteq g.tables
  PROVE  /\ FilesTrue' /\ DOMAIN files' = DOMAIN files
         /\ \A p \in Openers : openers[p].at # "closed" =>
              Ready(openers[p], files'[openers[p].file])
<1>1. files' \in Seq(AnyFile) /\ DOMAIN files' = DOMAIN files
  BY DEF FilesInv, FilesTrue
<1>2. \A j \in DOMAIN files : files'[j] = IF j = k THEN g ELSE files[j]
  BY DEF FilesInv, FilesTrue
<1>3. FilesTrue'
  BY <1>1, <1>2 DEF FilesInv, FilesTrue
<1>4. ASSUME NEW p \in Openers, openers[p].at # "closed"
      PROVE  Ready(openers[p], files'[openers[p].file])
  <2>1. openers[p] \in AnyOpener /\ openers[p].file \in DOMAIN files
    BY <1>4 DEF FilesInv, OpenersReady
  <2>2. Ready(openers[p], files[openers[p].file])
    BY <1>4 DEF FilesInv, OpenersReady
  <2>3. files[openers[p].file] \in AnyFile
    BY <2>1 DEF FilesInv, FilesTrue
  <2>4. CASE openers[p].file = k
    BY <1>2, <2>1, <2>2, <2>3, <2>4, ReadyStays
  <2>5. CASE openers[p].file # k
    BY <1>2, <2>1, <2>2, <2>5
  <2> QED BY <2>4, <2>5
<1> QED BY <1>1, <1>3, <1>4

(* A new file is appended. *)
LEMMA FileAppended ==
  ASSUME FilesInv, NEW g \in AnyFile, files' = Append(files, g), Holds(g)
  PROVE  /\ FilesTrue' /\ DOMAIN files \subseteq DOMAIN files' /\ Len(files') \in DOMAIN files'
         /\ \A k \in DOMAIN files : files'[k] = files[k]
<1>1. files \in Seq(AnyFile)
  BY DEF FilesInv, FilesTrue
<1>2. files' \in Seq(AnyFile) /\ Len(files') = Len(files) + 1
  BY <1>1
<1>3. DOMAIN files = 1..Len(files) /\ DOMAIN files' = 1..Len(files') /\ Len(files) \in Nat
  BY <1>1, <1>2
<1>4. \A k \in DOMAIN files' : files'[k] = IF k = Len(files') THEN g ELSE files[k]
  BY <1>1, <1>2, <1>3
<1>5. FilesTrue'
  BY <1>2, <1>3, <1>4 DEF FilesInv, FilesTrue
<1> QED BY <1>2, <1>3, <1>4, <1>5

(* A process goes on, or starts, with what it should know of its file. *)
LEMMA OpenerMoves ==
  ASSUME FilesInv, NEW p \in Openers, NEW o \in AnyOpener,
         openers' = [openers EXCEPT ![p] = o], UNCHANGED files,
         o.at # "closed" => o.file \in DOMAIN files /\ Ready(o, files[o.file])
  PROVE  OpenersReady'
<1>1. openers' \in [Openers -> AnyOpener]
  BY DEF FilesInv, OpenersReady
<1>2. \A q \in Openers : openers'[q] = IF q = p THEN o ELSE openers[q]
  BY DEF FilesInv, OpenersReady
<1> QED BY <1>1, <1>2 DEF FilesInv, OpenersReady

(* The same, when its file changed as in FileGrows. *)
LEMMA OpenerWrites ==
  ASSUME FilesInv, NEW p \in Openers, NEW o \in AnyOpener, NEW k \in DOMAIN files, NEW g \in AnyFile,
         files' = [files EXCEPT ![k] = g], Holds(g), files[k].tables \subseteq g.tables,
         openers' = [openers EXCEPT ![p] = o], o.file = k, Ready(o, g)
  PROVE  FilesTrue' /\ OpenersReady' /\ DOMAIN files' = DOMAIN files
<1>1. /\ FilesTrue' /\ DOMAIN files' = DOMAIN files
      /\ \A q \in Openers : openers[q].at # "closed" => Ready(openers[q], files'[openers[q].file])
  BY FileGrows
<1>2. openers' \in [Openers -> AnyOpener]
  BY DEF FilesInv, OpenersReady
<1>3. \A q \in Openers : openers'[q] = IF q = p THEN o ELSE openers[q]
  BY DEF FilesInv, OpenersReady
<1>4. files'[k] = g
  BY DEF FilesInv, FilesTrue
<1> QED BY <1>1, <1>2, <1>3, <1>4 DEF FilesInv, OpenersReady

(* Nothing but a process's place changes. *)
LEMMA OnlyOpenerMoves ==
  ASSUME FilesInv, NEW p \in Openers, NEW o \in AnyOpener,
         openers' = [openers EXCEPT ![p] = o],
         o.at # "closed" => o.file \in DOMAIN files /\ Ready(o, files[o.file]),
         UNCHANGED <<second, files, db, copies, backup, restorers>>
  PROVE  FilesInv'
<1>1. OpenersReady'
  BY OpenerMoves
<1> QED BY <1>1 DEF FilesInv, FilesTrue, CopiesTrue, BackupTrue

(* A process that closes, or dies. *)
LEMMA RefusedKeeps ==
  ASSUME FilesInv, NEW p \in Openers, Refused(p)
  PROVE  FilesInv'
<1>1. Closed \in AnyOpener /\ Closed.at = "closed"
  BY DEF Closed, AnyOpener, Stage
<1> HIDE DEF Closed
<1> QED BY <1>1, OnlyOpenerMoves DEF Refused

-----------------------------------------------------------------------------
(* Opening. *)

LEMMA ConnectKeeps ==
  ASSUME FilesInv, FilesAssumption, NEW p \in Openers, NEW build \in Builds, Connect(p, build)
  PROVE  FilesInv'
<1> DEFINE o == [Closed EXCEPT !.at = Stages[1], !.build = build, !.file = db']
<1>1. /\ db' \in DOMAIN files' /\ FilesTrue' /\ DOMAIN files \subseteq DOMAIN files'
      /\ \A k \in DOMAIN files : files'[k] = files[k]
  <2>1. CASE db = NoFile
    <3>1. Blank \in AnyFile /\ Holds(Blank)
      BY DEF Blank, AnyFile, Holds
    <3>2. files' = Append(files, Blank) /\ db' = Len(files')
      BY <2>1 DEF Connect
    <3> HIDE DEF Blank
    <3> QED BY <3>1, <3>2, FileAppended
  <2>2. CASE db # NoFile
    BY <2>2 DEF Connect, FilesInv, FilesTrue
  <2> QED BY <2>1, <2>2
<1>2. Closed \in AnyOpener
  BY DEF Closed, AnyOpener, Stage
<1>3. build \in Nat /\ db' \in Nat
  <2>1. build \in Nat
    BY BuildsAre
  <2>2. db' \in Nat
    BY <1>1 DEF FilesTrue
  <2> QED BY <2>1, <2>2
<1>4. o \in AnyOpener /\ o.at = "back_up" /\ o.file = db'
  BY <1>2, <1>3, StagesInOrder DEF AnyOpener, Stage
<1>5. Ready(o, files'[db'])
  BY <1>4 DEF Ready
<1>6. openers' = [openers EXCEPT ![p] = o] /\ UNCHANGED <<second, copies, backup, restorers>>
  BY DEF Connect
<1> HIDE DEF o
<1>7. openers' \in [Openers -> AnyOpener]
  BY <1>4, <1>6 DEF FilesInv, OpenersReady
<1>8. \A q \in Openers : openers'[q] = IF q = p THEN o ELSE openers[q]
  BY <1>6 DEF FilesInv, OpenersReady
<1>9. OpenersReady'
  BY <1>1, <1>4, <1>5, <1>7, <1>8 DEF FilesInv, OpenersReady
<1> QED BY <1>1, <1>6, <1>9 DEF FilesInv, CopiesTrue, BackupTrue

LEMMA SkipKeeps ==
  ASSUME FilesInv, NEW p \in Openers, Skip(p)
  PROVE  FilesInv'
<1> DEFINE o == [openers[p] EXCEPT !.at = After("back_up")]
<1>1. openers[p] \in AnyOpener /\ openers[p].file \in DOMAIN files
  BY DEF FilesInv, OpenersReady, Skip
<1>2. o \in AnyOpener /\ o.at = "tables" /\ o.file = openers[p].file
  BY <1>1, StagesInOrder DEF AnyOpener, Stage
<1>3. openers' = [openers EXCEPT ![p] = o]
  BY DEF Skip
<1> HIDE DEF o
<1> QED BY <1>1, <1>2, <1>3, OnlyOpenerMoves DEF Skip, Ready

LEMMA BackUpKeeps ==
  ASSUME FilesInv, NEW p \in Openers, BackUp(p)
  PROVE  FilesInv'
<1> DEFINE o    == [openers[p] EXCEPT !.at = After("back_up")]
           name == <<StoredVersion(File(p)), second>>
           copy == [file |-> db, tables |-> files[db].tables, versions |-> files[db].versions,
                    again |-> name \in DOMAIN copies]
<1>1. openers[p] \in AnyOpener /\ openers[p].file \in DOMAIN files
  BY DEF FilesInv, OpenersReady, BackUp, Copying
<1>2. o \in AnyOpener /\ o.at = "tables" /\ o.file = openers[p].file
  BY <1>1, StagesInOrder DEF AnyOpener, Stage
<1>3. openers' = [openers EXCEPT ![p] = o] /\ UNCHANGED <<second, files, db, backup, restorers>>
  BY DEF BackUp
<1>4. db \in DOMAIN files /\ db \in Nat /\ files[db] \in AnyFile /\ Holds(files[db])
  BY DEF BackUp, FilesInv, FilesTrue
<1>5. copy \in AnyCopy /\ Holds(copy)
  BY <1>4 DEF AnyCopy, AnyFile, Holds
<1>6. copies' = [n \in DOMAIN copies \cup {name} |-> IF n = name THEN copy ELSE copies[n]]
  BY DEF BackUp
<1>7. OpenersReady'
  <2> HIDE DEF o
  <2> QED BY <1>1, <1>2, <1>3, OpenerMoves DEF Ready
<1>8. CopiesTrue'
  <2> HIDE DEF copy, name
  <2> QED BY <1>5, <1>6 DEF FilesInv, CopiesTrue
<1> QED BY <1>3, <1>7, <1>8 DEF FilesInv, FilesTrue, BackupTrue

LEMMA ListTablesKeeps ==
  ASSUME FilesInv, FilesAssumption, NEW p \in Openers, ListTables(p)
  PROVE  FilesInv'
<1> DEFINE o == [openers[p] EXCEPT !.at = "create", !.todo = Missing(File(p), openers[p].build)]
<1>1. openers[p] \in AnyOpener /\ openers[p].file \in DOMAIN files
  BY DEF FilesInv, OpenersReady, ListTables
<1>2. TablesOf(openers[p].build) \in SUBSET Nat
  BY <1>1 DEF AnyOpener, TablesOf
<1>3. o.todo \in SUBSET Nat
  BY <1>1, <1>2 DEF Missing, AnyOpener
<1>4. /\ o \in AnyOpener /\ o.at = "create" /\ o.file = openers[p].file
      /\ o.build = openers[p].build /\ o.todo = TablesOf(o.build) \ File(p).tables
  BY <1>1, <1>3 DEF AnyOpener, Stage, Missing
<1>5. openers' = [openers EXCEPT ![p] = o]
  BY DEF ListTables
<1> HIDE DEF o
<1>6. Ready(o, files[o.file])
  BY <1>4 DEF Ready, File
<1> QED BY <1>1, <1>4, <1>5, <1>6, OnlyOpenerMoves DEF ListTables

(* A process's own file, as it writes to it. *)
LEMMA OwnFile ==
  ASSUME FilesInv, NEW p \in Openers, openers[p].at # "closed"
  PROVE  /\ openers[p] \in AnyOpener /\ openers[p].file \in DOMAIN files
         /\ File(p) \in AnyFile /\ Holds(File(p)) /\ Ready(openers[p], File(p))
BY DEF FilesInv, OpenersReady, FilesTrue, File

LEMMA CreateTableKeeps ==
  ASSUME FilesInv, NEW p \in Openers, CreateTable(p)
  PROVE  FilesInv'
<1> DEFINE o == [openers[p] EXCEPT !.todo = @ \ {Due(p)}]
           g == [File(p) EXCEPT !.tables = @ \cup {Due(p)}]
           k == openers[p].file
<1>1. /\ openers[p] \in AnyOpener /\ k \in DOMAIN files
      /\ File(p) \in AnyFile /\ Holds(File(p)) /\ Ready(openers[p], File(p))
  BY OwnFile DEF CreateTable
<1>2. Due(p) \in Nat
  BY <1>1, MinIsMember DEF Due, CreateTable, AnyOpener
<1>3. /\ o \in AnyOpener /\ o.at = "create" /\ o.file = k
      /\ o.build = openers[p].build /\ o.todo = openers[p].todo \ {Due(p)}
  BY <1>1 DEF AnyOpener, CreateTable
<1>4. /\ g \in AnyFile /\ g.tables = File(p).tables \cup {Due(p)}
      /\ g.versions = File(p).versions
  BY <1>1, <1>2 DEF AnyFile
<1>5. openers' = [openers EXCEPT ![p] = o] /\ UNCHANGED <<second, db, copies, backup, restorers>>
  BY DEF CreateTable
<1>6. files' = [files EXCEPT ![k] = g]
  BY DEF CreateTable, File
<1>7. files[k].tables \subseteq g.tables
  BY <1>4 DEF File
<1> HIDE DEF o, g, k
<1>8. Holds(g)
  BY <1>1, <1>4 DEF Holds
<1>9. Ready(o, g)
  BY <1>1, <1>3, <1>4 DEF Ready, CreateTable
<1>10. FilesTrue' /\ OpenersReady' /\ DOMAIN files' = DOMAIN files
  BY <1>1, <1>3, <1>4, <1>5, <1>6, <1>7, <1>8, <1>9, OpenerWrites
<1> QED BY <1>5, <1>10 DEF FilesInv, CopiesTrue, BackupTrue

LEMMA TablesDoneKeeps ==
  ASSUME FilesInv, NEW p \in Openers, TablesDone(p)
  PROVE  FilesInv'
<1> DEFINE o == [openers[p] EXCEPT !.at = After("tables")]
<1>1. openers[p] \in AnyOpener /\ openers[p].file \in DOMAIN files /\ Ready(openers[p], File(p))
  BY OwnFile DEF TablesDone
<1>2. /\ o \in AnyOpener /\ o.at = "version" /\ o.file = openers[p].file
      /\ o.build = openers[p].build
  BY <1>1, StagesInOrder DEF AnyOpener, Stage
<1>3. openers' = [openers EXCEPT ![p] = o]
  BY DEF TablesDone
<1> HIDE DEF o
<1>4. Ready(o, files[o.file])
  BY <1>1, <1>2 DEF Ready, TablesDone, File
<1> QED BY <1>1, <1>2, <1>3, <1>4, OnlyOpenerMoves DEF TablesDone

LEMMA CheckVersionKeeps ==
  ASSUME FilesInv, FilesAssumption, NEW p \in Openers, CheckVersion(p)
  PROVE  FilesInv'
<1> DEFINE stored == StoredVersion(File(p))
           build  == openers[p].build
           k      == openers[p].file
<1>1. /\ openers[p] \in AnyOpener /\ k \in DOMAIN files
      /\ File(p) \in AnyFile /\ Holds(File(p)) /\ Ready(openers[p], File(p))
      /\ openers[p].at = "version"
  BY OwnFile DEF CheckVersion
<1>2. TablesOf(build) \subseteq File(p).tables
  BY <1>1 DEF Ready
<1>3. CASE /\ stored \in {0, build}
           /\ openers' = [openers EXCEPT ![p].at = IF stored = 0 THEN "first" ELSE After("version")]
           /\ UNCHANGED files
  <2> DEFINE o == [openers[p] EXCEPT !.at = IF stored = 0 THEN "first" ELSE After("version")]
  <2>1. /\ o \in AnyOpener /\ o.at \in {"first", "open"} /\ o.file = k /\ o.build = build
    BY <1>1, StagesInOrder DEF AnyOpener, Stage
  <2>2. openers' = [openers EXCEPT ![p] = o]
    BY <1>3
  <2> HIDE DEF o
  <2>3. Ready(o, files[o.file])
    BY <1>2, <2>1 DEF Ready, File
  <2> QED BY <1>1, <1>3, <2>1, <2>2, <2>3, OnlyOpenerMoves DEF CheckVersion
<1>4. CASE openers' = [openers EXCEPT ![p] = Closed] /\ UNCHANGED files
  BY <1>4, RefusedKeeps DEF Refused, CheckVersion
<1>5. CASE /\ stored \in 1..build - 1 /\ ~ Gap(stored, build)
           /\ openers' = [openers EXCEPT ![p].at = "step", ![p].todo = Steps(stored, build)]
           /\ files' = [files EXCEPT ![k].from = @ \cup {stored}]
  <2> DEFINE o == [openers[p] EXCEPT !.at = "step", !.todo = Steps(stored, build)]
             g == [File(p) EXCEPT !.from = @ \cup {stored}]
  <2>1. build \in Nat /\ stored \in Nat
    BY <1>1, <1>5 DEF AnyOpener
  <2>2. Steps(stored, build) \in SUBSET Nat
    BY BuildsAre DEF Steps
  <2>3. Steps(stored, build) # {} /\ Steps(stored, build) \subseteq TablesOf(build)
    BY <1>5, <2>1, <2>2, BuildsAre DEF Gap, Steps, TablesOf
  <2>4. /\ o \in AnyOpener /\ o.at = "step" /\ o.file = k /\ o.build = build
        /\ o.todo = Steps(stored, build)
    BY <1>1, <2>2 DEF AnyOpener, Stage
  <2>5. g \in AnyFile /\ g.tables = File(p).tables /\ g.versions = File(p).versions
    BY <1>1, <2>1 DEF AnyFile
  <2>6. openers' = [openers EXCEPT ![p] = o]
    BY <1>5
  <2>7. files' = [files EXCEPT ![k] = g]
    BY <1>5 DEF File
  <2> HIDE DEF o, g
  <2>8. Ready(o, g)
    BY <1>2, <2>3, <2>4, <2>5 DEF Ready
  <2>9. Holds(g) /\ files[k].tables \subseteq g.tables
    BY <1>1, <2>5 DEF Holds, File
  <2>10. FilesTrue' /\ OpenersReady' /\ DOMAIN files' = DOMAIN files
    <3> HIDE DEF k
    <3> QED BY <1>1, <2>4, <2>5, <2>6, <2>7, <2>8, <2>9, OpenerWrites
  <2>11. UNCHANGED <<second, db, copies, backup, restorers>>
    BY DEF CheckVersion
  <2> QED BY <2>10, <2>11 DEF FilesInv, CopiesTrue, BackupTrue
<1> QED BY <1>3, <1>4, <1>5 DEF CheckVersion

(* A version is recorded that the file has the tables of. *)
LEMMA RecordedKeeps ==
  ASSUME FilesInv, NEW p \in Openers, openers[p].at # "closed",
         NEW version \in Nat, TablesOf(version) \subseteq File(p).tables,
         NEW o \in AnyOpener, o.file = openers[p].file, Ready(o, File(p)),
         Recorded(p, version, o)
  PROVE  FilesInv'
<1> DEFINE k == openers[p].file
           g == [File(p) EXCEPT !.versions = @ \cup {version},
                                !.born = IF File(p).versions = {} THEN File(p).tables ELSE @,
                                !.raced = @ \/ OpenedBeside(p)]
<1>1. /\ openers[p] \in AnyOpener /\ k \in DOMAIN files
      /\ File(p) \in AnyFile /\ Holds(File(p))
  BY OwnFile
<1>2. CASE version \in File(p).versions \/ 0 \notin File(p).tables
  BY <1>2, RefusedKeeps DEF Recorded
<1>3. CASE ~ (version \in File(p).versions \/ 0 \notin File(p).tables)
  <2>1. /\ files' = [files EXCEPT ![k] = g] /\ openers' = [openers EXCEPT ![p] = o]
        /\ UNCHANGED <<second, db, copies, backup, restorers>>
    BY <1>3 DEF Recorded, File
  <2>2. OpenedBeside(p) \in BOOLEAN
    BY DEF OpenedBeside
  <2>3. /\ g \in AnyFile /\ g.tables = File(p).tables
        /\ g.versions = File(p).versions \cup {version}
    BY <1>1, <2>2 DEF AnyFile
  <2> HIDE DEF g
  <2>4. Holds(g) /\ files[k].tables \subseteq g.tables
    BY <1>1, <2>3 DEF Holds, File
  <2>5. Ready(o, g)
    BY <1>1, <2>3, ReadyStays
  <2>6. FilesTrue' /\ OpenersReady' /\ DOMAIN files' = DOMAIN files
    <3> HIDE DEF k
    <3> QED BY <1>1, <2>1, <2>3, <2>4, <2>5, OpenerWrites DEF k
  <2> QED BY <2>1, <2>6 DEF FilesInv, CopiesTrue, BackupTrue
<1> QED BY <1>2, <1>3

LEMMA RecordFirstKeeps ==
  ASSUME FilesInv, NEW p \in Openers, RecordFirst(p)
  PROVE  FilesInv'
<1> DEFINE o == [openers[p] EXCEPT !.at = After("version")]
<1>1. /\ openers[p] \in AnyOpener /\ Ready(openers[p], File(p)) /\ openers[p].at = "first"
  BY OwnFile DEF RecordFirst
<1>2. /\ o \in AnyOpener /\ o.at = "open" /\ o.file = openers[p].file
      /\ o.build = openers[p].build /\ o.build \in Nat
  BY <1>1, StagesInOrder DEF AnyOpener, Stage
<1>3. Recorded(p, openers[p].build, o)
  BY DEF RecordFirst
<1> HIDE DEF o
<1>4. TablesOf(openers[p].build) \subseteq File(p).tables /\ Ready(o, File(p))
  BY <1>1, <1>2 DEF Ready
<1> QED BY <1>1, <1>2, <1>3, <1>4, RecordedKeeps

(* The step to apply next leads to a version the process has the tables of. *)
LEMMA DueIsBuilt ==
  ASSUME FilesInv, NEW p \in Openers, openers[p].at \in {"step", "record"}
  PROVE  /\ Due(p) \in openers[p].todo /\ Due(p) \in Nat
         /\ Due(p) \in File(p).tables /\ TablesOf(Due(p)) \subseteq File(p).tables
<1>1. openers[p] \in AnyOpener /\ Ready(openers[p], File(p))
  BY OwnFile
<1>2. /\ openers[p].todo \in SUBSET Nat /\ openers[p].todo # {}
      /\ openers[p].todo \subseteq TablesOf(openers[p].build)
      /\ TablesOf(openers[p].build) \subseteq File(p).tables /\ openers[p].build \in Nat
  BY <1>1 DEF Ready, AnyOpener
<1>3. Due(p) \in openers[p].todo
  BY <1>2, MinIsMember DEF Due
<1>4. TablesOf(Due(p)) \subseteq TablesOf(openers[p].build)
  BY <1>2, <1>3 DEF TablesOf
<1> QED BY <1>2, <1>3, <1>4

LEMMA ApplyStepKeeps ==
  ASSUME FilesInv, NEW p \in Openers, ApplyStep(p)
  PROVE  FilesInv'
<1> DEFINE o == [openers[p] EXCEPT !.at = "record"]
           g == [File(p) EXCEPT !.tables = @ \cup {Due(p)}]
           k == openers[p].file
<1>1. /\ openers[p] \in AnyOpener /\ k \in DOMAIN files /\ openers[p].at = "step"
      /\ File(p) \in AnyFile /\ Holds(File(p)) /\ Ready(openers[p], File(p))
  BY OwnFile DEF ApplyStep
<1>2. Due(p) \in Nat
  BY <1>1, DueIsBuilt
<1>3. /\ o \in AnyOpener /\ o.at = "record" /\ o.file = k
      /\ o.build = openers[p].build /\ o.todo = openers[p].todo
  BY <1>1 DEF AnyOpener, Stage
<1>4. /\ g \in AnyFile /\ g.tables = File(p).tables \cup {Due(p)}
      /\ g.versions = File(p).versions
  BY <1>1, <1>2 DEF AnyFile
<1>5. /\ openers' = [openers EXCEPT ![p] = o] /\ files' = [files EXCEPT ![k] = g]
      /\ UNCHANGED <<second, db, copies, backup, restorers>>
  BY DEF ApplyStep, File
<1> HIDE DEF o, g
<1>6. Holds(g) /\ files[k].tables \subseteq g.tables
  BY <1>1, <1>4 DEF Holds, File
<1>7. Ready(o, g)
  BY <1>1, <1>3, <1>4 DEF Ready
<1>8. FilesTrue' /\ OpenersReady' /\ DOMAIN files' = DOMAIN files
  <2> HIDE DEF k
  <2> QED BY <1>1, <1>3, <1>4, <1>5, <1>6, <1>7, OpenerWrites
<1> QED BY <1>5, <1>8 DEF FilesInv, CopiesTrue, BackupTrue

LEMMA RecordStepKeeps ==
  ASSUME FilesInv, NEW p \in Openers, RecordStep(p)
  PROVE  FilesInv'
<1> DEFINE left == openers[p].todo \ {Due(p)}
           o    == [openers[p] EXCEPT !.todo = left,
                                      !.at = IF left = {} THEN After("version") ELSE "step"]
<1>1. /\ openers[p] \in AnyOpener /\ Ready(openers[p], File(p)) /\ openers[p].at = "record"
  BY OwnFile DEF RecordStep
<1>2. Due(p) \in Nat /\ TablesOf(Due(p)) \subseteq File(p).tables
  BY <1>1, DueIsBuilt
<1>3. /\ o \in AnyOpener /\ o.file = openers[p].file /\ o.build = openers[p].build
      /\ o.todo = left /\ o.at = IF left = {} THEN "open" ELSE "step"
  BY <1>1, StagesInOrder DEF AnyOpener, Stage
<1>4. Recorded(p, Due(p), o)
  BY DEF RecordStep
<1>5. Ready(o, File(p))
  <2> HIDE DEF o
  <2> QED BY <1>1, <1>3 DEF Ready
<1> HIDE DEF o
<1> QED BY <1>1, <1>2, <1>3, <1>4, <1>5, RecordedKeeps

-----------------------------------------------------------------------------
(* Copies, backups and restores. *)

LEMMA TakeKeeps ==
  ASSUME FilesInv, Take
  PROVE  FilesInv'
<1>1. db \in DOMAIN files /\ files[db] \in AnyFile /\ Holds(files[db])
  BY DEF Take, FilesInv, FilesTrue
<1>2. backup' \in AnyBackup /\ Holds(backup')
  BY <1>1 DEF Take, AnyBackup, AnyFile, Holds
<1> QED BY <1>2 DEF Take, FilesInv, FilesTrue, OpenersReady, CopiesTrue, BackupTrue

LEMMA WriteManifestKeeps ==
  ASSUME FilesInv, WriteManifest
  PROVE  FilesInv'
<1>1. backup \in AnyBackup /\ Holds(backup)
  BY DEF WriteManifest, FilesInv, BackupTrue
<1>2. backup' \in AnyBackup /\ Holds(backup')
  BY <1>1 DEF WriteManifest, AnyBackup, Holds
<1>3. restorers = {}
  BY DEF WriteManifest, FilesInv, BackupTrue
<1> QED BY <1>2, <1>3 DEF WriteManifest, FilesInv, FilesTrue, OpenersReady, CopiesTrue, BackupTrue

LEMMA CheckRestoreKeeps ==
  ASSUME FilesInv, NEW p \in Openers, NEW build \in Builds, CheckRestore(p, build)
  PROVE  FilesInv'
BY DEF CheckRestore, FilesInv, FilesTrue, OpenersReady, CopiesTrue, BackupTrue

LEMMA PutInPlaceKeeps ==
  ASSUME FilesInv, NEW p \in Openers, PutInPlace(p)
  PROVE  FilesInv'
<1> DEFINE g == [Blank EXCEPT !.tables = backup.tables, !.versions = backup.versions,
                              !.born = backup.tables]
<1>1. backup \in AnyBackup /\ Holds(backup) /\ backup.manifest
  BY DEF PutInPlace, FilesInv, BackupTrue
<1>2. Blank \in AnyFile
  BY DEF Blank, AnyFile
<1>3. g \in AnyFile /\ g.tables = backup.tables /\ g.versions = backup.versions
  BY <1>1, <1>2 DEF AnyFile, AnyBackup
<1>4. files' = Append(files, g) /\ db' = Len(files') /\ restorers' = restorers \ {p}
  BY DEF PutInPlace
<1> HIDE DEF g
<1>5. Holds(g)
  BY <1>1, <1>3 DEF Holds
<1>6. /\ FilesTrue' /\ DOMAIN files \subseteq DOMAIN files' /\ Len(files') \in DOMAIN files'
      /\ \A k \in DOMAIN files : files'[k] = files[k]
  BY <1>3, <1>4, <1>5, FileAppended
<1>7. OpenersReady'
  BY <1>6 DEF PutInPlace, FilesInv, OpenersReady
<1> QED BY <1>4, <1>6, <1>7 DEF PutInPlace, FilesInv, CopiesTrue, BackupTrue

LEMMA OthersKeep ==
  ASSUME FilesInv, \/ MoveAside \/ PassSecond \/ \E p \in Openers : AbandonRestore(p)
  PROVE  FilesInv'
<1>1. CASE MoveAside
  BY <1>1 DEF MoveAside, FilesInv, FilesTrue, OpenersReady, CopiesTrue, BackupTrue
<1>2. CASE PassSecond
  BY <1>2 DEF PassSecond, FilesInv, FilesTrue, OpenersReady, CopiesTrue, BackupTrue
<1>3. CASE \E p \in Openers : AbandonRestore(p)
  BY <1>3 DEF AbandonRestore, FilesInv, FilesTrue, OpenersReady, CopiesTrue, BackupTrue
<1> QED BY <1>1, <1>2, <1>3

-----------------------------------------------------------------------------
LEMMA FilesInvInitially == FilesInit => FilesInv
<1> SUFFICES ASSUME FilesInit PROVE FilesInv
  OBVIOUS
<1>1. files \in Seq(AnyFile) /\ DOMAIN files = {} /\ DOMAIN copies = {}
  BY DEF FilesInit
<1>2. Closed \in AnyOpener /\ Closed.at = "closed"
  BY DEF Closed, AnyOpener, Stage
<1>3. OpenersReady
  <2> HIDE DEF Closed
  <2> QED BY <1>2 DEF FilesInit, OpenersReady
<1> QED BY <1>1, <1>3 DEF FilesInit, FilesInv, FilesTrue, CopiesTrue, BackupTrue

LEMMA FilesInvKept == FilesAssumption /\ FilesInv /\ [FilesNext]_fileVars => FilesInv'
<1> SUFFICES ASSUME FilesAssumption, FilesInv, [FilesNext]_fileVars PROVE FilesInv'
  OBVIOUS
<1>1. CASE \E p \in Openers, build \in Builds : Connect(p, build) \/ CheckRestore(p, build)
  BY <1>1, ConnectKeeps, CheckRestoreKeeps
<1>2. CASE \E p \in Openers : Skip(p) \/ BackUp(p) \/ ListTables(p) \/ CreateTable(p) \/ TablesDone(p)
  BY <1>2, SkipKeeps, BackUpKeeps, ListTablesKeeps, CreateTableKeeps, TablesDoneKeeps
<1>3. CASE \E p \in Openers : RefuseGap(p) \/ RefuseTable(p) \/ Leave(p)
  BY <1>3, RefusedKeeps DEF RefuseGap, RefuseTable, Leave
<1>4. CASE \E p \in Openers : CheckVersion(p) \/ RecordFirst(p) \/ ApplyStep(p) \/ RecordStep(p)
  BY <1>4, CheckVersionKeeps, RecordFirstKeeps, ApplyStepKeeps, RecordStepKeeps
<1>5. CASE Take \/ WriteManifest \/ \E p \in Openers : PutInPlace(p)
  BY <1>5, TakeKeeps, WriteManifestKeeps, PutInPlaceKeeps
<1>6. CASE MoveAside \/ PassSecond \/ \E p \in Openers : AbandonRestore(p)
  BY <1>6, OthersKeep
<1>7. CASE UNCHANGED fileVars
  BY <1>7 DEF fileVars, FilesInv, FilesTrue, OpenersReady, CopiesTrue, BackupTrue
<1> QED
  BY <1>1, <1>2, <1>3, <1>4, <1>5, <1>6, <1>7 DEF FilesNext, OpeningNext, BackupNext

LEMMA FilesInvIsTrue == FilesInv => VersionIsTrue
BY DEF FilesInv, FilesTrue, CopiesTrue, BackupTrue, Holds, VersionIsTrue

(* store.py:900, 976: whatever processes of whatever builds open, migrate, back up and    *)
(* restore the file, and wherever they die, a file that records a version has every table *)
(* of it, and so has every copy and backup made of it.                                    *)
THEOREM VersionsStayTrue == FilesSpec => []VersionIsTrue
<1>1. FilesSpec => []FilesInv
  BY FilesAssumption, FilesInvInitially, FilesInvKept, PTL DEF FilesSpec
<1> QED BY <1>1, FilesInvIsTrue, PTL

-----------------------------------------------------------------------------
(* The copy a migrated file has. *)

AllTables == UNION {TablesOf(build) : build \in Builds}

OpenerTyped(o) ==
  o.at # "closed" =>
    /\ o.build \in Builds
    /\ o.at = "create" => o.todo \subseteq TablesOf(o.build)
    /\ o.at \in {"step", "record"} => o.todo \subseteq Shipped

FilesTyped ==
  /\ second \in 0..LastSecond /\ restorers \subseteq Openers
  /\ \A k \in DOMAIN files : files[k].tables \subseteq AllTables /\ files[k].versions \subseteq Builds
  /\ backup # NoFile => backup.tables \subseteq AllTables /\ backup.versions \subseteq Builds
  /\ \A p \in Openers : OpenerTyped(openers[p])
  /\ \A name \in DOMAIN copies : copies[name].file \in DOMAIN files /\ name[1] \in Nat

(* A file has no table its latest version did not bring, but for what it was born with; *)
(* or there is a copy that has none. *)
Pristine(f) == f.tables \subseteq TablesOf(Latest(f.versions)) \cup f.born

Kept(v, f) ==
  \E name \in DOMAIN copies :
    /\ name[1] <= v
    /\ \/ copies[name].again
       \/ /\ copies[name].file = db
          /\ copies[name].tables \subseteq TablesOf(name[1]) \cup f.born

(* What a process on its way through the file relies on: once it is past copying, a file *)
(* it will migrate has been copied. *)
Knows(o, f) ==
  /\ o.at = "first" => f.versions = {}
  /\ o.at \in {"step", "record"} => f.versions # {} /\ Kept(Latest(f.versions), f)
  /\ o.at \in {"tables", "create", "version"} /\ f.versions # {} /\ Latest(f.versions) < o.build =>
       Kept(Latest(f.versions), f)

Covered(f) ==
  /\ f.versions = {} => f.from = {}
  /\ f.versions # {} => Pristine(f) \/ Kept(Latest(f.versions), f)
  /\ \A v \in f.from : Kept(v, f)

PristineInv ==
  /\ FilesInv /\ FilesTyped
  /\ db # NoFile /\ ~ files[db].raced =>
       /\ Covered(files[db])
       /\ \A p \in Openers : openers[p].at # "closed" /\ openers[p].file = db =>
            Knows(openers[p], files[db])

-----------------------------------------------------------------------------
(* The latest of the versions a file records is one of them, and 0 when there is none. *)
LEMMA LatestIs ==
  ASSUME FilesAssumption, NEW V \in SUBSET Builds
  PROVE  /\ Latest(V) \in Nat /\ \A v \in V : v <= Latest(V)
         /\ V = {} <=> Latest(V) = 0
         /\ V # {} => Latest(V) \in V
<1>1. Builds \subseteq Nat \ {0} /\ V \in SUBSET Nat
  BY BuildsAre
<1>2. PICK n \in Nat : \A b \in Builds : b <= n
  BY BuildsAre
<1>3. CASE V = {}
  BY <1>3 DEF Latest
<1>4. CASE V # {}
  <2>1. Max(V) \in V /\ \A v \in V : v <= Max(V)
    BY <1>1, <1>2, <1>4, MaxIsMember
  <2> QED BY <1>1, <1>4, <2>1 DEF Latest
<1> QED BY <1>3, <1>4

LEMMA LatestGrows ==
  ASSUME FilesAssumption, NEW V \in SUBSET Builds, NEW W \in SUBSET Builds, V \subseteq W
  PROVE  Latest(V) <= Latest(W)
<1>1. V # {} => Latest(V) \in V
  BY LatestIs
<1>2. Latest(W) \in Nat /\ \A w \in W : w <= Latest(W)
  BY LatestIs
<1>3. V = {} => Latest(V) = 0
  BY LatestIs
<1>4. CASE V = {}
  BY <1>2, <1>3, <1>4
<1>5. CASE V # {}
  BY <1>1, <1>2, <1>5
<1> QED BY <1>4, <1>5

(* A copy kept for one version serves a later one, and a file born with more. *)
LEMMA KeptServes ==
  ASSUME FilesTyped, NEW v \in Nat, NEW w \in Nat, v <= w, NEW f, NEW g, f.born \subseteq g.born,
         Kept(v, f)
  PROVE  Kept(w, g)
<1>1. PICK name \in DOMAIN copies :
        /\ name[1] <= v
        /\ \/ copies[name].again
           \/ /\ copies[name].file = db
              /\ copies[name].tables \subseteq TablesOf(name[1]) \cup f.born
  BY DEF Kept
<1>2. name[1] <= w
  BY <1>1 DEF FilesTyped
<1>3. \/ copies[name].again
      \/ /\ copies[name].file = db
         /\ copies[name].tables \subseteq TablesOf(name[1]) \cup g.born
  BY <1>1
<1> QED BY <1>2, <1>3 DEF Kept

(* What a file records, it has table 0 beside. *)
LEMMA StoredIsLatest ==
  ASSUME FilesAssumption, NEW f, f.versions \subseteq Builds, Holds(f)
  PROVE  StoredVersion(f) = Latest(f.versions)
<1>1. \A v \in f.versions : 0 \in TablesOf(v)
  <2>1. \A v \in f.versions : v \in Nat
    BY BuildsAre
  <2>2. \A v \in Nat : 0 \in TablesOf(v)
    BY DEF TablesOf
  <2> QED BY <2>1, <2>2
<1>3. f.versions # {} => 0 \in f.tables
  BY <1>1 DEF Holds
<1>2. f.versions = {} => Latest(f.versions) = 0
  BY DEF Latest
<1> QED BY <1>2, <1>3 DEF StoredVersion

-----------------------------------------------------------------------------
(* A process goes on, and its file stays. *)
LEMMA OpenerSteps ==
  ASSUME PristineInv, FilesInv', NEW p \in Openers, NEW o,
         openers' = [openers EXCEPT ![p] = o],
         UNCHANGED <<second, files, db, copies, backup, restorers>>,
         OpenerTyped(o),
         db # NoFile /\ ~ files[db].raced /\ o.at # "closed" /\ o.file = db => Knows(o, files[db])
  PROVE  PristineInv'
<1>1. \A q \in Openers : openers'[q] = IF q = p THEN o ELSE openers[q]
  BY DEF PristineInv, FilesInv, OpenersReady
<1>2. FilesTyped'
  BY <1>1 DEF PristineInv, FilesTyped, OpenerTyped
<1>3. db # NoFile /\ ~ files[db].raced => Covered(files[db])'
  BY DEF PristineInv, Covered, Kept, Pristine
<1>4. ASSUME db # NoFile, ~ files[db].raced, NEW q \in Openers,
             openers'[q].at # "closed", openers'[q].file = db
      PROVE  Knows(openers'[q], files[db])
  <2>1. CASE q = p
    BY <1>1, <1>4, <2>1
  <2>2. CASE q # p
    BY <1>1, <1>4, <2>2 DEF PristineInv
  <2> QED BY <2>1, <2>2
<1>5. \A q \in Openers : Knows(openers'[q], files[db]) => Knows(openers[q], files[db])'
  BY DEF Knows, Kept
<1> QED BY <1>2, <1>3, <1>4, <1>5 DEF PristineInv

(* A process goes on, and writes to its file. *)
LEMMA FileSteps ==
  ASSUME PristineInv, FilesInv', NEW p \in Openers, NEW o, NEW k \in DOMAIN files, NEW g,
         files' = [files EXCEPT ![k] = g], openers' = [openers EXCEPT ![p] = o], o.file = k,
         UNCHANGED <<second, db, copies, backup, restorers>>,
         OpenerTyped(o), g.tables \subseteq AllTables, g.versions \subseteq Builds,
         db # NoFile /\ db = k /\ ~ g.raced =>
           /\ Covered(g) /\ Knows(o, g)
           /\ \A q \in Openers \ {p} : openers[q].at # "closed" /\ openers[q].file = db =>
                Knows(openers[q], g)
  PROVE  PristineInv'
<1>1. /\ \A q \in Openers : openers'[q] = IF q = p THEN o ELSE openers[q]
      /\ DOMAIN files' = DOMAIN files
      /\ \A j \in DOMAIN files : files'[j] = IF j = k THEN g ELSE files[j]
  BY DEF PristineInv, FilesInv, OpenersReady, FilesTrue
<1>2. FilesTyped'
  BY <1>1 DEF PristineInv, FilesTyped, OpenerTyped
<1>3. \A f : Covered(f) => Covered(f)'
  BY DEF Covered, Kept, Pristine
<1>4. ASSUME NEW f, NEW r, Knows(r, f) PROVE Knows(r, f)'
  BY <1>4 DEF Knows, Kept
<1>5. ASSUME db' # NoFile, ~ files'[db'].raced
      PROVE  /\ Covered(files'[db'])
             /\ \A q \in Openers : openers'[q].at # "closed" /\ openers'[q].file = db =>
                  Knows(openers'[q], files'[db'])
  <2>1. db' = db /\ db \in DOMAIN files
    BY <1>5 DEF PristineInv, FilesInv
  <2>2. CASE db = k
    <3>1. files'[db] = g
      BY <1>1, <2>1, <2>2
    <3> QED BY <1>1, <1>5, <2>1, <2>2, <3>1
  <2>3. CASE db # k
    <3>1. files'[db] = files[db]
      BY <1>1, <2>1, <2>3
    <3> QED BY <1>1, <1>5, <2>1, <2>3, <3>1 DEF PristineInv
  <2> QED BY <2>2, <2>3
<1>6. UNCHANGED db
  OBVIOUS
<1>7. db' # NoFile /\ ~ files'[db'].raced => Covered(files[db])'
  BY <1>3, <1>5
<1>8. db' # NoFile /\ ~ files'[db'].raced =>
        \A q \in Openers : openers'[q].at # "closed" /\ openers'[q].file = db' =>
          Knows(openers[q], files[db])'
  BY <1>4, <1>5, <1>6
<1> QED BY <1>2, <1>7, <1>8 DEF PristineInv

(* What a process knows of a file stays so while the file records no other version. *)
LEMMA KnowsStays ==
  ASSUME NEW o, NEW r, NEW f, NEW g, Knows(o, f), g.versions = f.versions, g.born = f.born,
         r.at = o.at, r.build = o.build
  PROVE  Knows(r, g)
BY DEF Knows, Kept

-----------------------------------------------------------------------------
LEMMA ClosedSteps ==
  ASSUME PristineInv, FilesInv', NEW p \in Openers, Refused(p)
  PROVE  PristineInv'
<1>1. Closed.at = "closed" /\ OpenerTyped(Closed)
  BY DEF Closed, OpenerTyped
<1> HIDE DEF Closed
<1> QED BY <1>1, OpenerSteps DEF Refused

(* What a process knows of its file, and of cointoss.db when it is that. *)
LEMMA OwnFilePristine ==
  ASSUME PristineInv, FilesAssumption, NEW p \in Openers, openers[p].at # "closed"
  PROVE  /\ openers[p] \in AnyOpener /\ openers[p].file \in DOMAIN files /\ OpenerTyped(openers[p])
         /\ File(p) \in AnyFile /\ Holds(File(p)) /\ Ready(openers[p], File(p))
         /\ File(p).tables \subseteq AllTables /\ File(p).versions \subseteq Builds
         /\ StoredVersion(File(p)) = Latest(File(p).versions)
         /\ openers[p].file = db /\ db # NoFile /\ ~ File(p).raced =>
              /\ Covered(File(p)) /\ Knows(openers[p], File(p))
              /\ \A q \in Openers : openers[q].at # "closed" /\ openers[q].file = db =>
                   Knows(openers[q], File(p))
<1>1. /\ openers[p] \in AnyOpener /\ openers[p].file \in DOMAIN files
      /\ File(p) \in AnyFile /\ Holds(File(p)) /\ Ready(openers[p], File(p))
  BY OwnFile DEF PristineInv
<1>2. /\ OpenerTyped(openers[p])
      /\ File(p).tables \subseteq AllTables /\ File(p).versions \subseteq Builds
  BY <1>1 DEF PristineInv, FilesTyped, File
<1>3. StoredVersion(File(p)) = Latest(File(p).versions)
  BY <1>1, <1>2, StoredIsLatest
<1> QED BY <1>1, <1>2, <1>3 DEF PristineInv, File

LEMMA SkipSteps ==
  ASSUME PristineInv, FilesInv', FilesAssumption, NEW p \in Openers, Skip(p)
  PROVE  PristineInv'
<1> DEFINE o == [openers[p] EXCEPT !.at = After("back_up")]
<1>1. openers[p] \in AnyOpener /\ openers[p].at = "back_up"
  BY OwnFilePristine DEF Skip
<1>2. o.at = "tables" /\ o.file = openers[p].file /\ o.build = openers[p].build
  BY <1>1, StagesInOrder DEF AnyOpener
<1>3. /\ openers' = [openers EXCEPT ![p] = o]
      /\ UNCHANGED <<second, files, db, copies, backup, restorers>>
      /\ StoredVersion(File(p)) = 0 \/ StoredVersion(File(p)) >= openers[p].build
  BY DEF Skip
<1> HIDE DEF o
<1>4. OpenerTyped(o)
  BY <1>1, <1>2, OwnFilePristine DEF OpenerTyped
<1>5. ASSUME o.file = db PROVE Knows(o, files[db])
  <2>1. /\ File(p) = files[db] /\ StoredVersion(File(p)) = Latest(File(p).versions)
        /\ File(p).versions \subseteq Builds
    BY <1>1, <1>2, <1>5, OwnFilePristine DEF File
  <2>2. File(p).versions # {} => Latest(File(p).versions) # 0
    BY <2>1, LatestIs
  <2>3. Latest(File(p).versions) \in Nat /\ openers[p].build \in Nat
    BY <1>1, <2>1, LatestIs DEF AnyOpener
  <2> QED BY <1>2, <1>3, <2>1, <2>2, <2>3 DEF Knows
<1> QED BY <1>3, <1>4, <1>5, OpenerSteps

LEMMA ListTablesSteps ==
  ASSUME PristineInv, FilesInv', FilesAssumption, NEW p \in Openers, ListTables(p)
  PROVE  PristineInv'
<1> DEFINE o == [openers[p] EXCEPT !.at = "create", !.todo = Missing(File(p), openers[p].build)]
<1>1. openers[p] \in AnyOpener /\ openers[p].at = "tables"
  BY OwnFilePristine DEF ListTables
<1>2. /\ o.at = "create" /\ o.file = openers[p].file /\ o.build = openers[p].build
      /\ o.todo \subseteq TablesOf(o.build)
  BY <1>1 DEF AnyOpener, Missing
<1>3. /\ openers' = [openers EXCEPT ![p] = o]
      /\ UNCHANGED <<second, files, db, copies, backup, restorers>>
  BY DEF ListTables
<1> HIDE DEF o
<1>4. OpenerTyped(o)
  BY <1>1, <1>2, OwnFilePristine DEF OpenerTyped
<1>5. ASSUME o.file = db, db # NoFile, ~ files[db].raced PROVE Knows(o, files[db])
  <2>1. Knows(openers[p], files[db])
    BY <1>1, <1>2, <1>5, OwnFilePristine DEF File
  <2> QED BY <1>1, <1>2, <2>1 DEF Knows
<1> QED BY <1>3, <1>4, <1>5, OpenerSteps

LEMMA TablesDoneSteps ==
  ASSUME PristineInv, FilesInv', FilesAssumption, NEW p \in Openers, TablesDone(p)
  PROVE  PristineInv'
<1> DEFINE o == [openers[p] EXCEPT !.at = After("tables")]
<1>1. openers[p] \in AnyOpener /\ openers[p].at = "create"
  BY OwnFilePristine DEF TablesDone
<1>2. o.at = "version" /\ o.file = openers[p].file /\ o.build = openers[p].build
  BY <1>1, StagesInOrder DEF AnyOpener
<1>3. /\ openers' = [openers EXCEPT ![p] = o]
      /\ UNCHANGED <<second, files, db, copies, backup, restorers>>
  BY DEF TablesDone
<1> HIDE DEF o
<1>4. OpenerTyped(o)
  BY <1>1, <1>2, OwnFilePristine DEF OpenerTyped
<1>5. ASSUME o.file = db, db # NoFile, ~ files[db].raced PROVE Knows(o, files[db])
  <2>1. Knows(openers[p], files[db])
    BY <1>1, <1>2, <1>5, OwnFilePristine DEF File
  <2> QED BY <1>1, <1>2, <2>1 DEF Knows
<1> QED BY <1>3, <1>4, <1>5, OpenerSteps

LEMMA CreateTableSteps ==
  ASSUME PristineInv, FilesInv', FilesAssumption, NEW p \in Openers, CreateTable(p)
  PROVE  PristineInv'
<1> DEFINE o == [openers[p] EXCEPT !.todo = @ \ {Due(p)}]
           f == File(p)
           g == [f EXCEPT !.tables = @ \cup {Due(p)}]
           k == openers[p].file
<1>1. /\ openers[p] \in AnyOpener /\ openers[p].at = "create" /\ k \in DOMAIN files
      /\ f \in AnyFile /\ f.tables \subseteq AllTables /\ f.versions \subseteq Builds
      /\ OpenerTyped(openers[p])
  BY OwnFilePristine DEF CreateTable
<1>2. Due(p) \in openers[p].todo
  BY <1>1, MinIsMember DEF Due, CreateTable, AnyOpener
<1>3. /\ o.at = "create" /\ o.file = k /\ o.build = openers[p].build
      /\ o.todo = openers[p].todo \ {Due(p)}
  BY <1>1 DEF AnyOpener
<1>4. /\ g.tables = f.tables \cup {Due(p)} /\ g.versions = f.versions /\ g.born = f.born
      /\ g.from = f.from /\ g.raced = f.raced
  BY <1>1 DEF AnyFile
<1>5. /\ openers' = [openers EXCEPT ![p] = o] /\ files' = [files EXCEPT ![k] = g]
      /\ UNCHANGED <<second, db, copies, backup, restorers>>
  BY DEF CreateTable, File
<1>6. Due(p) \in TablesOf(openers[p].build) /\ openers[p].build \in Builds
  BY <1>1, <1>2 DEF OpenerTyped
<1>7. f = files[k]
  BY DEF File
<1> HIDE DEF o, f, g
<1>8. OpenerTyped(o)
  BY <1>1, <1>3 DEF OpenerTyped
<1>9. g.tables \subseteq AllTables /\ g.versions \subseteq Builds
  BY <1>1, <1>4, <1>6 DEF AllTables
<1>10. ASSUME db # NoFile, db = k, ~ g.raced
       PROVE  /\ Covered(g) /\ Knows(o, g)
              /\ \A q \in Openers \ {p} : openers[q].at # "closed" /\ openers[q].file = db =>
                   Knows(openers[q], g)
  <2>1. /\ Covered(f) /\ Knows(openers[p], f)
        /\ \A q \in Openers : openers[q].at # "closed" /\ openers[q].file = db => Knows(openers[q], f)
    BY <1>1, <1>4, <1>10, OwnFilePristine DEF f
  <2>2. Knows(o, g)
    BY <1>1, <1>3, <1>4, <2>1, KnowsStays
  <2>3. \A q \in Openers : openers[q].at # "closed" /\ openers[q].file = db => Knows(openers[q], g)
    BY <1>4, <2>1, KnowsStays
  <2>4. \A v : Kept(v, f) => Kept(v, g)
    BY <1>4 DEF Kept
  <2>5. g.versions # {} => Pristine(g) \/ Kept(Latest(g.versions), g)
    <3> SUFFICES ASSUME f.versions # {}, ~ Kept(Latest(f.versions), f) PROVE Pristine(g)
      BY <1>4, <2>4
    <3>1. Pristine(f)
      BY <2>1 DEF Covered
    <3>2. Latest(f.versions) >= openers[p].build
      <4>1. Latest(f.versions) \in Nat /\ openers[p].build \in Nat
        BY <1>1, LatestIs DEF AnyOpener
      <4>2. ~ (Latest(f.versions) < openers[p].build)
        BY <1>1, <2>1 DEF Knows
      <4> QED BY <4>1, <4>2
    <3>3. Due(p) \in TablesOf(Latest(f.versions))
      <4>1. Latest(f.versions) \in Nat /\ openers[p].build \in Nat
        BY <1>1, LatestIs DEF AnyOpener
      <4> QED BY <1>6, <3>2, <4>1 DEF TablesOf
    <3> QED BY <1>4, <3>1, <3>3 DEF Pristine
  <2>6. Covered(g)
    BY <1>4, <2>1, <2>4, <2>5 DEF Covered
  <2> QED BY <2>2, <2>3, <2>6
<1> QED BY <1>1, <1>3, <1>5, <1>8, <1>9, <1>10, FileSteps

LEMMA CheckVersionSteps ==
  ASSUME PristineInv, FilesInv', FilesAssumption, NEW p \in Openers, CheckVersion(p)
  PROVE  PristineInv'
<1> DEFINE stored == StoredVersion(File(p))
           build  == openers[p].build
           k      == openers[p].file
           f      == File(p)
<1>1. /\ openers[p] \in AnyOpener /\ openers[p].at = "version" /\ k \in DOMAIN files
      /\ f \in AnyFile /\ f.tables \subseteq AllTables /\ f.versions \subseteq Builds
      /\ OpenerTyped(openers[p]) /\ stored = Latest(f.versions) /\ f = files[k]
  BY OwnFilePristine DEF CheckVersion, File
<1>2. UNCHANGED <<second, db, copies, backup, restorers>>
  BY DEF CheckVersion
<1>3. CASE /\ stored \in {0, build}
           /\ openers' = [openers EXCEPT ![p].at = IF stored = 0 THEN "first" ELSE After("version")]
           /\ UNCHANGED files
  <2> DEFINE o == [openers[p] EXCEPT !.at = IF stored = 0 THEN "first" ELSE After("version")]
  <2>1. /\ o.at = (IF stored = 0 THEN "first" ELSE "open") /\ o.file = k /\ o.build = build
        /\ openers' = [openers EXCEPT ![p] = o]
    BY <1>1, <1>3, StagesInOrder DEF AnyOpener
  <2> HIDE DEF o, stored
  <2>2. OpenerTyped(o)
    BY <1>1, <2>1 DEF OpenerTyped
  <2>3. stored = 0 => f.versions = {}
    BY <1>1, LatestIs
  <2>4. Knows(o, files[k])
    BY <1>1, <2>1, <2>3 DEF Knows
  <2> QED BY <1>2, <1>3, <2>1, <2>2, <2>4, OpenerSteps
<1>4. CASE openers' = [openers EXCEPT ![p] = Closed] /\ UNCHANGED files
  BY <1>2, <1>4, ClosedSteps DEF Refused
<1>5. CASE /\ stored \in 1..build - 1 /\ ~ Gap(stored, build)
           /\ openers' = [openers EXCEPT ![p].at = "step", ![p].todo = Steps(stored, build)]
           /\ files' = [files EXCEPT ![k].from = @ \cup {stored}]
  <2> DEFINE o == [openers[p] EXCEPT !.at = "step", !.todo = Steps(stored, build)]
             g == [f EXCEPT !.from = @ \cup {stored}]
  <2>1. stored \in Nat /\ stored # 0 /\ stored < build /\ build \in Nat
    BY <1>1, <1>5 DEF AnyOpener
  <2>2. /\ o.at = "step" /\ o.file = k /\ o.build = build /\ o.todo \subseteq Shipped
    BY <1>1 DEF AnyOpener, Steps
  <2>3. /\ g.tables = f.tables /\ g.versions = f.versions /\ g.born = f.born
        /\ g.from = f.from \cup {stored} /\ g.raced = f.raced
    BY <1>1 DEF AnyFile
  <2>4. openers' = [openers EXCEPT ![p] = o] /\ files' = [files EXCEPT ![k] = g]
    BY <1>1, <1>5
  <2> HIDE DEF o, g, stored
  <2>5. OpenerTyped(o)
    BY <1>1, <2>2 DEF OpenerTyped
  <2>6. ASSUME db # NoFile, db = k, ~ g.raced
        PROVE  /\ Covered(g) /\ Knows(o, g)
               /\ \A q \in Openers \ {p} : openers[q].at # "closed" /\ openers[q].file = db =>
                    Knows(openers[q], g)
    <3>1. /\ Covered(f) /\ Knows(openers[p], f)
          /\ \A q \in Openers : openers[q].at # "closed" /\ openers[q].file = db => Knows(openers[q], f)
      BY <1>1, <2>3, <2>6, OwnFilePristine
    <3>2. \A q \in Openers : openers[q].at # "closed" /\ openers[q].file = db => Knows(openers[q], g)
      BY <2>3, <3>1, KnowsStays
    <3>3. \A v : Kept(v, f) <=> Kept(v, g)
      BY <2>3 DEF Kept
    <3>4. f.versions # {}
      BY <1>1, <2>1, LatestIs
    <3>5. Kept(stored, f)
      BY <1>1, <2>1, <3>1, <3>4 DEF Knows
    <3>6. Knows(o, g)
      BY <1>1, <2>2, <2>3, <3>3, <3>4, <3>5 DEF Knows
    <3>7. Covered(g)
      BY <1>1, <2>3, <3>1, <3>3, <3>4, <3>5 DEF Covered, Pristine
    <3> QED BY <3>2, <3>6, <3>7
  <2>7. g.tables \subseteq AllTables /\ g.versions \subseteq Builds
    BY <1>1, <2>3
  <2> HIDE DEF k
  <2> QED BY <1>1, <1>2, <2>2, <2>4, <2>5, <2>6, <2>7, FileSteps
<1> QED BY <1>3, <1>4, <1>5 DEF CheckVersion

(* A version is recorded: of a new file nobody else is opening, or of one that was copied. *)
LEMMA RecordedSteps ==
  ASSUME PristineInv, FilesInv', FilesAssumption, NEW p \in Openers, NEW version \in Builds,
         openers[p].at \in {"first", "record"},
         NEW o, OpenerTyped(o), o.file = openers[p].file, o.at \in {"step", "open"},
         openers[p].at = "first" => o.at = "open",
         Recorded(p, version, o)
  PROVE  PristineInv'
<1> DEFINE k == openers[p].file
           f == File(p)
           g == [f EXCEPT !.versions = @ \cup {version},
                          !.born = IF f.versions = {} THEN f.tables ELSE @,
                          !.raced = @ \/ OpenedBeside(p)]
<1>1. /\ k \in DOMAIN files /\ f \in AnyFile /\ f.tables \subseteq AllTables
      /\ f.versions \subseteq Builds /\ f = files[k]
  BY OwnFilePristine DEF File
<1>2. CASE version \in f.versions \/ 0 \notin f.tables
  BY <1>2, ClosedSteps DEF Recorded
<1>3. CASE ~ (version \in f.versions \/ 0 \notin f.tables)
  <2>1. /\ files' = [files EXCEPT ![k] = g] /\ openers' = [openers EXCEPT ![p] = o]
        /\ UNCHANGED <<second, db, copies, backup, restorers>>
    BY <1>1, <1>3 DEF Recorded
  <2>2. /\ g.tables = f.tables /\ g.versions = f.versions \cup {version} /\ g.from = f.from
        /\ g.born = (IF f.versions = {} THEN f.tables ELSE f.born)
        /\ g.raced = (f.raced \/ OpenedBeside(p))
    BY <1>1 DEF AnyFile
  <2> HIDE DEF g
  <2>3. ASSUME db # NoFile, db = k, ~ g.raced
        PROVE  /\ Covered(g) /\ Knows(o, g)
               /\ \A q \in Openers \ {p} : openers[q].at # "closed" /\ openers[q].file = db =>
                    Knows(openers[q], g)
    <3>1. ~ f.raced /\ ~ OpenedBeside(p)
      BY <2>2, <2>3
    <3>2. /\ Covered(f) /\ Knows(openers[p], f)
          /\ \A q \in Openers : openers[q].at # "closed" /\ openers[q].file = db => Knows(openers[q], f)
      BY <2>3, <3>1, OwnFilePristine
    <3>3. CASE f.versions = {}
      <4>1. g.from = {} /\ g.born = f.tables
        BY <2>2, <3>2, <3>3 DEF Covered
      <4>2. Covered(g)
        BY <2>2, <4>1 DEF Covered, Pristine
      <4>3. o.at = "open"
        BY <3>2, <3>3 DEF Knows
      <4>4. \A q \in Openers \ {p} : openers[q].file = db => openers[q].at = "open"
        BY <2>3, <3>1, <3>3 DEF OpenedBeside
      <4> QED BY <4>2, <4>3, <4>4 DEF Knows
    <3>4. CASE f.versions # {}
      <4>1. Kept(Latest(f.versions), f) /\ openers[p].at = "record"
        BY <3>2, <3>4 DEF Knows
      <4>2. g.versions # {} /\ g.versions \subseteq Builds /\ g.born = f.born
        BY <1>1, <2>2, <3>4
      <4>3. /\ Latest(f.versions) \in Nat /\ Latest(g.versions) \in Nat
            /\ Latest(f.versions) <= Latest(g.versions)
        BY <1>1, <2>2, <4>2, LatestIs, LatestGrows
      <4>4. Kept(Latest(g.versions), g)
        BY <4>1, <4>2, <4>3, KeptServes DEF PristineInv
      <4>5. \A v : Kept(v, f) => Kept(v, g)
        BY <4>2 DEF Kept
      <4>6. Covered(g)
        BY <2>2, <3>2, <4>2, <4>4, <4>5 DEF Covered
      <4>7. Knows(o, g)
        BY <4>2, <4>4 DEF Knows
      <4>8. ASSUME NEW q \in Openers, openers[q].at # "closed", openers[q].file = db
            PROVE  Knows(openers[q], g)
        BY <3>2, <3>4, <4>2, <4>4, <4>8 DEF Knows
      <4> QED BY <4>6, <4>7, <4>8
    <3> QED BY <3>3, <3>4
  <2>4. g.tables \subseteq AllTables /\ g.versions \subseteq Builds
    BY <1>1, <2>2
  <2> HIDE DEF k, f
  <2>5. o.file = k
    BY DEF k
  <2> QED BY <1>1, <2>1, <2>3, <2>4, <2>5, FileSteps
<1> QED BY <1>2, <1>3

LEMMA RecordFirstSteps ==
  ASSUME PristineInv, FilesInv', FilesAssumption, NEW p \in Openers, RecordFirst(p)
  PROVE  PristineInv'
<1> DEFINE o == [openers[p] EXCEPT !.at = After("version")]
<1>1. openers[p] \in AnyOpener /\ openers[p].at = "first" /\ OpenerTyped(openers[p])
  BY OwnFilePristine DEF RecordFirst
<1>2. o.at = "open" /\ o.file = openers[p].file /\ o.build = openers[p].build
  BY <1>1, StagesInOrder DEF AnyOpener
<1>3. Recorded(p, openers[p].build, o)
  BY DEF RecordFirst
<1> HIDE DEF o
<1>4. openers[p].build \in Builds /\ OpenerTyped(o)
  BY <1>1, <1>2 DEF OpenerTyped
<1> QED BY <1>1, <1>2, <1>3, <1>4, RecordedSteps

LEMMA RecordStepSteps ==
  ASSUME PristineInv, FilesInv', FilesAssumption, NEW p \in Openers, RecordStep(p)
  PROVE  PristineInv'
<1> DEFINE left == openers[p].todo \ {Due(p)}
           o    == [openers[p] EXCEPT !.todo = left,
                                      !.at = IF left = {} THEN After("version") ELSE "step"]
<1>1. openers[p] \in AnyOpener /\ openers[p].at = "record" /\ OpenerTyped(openers[p])
  BY OwnFilePristine DEF RecordStep
<1>2. /\ o.at = (IF left = {} THEN "open" ELSE "step") /\ o.file = openers[p].file
      /\ o.build = openers[p].build /\ o.todo = left
  BY <1>1, StagesInOrder DEF AnyOpener
<1>3. Recorded(p, Due(p), o)
  BY DEF RecordStep
<1>4. Due(p) \in openers[p].todo
  BY <1>1, DueIsBuilt DEF PristineInv
<1> HIDE DEF o
<1>5. Due(p) \in Builds /\ OpenerTyped(o)
  BY <1>1, <1>2, <1>4, BuildsAre DEF OpenerTyped
<1> QED BY <1>1, <1>2, <1>3, <1>5, RecordedSteps

LEMMA ApplyStepSteps ==
  ASSUME PristineInv, FilesInv', FilesAssumption, NEW p \in Openers, ApplyStep(p)
  PROVE  PristineInv'
<1> DEFINE o == [openers[p] EXCEPT !.at = "record"]
           f == File(p)
           g == [f EXCEPT !.tables = @ \cup {Due(p)}]
           k == openers[p].file
<1>1. /\ openers[p] \in AnyOpener /\ openers[p].at = "step" /\ k \in DOMAIN files
      /\ f \in AnyFile /\ f.tables \subseteq AllTables /\ f.versions \subseteq Builds
      /\ OpenerTyped(openers[p]) /\ f = files[k]
  BY OwnFilePristine DEF ApplyStep, File
<1>2. Due(p) \in openers[p].todo
  BY <1>1, DueIsBuilt DEF PristineInv
<1>3. /\ o.at = "record" /\ o.file = k /\ o.build = openers[p].build
      /\ o.todo = openers[p].todo
  BY <1>1 DEF AnyOpener
<1>4. /\ g.tables = f.tables \cup {Due(p)} /\ g.versions = f.versions /\ g.born = f.born
      /\ g.from = f.from /\ g.raced = f.raced
  BY <1>1 DEF AnyFile
<1>5. /\ openers' = [openers EXCEPT ![p] = o] /\ files' = [files EXCEPT ![k] = g]
      /\ UNCHANGED <<second, db, copies, backup, restorers>>
  BY DEF ApplyStep, File
<1>6. Due(p) \in Builds /\ Due(p) \in TablesOf(Due(p))
  <2>1. Due(p) \in Builds /\ Due(p) \in Nat
    BY <1>1, <1>2, BuildsAre DEF OpenerTyped
  <2> QED BY <2>1 DEF TablesOf
<1> HIDE DEF o, f, g
<1>7. OpenerTyped(o)
  BY <1>1, <1>3 DEF OpenerTyped
<1>8. g.tables \subseteq AllTables /\ g.versions \subseteq Builds
  BY <1>1, <1>4, <1>6 DEF AllTables
<1>9. ASSUME db # NoFile, db = k, ~ g.raced
      PROVE  /\ Covered(g) /\ Knows(o, g)
             /\ \A q \in Openers \ {p} : openers[q].at # "closed" /\ openers[q].file = db =>
                  Knows(openers[q], g)
  <2>1. /\ Covered(f) /\ Knows(openers[p], f)
        /\ \A q \in Openers : openers[q].at # "closed" /\ openers[q].file = db => Knows(openers[q], f)
    BY <1>1, <1>4, <1>9, OwnFilePristine DEF f
  <2>2. \A q \in Openers : openers[q].at # "closed" /\ openers[q].file = db => Knows(openers[q], g)
    BY <1>4, <2>1, KnowsStays
  <2>3. \A v : Kept(v, f) <=> Kept(v, g)
    BY <1>4 DEF Kept
  <2>4. f.versions # {} /\ Kept(Latest(f.versions), f)
    BY <1>1, <2>1 DEF Knows
  <2>5. Covered(g) /\ Knows(o, g)
    BY <1>3, <1>4, <2>1, <2>3, <2>4 DEF Covered, Knows
  <2> QED BY <2>2, <2>5
<1> QED BY <1>1, <1>3, <1>5, <1>7, <1>8, <1>9, FileSteps

(* A copy is taken, under its own name or over another of the same second. *)
LEMMA BackUpSteps ==
  ASSUME PristineInv, FilesInv', FilesAssumption, NEW p \in Openers, BackUp(p)
  PROVE  PristineInv'
<1> DEFINE o == [openers[p] EXCEPT !.at = After("back_up")]
           stored == StoredVersion(File(p))
           name == <<stored, second>>
           copy == [file |-> db, tables |-> files[db].tables, versions |-> files[db].versions,
                    again |-> name \in DOMAIN copies]
<1>1. /\ openers[p] \in AnyOpener /\ openers[p].at = "back_up" /\ OpenerTyped(openers[p])
      /\ File(p).versions \subseteq Builds /\ stored = Latest(File(p).versions)
  BY OwnFilePristine DEF BackUp, Copying
<1>2. o.at = "tables" /\ o.file = openers[p].file /\ o.build = openers[p].build
  BY <1>1, StagesInOrder DEF AnyOpener
<1>3. /\ openers' = [openers EXCEPT ![p] = o] /\ db # NoFile
      /\ UNCHANGED <<second, files, db, backup, restorers>>
      /\ copies' = [n \in DOMAIN copies \cup {name} |-> IF n = name THEN copy ELSE copies[n]]
  BY DEF BackUp
<1>4. /\ copy.file = db /\ copy.tables = files[db].tables /\ copy.again = (name \in DOMAIN copies)
      /\ stored \in Nat /\ name[1] = stored
  BY <1>1, LatestIs
<1> HIDE DEF o, copy, name, stored
<1>5. \A q \in Openers : openers'[q] = IF q = p THEN o ELSE openers[q]
  BY <1>3 DEF PristineInv, FilesInv, OpenersReady
<1>6. OpenerTyped(o)
  BY <1>1, <1>2 DEF OpenerTyped
<1>7. db \in DOMAIN files
  BY <1>3 DEF PristineInv, FilesInv
<1>8. FilesTyped'
  <2>1. DOMAIN copies' = DOMAIN copies \cup {name} /\ \A n \in DOMAIN copies' :
          copies'[n] = IF n = name THEN copy ELSE copies[n]
    BY <1>3
  <2>2. \A n \in DOMAIN copies' : copies'[n].file \in DOMAIN files /\ n[1] \in Nat
    BY <1>4, <1>7, <2>1 DEF PristineInv, FilesTyped
  <2>3. \A q \in Openers : OpenerTyped(openers'[q])
    BY <1>5, <1>6 DEF PristineInv, FilesTyped
  <2> QED BY <1>3, <2>2, <2>3 DEF PristineInv, FilesTyped, OpenerTyped
<1>9. \A v, f : Kept(v, f) => Kept(v, f)'
  <2> SUFFICES ASSUME NEW v, NEW f, Kept(v, f) PROVE Kept(v, f)'
    OBVIOUS
  <2>1. PICK n \in DOMAIN copies :
          /\ n[1] <= v
          /\ \/ copies[n].again
             \/ /\ copies[n].file = db
                /\ copies[n].tables \subseteq TablesOf(n[1]) \cup f.born
    BY DEF Kept
  <2>2. n \in DOMAIN copies' /\ copies'[n] = IF n = name THEN copy ELSE copies[n]
    BY <1>3
  <2>3. \/ copies'[n].again
        \/ /\ copies'[n].file = db
           /\ copies'[n].tables \subseteq TablesOf(n[1]) \cup f.born
    BY <1>4, <2>1, <2>2
  <2> QED BY <1>3, <2>1, <2>2, <2>3 DEF Kept
<1>10. ASSUME NEW v, NEW f, stored <= v, copy.tables \subseteq TablesOf(stored) \cup f.born
       PROVE  Kept(v, f)'
  <2>1. name \in DOMAIN copies' /\ copies'[name] = copy
    BY <1>3
  <2> QED BY <1>3, <1>4, <1>10, <2>1 DEF Kept
<1>11. ASSUME ~ files[db].raced PROVE Covered(files[db])'
  <2>1. Covered(files[db])
    BY <1>3, <1>11 DEF PristineInv
  <2> QED BY <1>3, <1>9, <2>1 DEF Covered, Pristine
<1>12. ASSUME ~ files[db].raced, NEW q \in Openers, q # p, openers[q].at # "closed", openers[q].file = db
       PROVE  Knows(openers[q], files[db])'
  <2>1. Knows(openers[q], files[db])
    BY <1>3, <1>12 DEF PristineInv
  <2>2. openers'[q] = openers[q]
    BY <1>5, <1>12
  <2> QED BY <1>3, <1>9, <2>1, <2>2 DEF Knows
<1>13. ASSUME ~ files[db].raced, openers[p].file = db
       PROVE  Knows(openers[p], files[db])'
  <2>1. openers'[p] = o
    BY <1>5
  <2>2. File(p) = files[db] /\ stored = Latest(files[db].versions)
    BY <1>1, <1>13 DEF File
  <2>3. Latest(files[db].versions) \in Nat
    BY <1>4, <2>2
  <2>4. ASSUME files[db].versions # {}
        PROVE  \/ Kept(Latest(files[db].versions), files[db])
               \/ copy.tables \subseteq TablesOf(stored) \cup files[db].born
    BY <1>3, <1>4, <1>13, <2>2, <2>4 DEF PristineInv, Covered, Pristine
  <2>5. ASSUME NEW v, NEW f, v = Latest(files[db].versions), f = files[db], f.versions # {}
        PROVE  Kept(v, f)'
    <3>1. stored <= v
      BY <2>2, <2>3, <2>5
    <3> QED BY <1>9, <1>10, <2>4, <2>5, <3>1
  <2>6. PICK v, f : v = Latest(files[db].versions) /\ f = files[db]
    OBVIOUS
  <2>7. Latest(files[db].versions)' = v /\ files'[db'] = f
    BY <1>3, <2>6
  <2>8. f.versions # {} => Kept(v, f)'
    BY <2>5, <2>6
  <2> QED BY <1>2, <2>1, <2>7, <2>8 DEF Knows, Kept
<1>14. ASSUME ~ files[db].raced, NEW q \in Openers, openers'[q].at # "closed", openers'[q].file = db
       PROVE  Knows(openers[q], files[db])'
  BY <1>2, <1>5, <1>12, <1>13, <1>14
<1> QED BY <1>3, <1>8, <1>11, <1>14 DEF PristineInv

LEMMA ConnectSteps ==
  ASSUME PristineInv, FilesInv', FilesAssumption, NEW p \in Openers, NEW build \in Builds,
         Connect(p, build)
  PROVE  PristineInv'
<1> DEFINE o == [Closed EXCEPT !.at = Stages[1], !.build = build, !.file = db']
<1>1. /\ openers' = [openers EXCEPT ![p] = o] /\ UNCHANGED <<second, copies, backup, restorers>>
      /\ files' = IF db = NoFile THEN Append(files, Blank) ELSE files
      /\ db' = IF db = NoFile THEN Len(files') ELSE db
  BY DEF Connect
<1>2. o.at = "back_up" /\ o.build = build /\ OpenerTyped(o)
  BY StagesInOrder DEF Closed, OpenerTyped
<1> HIDE DEF o
<1>3. \A q \in Openers : openers'[q] = IF q = p THEN o ELSE openers[q]
  BY <1>1 DEF PristineInv, FilesInv, OpenersReady
<1>4. CASE db # NoFile
  <2>1. Knows(o, files[db])
    BY <1>2 DEF Knows
  <2> QED BY <1>1, <1>2, <1>4, <2>1, OpenerSteps
<1>5. CASE db = NoFile
  <2>1. /\ Blank.tables = {} /\ Blank.versions = {} /\ Blank.from = {}
    BY DEF Blank
  <2>2. Blank \in AnyFile /\ Holds(Blank)
    BY DEF Blank, AnyFile, Holds
  <2>3. files' = Append(files, Blank) /\ db' = Len(files')
    BY <1>1, <1>5
  <2> HIDE DEF Blank
  <2>4. /\ DOMAIN files \subseteq DOMAIN files' /\ \A k \in DOMAIN files : files'[k] = files[k]
    BY <2>2, <2>3, FileAppended DEF PristineInv
  <2>5. /\ DOMAIN files' = DOMAIN files \cup {db'} /\ db' \notin DOMAIN files /\ files'[db'] = Blank
    BY <2>3 DEF PristineInv, FilesInv, FilesTrue
  <2>6. FilesTyped'
    BY <1>1, <1>2, <1>3, <2>1, <2>4, <2>5 DEF PristineInv, FilesTyped, OpenerTyped
  <2>7. Covered(files[db])'
    BY <2>1, <2>5 DEF Covered
  <2>8. ASSUME NEW q \in Openers, openers'[q].at # "closed", openers'[q].file = db'
        PROVE  Knows(openers[q], files[db])'
    <3>1. q = p
      BY <1>3, <2>5, <2>8 DEF PristineInv, FilesInv, OpenersReady
    <3> QED BY <1>2, <1>3, <3>1 DEF Knows
  <2> QED BY <2>6, <2>7, <2>8 DEF PristineInv
<1> QED BY <1>4, <1>5

LEMMA PutInPlaceSteps ==
  ASSUME PristineInv, FilesInv', FilesAssumption, NEW p \in Openers, PutInPlace(p)
  PROVE  PristineInv'
<1> DEFINE g == [Blank EXCEPT !.tables = backup.tables, !.versions = backup.versions,
                              !.born = backup.tables]
<1>1. backup \in AnyBackup /\ Holds(backup) /\ backup # NoFile
  BY DEF PristineInv, FilesInv, BackupTrue, PutInPlace
<1>2. /\ g \in AnyFile /\ g.tables = backup.tables /\ g.versions = backup.versions
      /\ g.born = backup.tables /\ g.from = {}
  BY <1>1 DEF Blank, AnyFile, AnyBackup
<1>3. /\ files' = Append(files, g) /\ db' = Len(files') /\ restorers' = restorers \ {p}
      /\ UNCHANGED <<second, openers, copies, backup>>
  BY DEF PutInPlace
<1> HIDE DEF g
<1>4. Holds(g)
  BY <1>1, <1>2 DEF Holds
<1>5. DOMAIN files \subseteq DOMAIN files' /\ \A k \in DOMAIN files : files'[k] = files[k]
  BY <1>2, <1>3, <1>4, FileAppended DEF PristineInv
<1>6. DOMAIN files' = DOMAIN files \cup {db'} /\ db' \notin DOMAIN files /\ files'[db'] = g
  BY <1>3 DEF PristineInv, FilesInv, FilesTrue
<1>7. FilesTyped'
  BY <1>1, <1>2, <1>3, <1>5, <1>6 DEF PristineInv, FilesTyped, OpenerTyped
<1>8. Covered(files[db])'
  BY <1>2, <1>6 DEF Covered, Pristine
<1>9. \A q \in Openers : openers'[q].at # "closed" => openers'[q].file # db'
  BY <1>3, <1>6 DEF PristineInv, FilesInv, OpenersReady
<1> QED BY <1>7, <1>8, <1>9 DEF PristineInv

LEMMA OtherSteps ==
  ASSUME PristineInv, FilesInv', FilesAssumption,
         \/ PassSecond \/ MoveAside \/ Take \/ WriteManifest
         \/ \E p \in Openers : AbandonRestore(p) \/ \E build \in Builds : CheckRestore(p, build)
         \/ UNCHANGED fileVars
  PROVE  PristineInv'
<1>1. /\ UNCHANGED <<files, openers, copies>> /\ (db' = NoFile \/ UNCHANGED db)
      /\ restorers' \subseteq Openers
      /\ backup' # NoFile => backup'.tables \subseteq AllTables /\ backup'.versions \subseteq Builds
      /\ second' \in 0..LastSecond
  <2>1. CASE PassSecond
    BY <2>1 DEF PassSecond, PristineInv, FilesTyped, FilesAssumption
  <2>2. CASE MoveAside
    BY <2>2 DEF MoveAside, PristineInv, FilesTyped
  <2>3. CASE Take
    BY <2>3 DEF Take, PristineInv, FilesTyped, FilesInv
  <2>4. CASE WriteManifest
    <3>1. backup'.tables = backup.tables /\ backup'.versions = backup.versions
      BY <2>4 DEF WriteManifest, PristineInv, FilesInv, BackupTrue, AnyBackup
    <3> QED BY <2>4, <3>1 DEF WriteManifest, PristineInv, FilesTyped
  <2>5. CASE \E p \in Openers : AbandonRestore(p) \/ \E build \in Builds : CheckRestore(p, build)
    BY <2>5 DEF AbandonRestore, CheckRestore, PristineInv, FilesTyped
  <2>6. CASE UNCHANGED fileVars
    BY <2>6 DEF fileVars, PristineInv, FilesTyped
  <2> QED BY <2>1, <2>2, <2>3, <2>4, <2>5, <2>6
<1>2. FilesTyped'
  BY <1>1 DEF PristineInv, FilesTyped, OpenerTyped
<1>3. CASE UNCHANGED db
  BY <1>1, <1>2, <1>3 DEF PristineInv, Covered, Kept, Pristine, Knows
<1>4. CASE db' = NoFile
  BY <1>2, <1>4 DEF PristineInv
<1> QED BY <1>1, <1>3, <1>4

-----------------------------------------------------------------------------
LEMMA PristineInitially == FilesAssumption /\ FilesInit => PristineInv
<1> SUFFICES ASSUME FilesAssumption, FilesInit PROVE PristineInv
  OBVIOUS
<1>1. FilesInv
  BY FilesInvInitially
<1>2. DOMAIN files = {} /\ DOMAIN copies = {} /\ restorers = {} /\ db = NoFile /\ backup = NoFile
  BY DEF FilesInit
<1>3. second \in 0..LastSecond
  BY DEF FilesInit, FilesAssumption
<1>4. \A p \in Openers : OpenerTyped(openers[p])
  BY DEF FilesInit, OpenerTyped, Closed
<1> QED BY <1>1, <1>2, <1>3, <1>4 DEF PristineInv, FilesTyped

LEMMA PristineKept == FilesAssumption /\ PristineInv /\ [FilesNext]_fileVars => PristineInv'
<1> SUFFICES ASSUME FilesAssumption, PristineInv, [FilesNext]_fileVars PROVE PristineInv'
  OBVIOUS
<1>1. FilesInv'
  BY FilesInvKept DEF PristineInv
<1>2. CASE \E p \in Openers, build \in Builds : Connect(p, build)
  BY <1>1, <1>2, ConnectSteps
<1>3. CASE \E p \in Openers : Skip(p) \/ BackUp(p) \/ ListTables(p) \/ CreateTable(p) \/ TablesDone(p)
  BY <1>1, <1>3, SkipSteps, BackUpSteps, ListTablesSteps, CreateTableSteps, TablesDoneSteps
<1>4. CASE \E p \in Openers : RefuseGap(p) \/ RefuseTable(p) \/ Leave(p)
  BY <1>1, <1>4, ClosedSteps DEF RefuseGap, RefuseTable, Leave
<1>5. CASE \E p \in Openers : CheckVersion(p) \/ RecordFirst(p) \/ ApplyStep(p) \/ RecordStep(p)
  BY <1>1, <1>5, CheckVersionSteps, RecordFirstSteps, ApplyStepSteps, RecordStepSteps
<1>6. CASE \E p \in Openers : PutInPlace(p)
  BY <1>1, <1>6, PutInPlaceSteps
<1>7. CASE \/ PassSecond \/ MoveAside \/ Take \/ WriteManifest
           \/ \E p \in Openers : AbandonRestore(p) \/ \E build \in Builds : CheckRestore(p, build)
           \/ UNCHANGED fileVars
  BY <1>1, <1>7, OtherSteps
<1> QED
  BY <1>2, <1>3, <1>4, <1>5, <1>6, <1>7 DEF FilesNext, OpeningNext, BackupNext

LEMMA PristineIsKept == PristineInv => MigratedKeepsPristineCopy
BY DEF PristineInv, Covered, Kept, MigratedKeepsPristineCopy

LEMMA FilesAreTyped == FilesAssumption /\ PristineInv => FilesTypeOK
<1> SUFFICES ASSUME FilesAssumption, PristineInv PROVE FilesTypeOK
  OBVIOUS
<1>1. ASSUME NEW k \in DOMAIN files
      PROVE  /\ files[k].tables \subseteq TablesOf(Max(Builds)) /\ files[k].versions \subseteq Builds
             /\ files[k].versions # {} => 0 \in files[k].tables
  <2>1. files[k].tables \subseteq AllTables /\ files[k].versions \subseteq Builds /\ Holds(files[k])
    BY DEF PristineInv, FilesInv, FilesTyped, FilesTrue
  <2>2. ASSUME NEW t \in AllTables PROVE t \in TablesOf(Max(Builds))
    <3>1. PICK build \in Builds : t \in TablesOf(build)
      BY DEF AllTables
    <3>2. PICK n \in Nat : \A b \in Builds : b <= n
      BY BuildsAre
    <3>3. Builds \in SUBSET Nat
      BY BuildsAre
    <3>4. Max(Builds) \in Builds /\ \A b \in Builds : b <= Max(Builds)
      BY <3>2, <3>3, MaxIsMember
    <3>5. build \in Nat /\ Max(Builds) \in Nat /\ build <= Max(Builds)
      BY <3>3, <3>4
    <3> QED BY <3>1, <3>5 DEF TablesOf
  <2>3. files[k].versions # {} => 0 \in files[k].tables
    <3>1. \A v \in files[k].versions : v \in Nat
      BY <2>1, BuildsAre
    <3>2. \A v \in Nat : 0 \in TablesOf(v)
      BY DEF TablesOf
    <3> QED BY <2>1, <3>1, <3>2 DEF Holds
  <2> QED BY <2>1, <2>2, <2>3
<1>2. second \in 0..LastSecond /\ restorers \subseteq Openers /\ db \in {NoFile} \cup DOMAIN files
  BY DEF PristineInv, FilesTyped, FilesInv
<1>3. ASSUME NEW p \in Openers
      PROVE  /\ openers[p].at \in Stage
             /\ openers[p].at # "closed" => openers[p].build \in Builds /\ openers[p].file \in DOMAIN files
  BY DEF PristineInv, FilesTyped, OpenerTyped, FilesInv, OpenersReady, AnyOpener
<1>4. \A name \in DOMAIN copies : copies[name].file \in DOMAIN files /\ copies[name].again \in BOOLEAN
  BY DEF PristineInv, FilesTyped, FilesInv, CopiesTrue, AnyCopy
<1> QED BY <1>1, <1>2, <1>3, <1>4 DEF FilesTypeOK, Stage

(* store.py:898: whatever builds open the file, in whatever order and however often they die, *)
(* a file that was migrated has a copy as an older build left it, unless another build was *)
(* opening it when it was new, or another copy of the same second took the name. *)
THEOREM CopiesStayPristine == FilesSpec => []MigratedKeepsPristineCopy
<1>1. FilesSpec => []PristineInv
  BY FilesAssumption, PristineInitially, PristineKept, PTL DEF FilesSpec
<1> QED BY <1>1, PristineIsKept, PTL

-----------------------------------------------------------------------------
(* The Series. *)

DeclaredExposure == [axis : Axes, matrix : Matrices]
AnyRows == [log : RevisionLog, declared : Dated(DeclaredCovariance),
            exposures : Dated(DeclaredExposure)]

(* Every stamp is in a log, and names the recipe that made the matrix. *)
Stamped(revisions, entries) == \A d \in DOMAIN entries : entries[d].revision \in DOMAIN revisions
Faithful(revisions, entries) ==
  \A d \in DOMAIN entries : revisions[entries[d].revision] = entries[d].recipe

(* Two logs say the same of the revisions both have. *)
Agree(a, b) == \A n \in DOMAIN a \cap DOMAIN b : a[n] = b[n]

(* What a connection's rows say comes from what is committed or from its program's copies. *)
LogFrom(p, rows) ==
  \A n \in DOMAIN rows.log :
    \/ n \in DOMAIN log /\ rows.log[n] = log[n]
    \/ risk[p] # NoCopy /\ n \in DOMAIN risk[p].log /\ rows.log[n] = risk[p].log[n]

AxesFrom(p, rows) ==
  \A d \in DOMAIN rows.exposures :
    \/ \E e \in DOMAIN exposures : exposures[e].axis = rows.exposures[d].axis
    \/ sector[p] # NoCopy /\ sector[p].axis = rows.exposures[d].axis

Good(p, rows) ==
  /\ rows \in AnyRows /\ Stamped(rows.log, rows.declared) /\ LogFrom(p, rows)
  /\ ~ parted => Faithful(rows.log, rows.declared) /\ AxesFrom(p, rows)

CommittedGood ==
  /\ Committed \in AnyRows /\ Stamped(log, declared)
  /\ ~ parted =>
       /\ Faithful(log, declared)
       /\ \A d, e \in DOMAIN exposures : exposures[d].axis = exposures[e].axis

RiskGood(p) ==
  risk[p] # NoCopy =>
    /\ risk[p] \in CovarianceCopy /\ risk[p].log # <<>>
    /\ Stamped(risk[p].log, risk[p].entries)
    /\ ~ parted =>
         /\ Faithful(risk[p].log, risk[p].entries) /\ Agree(risk[p].log, log)
         /\ \A q \in Programs : risk[q] # NoCopy => Agree(risk[p].log, risk[q].log)

SectorGood(p) ==
  sector[p] # NoCopy =>
    /\ sector[p] \in ExposureCopy
    /\ ~ parted =>
         /\ \A d \in DOMAIN exposures : exposures[d].axis = sector[p].axis
         /\ \A q \in Programs : sector[q] # NoCopy => sector[q].axis = sector[p].axis

OneWriter == \A p, q \in Programs : pending[p] # Empty /\ pending[q] # Empty => p = q

Shape ==
  /\ DOMAIN pending = Programs /\ pending = [p \in Programs |-> pending[p]]
  /\ DOMAIN risk = Programs /\ risk = [p \in Programs |-> risk[p]]
  /\ DOMAIN sector = Programs /\ sector = [p \in Programs |-> sector[p]]
  /\ parted \in BOOLEAN

SeriesInv ==
  /\ Shape /\ OneWriter /\ CommittedGood
  /\ \A p \in Programs : Good(p, pending[p]) /\ RiskGood(p) /\ SectorGood(p)

-----------------------------------------------------------------------------
(* What the rows and the copies are. *)

LEMMA DatedIs ==
  ASSUME NEW S, NEW f
  PROVE  f \in Dated(S) <=> /\ DOMAIN f \subseteq AsOf /\ f = [d \in DOMAIN f |-> f[d]]
                            /\ \A d \in DOMAIN f : f[d] \in S
BY DEF Dated

LEMMA NothingDated ==
  ASSUME NEW S
  PROVE  <<>> \in Dated(S) /\ DOMAIN <<>> = {}
BY DEF Dated

LEMMA LogIs ==
  ASSUME NEW f
  PROVE  f \in RevisionLog <=> f \in Seq(Recipes) /\ Len(f) <= MaxRevisions
<1> USE SeriesAssumption DEF SeriesAssumption
<1>1. ASSUME f \in RevisionLog PROVE f \in Seq(Recipes) /\ Len(f) <= MaxRevisions
  <2>1. PICK n \in 0..MaxRevisions : f \in [1..n -> Recipes]
    BY <1>1 DEF RevisionLog
  <2> QED BY <2>1
<1>2. ASSUME f \in Seq(Recipes), Len(f) <= MaxRevisions PROVE f \in RevisionLog
  <2>1. f \in [1..Len(f) -> Recipes] /\ Len(f) \in 0..MaxRevisions
    BY <1>2
  <2> QED BY <2>1 DEF RevisionLog
<1> QED BY <1>1, <1>2

LEMMA EmptyGood ==
  /\ Empty \in AnyRows /\ DOMAIN Empty.log = {} /\ DOMAIN Empty.declared = {}
  /\ DOMAIN Empty.exposures = {} /\ Len(Empty.log) = 0
<1>1. <<>> \in RevisionLog
  <2>1. <<>> \in Seq(Recipes) /\ Len(<<>>) <= MaxRevisions
    BY SeriesAssumption DEF SeriesAssumption
  <2> QED BY <2>1, LogIs
<1> QED BY <1>1, NothingDated DEF Empty, AnyRows

LEMMA RowsGood ==
  ASSUME SeriesInv, NEW p \in Programs
  PROVE  Good(p, Rows(p))
<1>1. CASE pending[p] = Empty
  <2>1. Rows(p) = Committed
    BY <1>1 DEF Rows
  <2>2. Good(p, Committed)
    BY DEF SeriesInv, CommittedGood, Good, LogFrom, AxesFrom, Committed
  <2> QED BY <2>1, <2>2
<1>2. CASE pending[p] # Empty
  BY <1>2 DEF SeriesInv, Rows
<1> QED BY <1>1, <1>2

-----------------------------------------------------------------------------
(* A save. *)

(* What the rows of a save hold, committed or left pending. *)
LEMMA WrittenKeeps ==
  ASSUME SeriesInv, NEW p \in Programs, NEW rows, NEW refused, Good(p, rows), MayWrite(p),
         Written(p, rows, refused), UNCHANGED <<risk, sector, parted>>
  PROVE  SeriesInv'
<1>1. CASE refused = {}
  <2>1. /\ log' = rows.log /\ declared' = rows.declared /\ exposures' = rows.exposures
        /\ pending' = [pending EXCEPT ![p] = Empty]
    BY <1>1 DEF Written
  <2>2. Shape' /\ \A q \in Programs : pending'[q] = Empty
    BY <2>1 DEF SeriesInv, Shape, MayWrite
  <2>3. OneWriter'
    BY <2>2 DEF OneWriter
  <2>4. Committed' = rows
    <3>1. rows \in AnyRows
      BY DEF Good
    <3> QED BY <2>1, <3>1 DEF Committed, AnyRows
  <2>5. ASSUME ~ parted', NEW d \in DOMAIN exposures', NEW q \in Programs, sector[q] # NoCopy
        PROVE  exposures'[d].axis = sector[q].axis
    <3>1. \/ \E e \in DOMAIN exposures : exposures[e].axis = rows.exposures[d].axis
          \/ sector[p] # NoCopy /\ sector[p].axis = rows.exposures[d].axis
      BY <2>1, <2>5 DEF Good, AxesFrom
    <3> QED BY <2>1, <2>5, <3>1 DEF SeriesInv, SectorGood
  <2>6. ASSUME ~ parted', NEW d \in DOMAIN exposures', NEW e \in DOMAIN exposures'
        PROVE  exposures'[d].axis = exposures'[e].axis
    <3>1. ASSUME NEW x \in DOMAIN exposures'
          PROVE  \/ \E y \in DOMAIN exposures : exposures[y].axis = exposures'[x].axis
                 \/ sector[p] # NoCopy /\ sector[p].axis = exposures'[x].axis
      BY <2>1, <2>6 DEF Good, AxesFrom
    <3> QED BY <2>6, <3>1 DEF SeriesInv, SectorGood, CommittedGood
  <2>7. CommittedGood'
    BY <2>1, <2>4, <2>6 DEF Good, CommittedGood
  <2>8. ASSUME NEW q \in Programs PROVE Good(q, pending[q])'
    BY <2>2, EmptyGood DEF Good, Stamped, LogFrom, Faithful, AxesFrom
  <2>9. ASSUME NEW q \in Programs, risk[q] # NoCopy, ~ parted' PROVE Agree(risk[q].log, log')
    <3> SUFFICES ASSUME NEW n \in DOMAIN risk[q].log \cap DOMAIN rows.log
                 PROVE  risk[q].log[n] = rows.log[n]
      BY <2>1 DEF Agree
    <3>1. \/ n \in DOMAIN log /\ rows.log[n] = log[n]
          \/ risk[p] # NoCopy /\ n \in DOMAIN risk[p].log /\ rows.log[n] = risk[p].log[n]
      BY DEF Good, LogFrom
    <3>2. Agree(risk[q].log, log) /\ (risk[p] # NoCopy => Agree(risk[q].log, risk[p].log))
      BY <2>9 DEF SeriesInv, RiskGood
    <3> QED BY <3>1, <3>2 DEF Agree
  <2>10. ASSUME NEW q \in Programs PROVE RiskGood(q)'
    BY <2>9 DEF SeriesInv, RiskGood, Faithful, Stamped, Agree
  <2>11. ASSUME NEW q \in Programs PROVE SectorGood(q)'
    BY <2>5 DEF SeriesInv, SectorGood
  <2> QED BY <2>2, <2>3, <2>7, <2>8, <2>10, <2>11 DEF SeriesInv
<1>2. CASE refused # {}
  <2>1. /\ UNCHANGED <<log, declared, exposures>>
        /\ pending' = [pending EXCEPT ![p] = IF rows = Committed THEN Empty ELSE rows]
    BY <1>2 DEF Written
  <2>2. /\ Shape' /\ \A q \in Programs \ {p} : pending'[q] = Empty
        /\ pending'[p] \in {Empty, rows}
    BY <2>1 DEF SeriesInv, Shape, MayWrite
  <2>3. OneWriter'
    BY <2>2 DEF OneWriter
  <2>4. Good(p, rows)'
    BY <2>1 DEF Good, LogFrom, Faithful, AxesFrom, Stamped
  <2>5. ASSUME NEW q \in Programs PROVE Good(q, pending[q])'
    <3>1. Good(q, Empty)'
      BY EmptyGood DEF Good, Stamped, LogFrom, Faithful, AxesFrom
    <3>2. Empty' = Empty
      BY DEF Empty
    <3>3. CASE pending'[q] = Empty
      BY <3>1, <3>2, <3>3 DEF Good, Stamped, LogFrom, Faithful, AxesFrom
    <3>4. CASE q = p /\ pending'[q] = rows
      BY <2>4, <3>4 DEF Good, Stamped, LogFrom, Faithful, AxesFrom
    <3> QED BY <2>2, <3>3, <3>4
  <2>6. CommittedGood'
    BY <2>1 DEF SeriesInv, CommittedGood, Committed, Stamped, Faithful
  <2>7. ASSUME NEW q \in Programs PROVE RiskGood(q)' /\ SectorGood(q)'
    BY <2>1 DEF SeriesInv, RiskGood, SectorGood, Stamped, Faithful, Agree
  <2> QED BY <2>2, <2>3, <2>5, <2>6, <2>7 DEF SeriesInv
<1> QED BY <1>1, <1>2

(* The revisions of a copy go in after those already there. *)
LEMMA LogInsertedGood ==
  ASSUME NEW held \in RevisionLog, NEW copy \in CovarianceCopy, NEW refused,
         NEW new, new = LogInserted(held, copy, refused)
  PROVE  /\ new \in RevisionLog /\ DOMAIN held \subseteq DOMAIN new
         /\ DOMAIN copy.log \subseteq DOMAIN new
         /\ \A n \in DOMAIN new :
              \/ n \in DOMAIN held /\ new[n] = held[n]
              \/ n \in DOMAIN copy.log /\ new[n] = copy.log[n]
<1>1. /\ held \in Seq(Recipes) /\ Len(held) <= MaxRevisions
      /\ copy.log \in Seq(Recipes) /\ Len(copy.log) <= MaxRevisions
  BY LogIs DEF CovarianceCopy
<1>2. PICK a, b, m \in Nat : a = Len(held) /\ b = Len(copy.log) /\ m = IF b > a THEN b ELSE a
  BY <1>1
<1>3. new = [n \in 1..m |-> IF n <= a THEN held[n] ELSE copy.log[n]]
  BY <1>2 DEF LogInserted
<1>4. /\ DOMAIN new = 1..m /\ DOMAIN held = 1..a /\ DOMAIN copy.log = 1..b
      /\ m <= MaxRevisions /\ a <= m /\ b <= m
      /\ \A n \in 1..a : held[n] \in Recipes
      /\ \A n \in 1..b : copy.log[n] \in Recipes
  BY <1>1, <1>2, <1>3
<1>5. \A n \in 1..m :
        \/ n \in 1..a /\ new[n] = held[n]
        \/ n \in 1..b /\ new[n] = copy.log[n]
  BY <1>2, <1>3
<1>6. new \in [1..m -> Recipes]
  BY <1>3, <1>4, <1>5
<1>7. m \in 0..MaxRevisions
  BY <1>4, SeriesAssumption DEF SeriesAssumption
<1>8. new \in RevisionLog
  BY <1>6, <1>7 DEF RevisionLog
<1> QED BY <1>4, <1>5, <1>8

(* What a save of a copy puts into a connection's rows. *)
LEMMA SaveCovarianceKeeps ==
  ASSUME SeriesInv, NEW p \in Programs, SaveCovariance(p)
  PROVE  SeriesInv'
<1> DEFINE held == Rows(p)
           entries == risk[p].entries
           refused == {d \in DOMAIN entries \cap DOMAIN held.declared :
                         \/ held.declared[d].matrix # entries[d].matrix
                         \/ held.declared[d].revision # entries[d].revision}
           inserted == {d \in DOMAIN entries \ DOMAIN held.declared : Before(d, refused)}
           new == LogInserted(held.log, risk[p], refused)
           both == [d \in DOMAIN held.declared \cup inserted |->
                      IF d \in inserted THEN entries[d] ELSE held.declared[d]]
           rows == [held EXCEPT !.log = new, !.declared = both]
<1>1. MayWrite(p) /\ risk[p] # NoCopy /\ Written(p, rows, refused) /\ UNCHANGED <<risk, sector, parted>>
  BY DEF SaveCovariance
<1>2. Good(p, held) /\ RiskGood(p)
  BY RowsGood DEF SeriesInv
<1>3. held \in AnyRows /\ risk[p] \in CovarianceCopy
  BY <1>1, <1>2 DEF Good, RiskGood
<1>4. /\ new \in RevisionLog /\ DOMAIN held.log \subseteq DOMAIN new
      /\ DOMAIN risk[p].log \subseteq DOMAIN new
      /\ \A n \in DOMAIN new :
           \/ n \in DOMAIN held.log /\ new[n] = held.log[n]
           \/ n \in DOMAIN risk[p].log /\ new[n] = risk[p].log[n]
  <2>1. held.log \in RevisionLog
    BY <1>3 DEF AnyRows
  <2> HIDE DEF new, held, refused
  <2> QED BY <1>3, <2>1, LogInsertedGood DEF new
<1>5. both \in Dated(DeclaredCovariance)
  <2>1. held.declared \in Dated(DeclaredCovariance) /\ entries \in Dated(DeclaredCovariance)
    BY <1>3 DEF AnyRows, CovarianceCopy
  <2>2. inserted \subseteq DOMAIN entries
    OBVIOUS
  <2> HIDE DEF inserted, entries, held
  <2> QED BY <2>1, <2>2, DatedIs
<1>6. inserted \subseteq DOMAIN entries
  OBVIOUS
<1>7. rows.log = new /\ rows.declared = both /\ rows.exposures = held.exposures /\ rows \in AnyRows
  BY <1>3, <1>4, <1>5 DEF AnyRows
<1> HIDE DEF rows, new, refused, inserted, held
<1>8. \A d \in DOMAIN both : both[d] = IF d \in inserted THEN entries[d] ELSE held.declared[d]
  OBVIOUS
<1>9. DOMAIN both = DOMAIN held.declared \cup inserted
  OBVIOUS
<1> HIDE DEF both, entries
<1>10. Stamped(rows.log, rows.declared)
  BY <1>1, <1>2, <1>4, <1>6, <1>7, <1>8, <1>9 DEF Good, RiskGood, Stamped, entries
<1>11. LogFrom(p, rows)
  BY <1>1, <1>2, <1>4, <1>7 DEF Good, LogFrom
<1>12. ~ parted => Faithful(rows.log, rows.declared)
  <2> SUFFICES ASSUME ~ parted, NEW d \in DOMAIN both
               PROVE  new[both[d].revision] = both[d].recipe
    BY <1>7 DEF Faithful
  <2>1. Agree(risk[p].log, log) /\ Stamped(held.log, held.declared) /\ Faithful(held.log, held.declared)
        /\ Stamped(risk[p].log, entries) /\ Faithful(risk[p].log, entries) /\ LogFrom(p, held)
    BY <1>1, <1>2 DEF Good, RiskGood, entries
  <2>2. \A n \in DOMAIN held.log \cap DOMAIN risk[p].log : held.log[n] = risk[p].log[n]
    BY <2>1 DEF Agree, LogFrom
  <2>3. CASE d \in inserted
    BY <1>4, <1>6, <1>8, <2>1, <2>2, <2>3 DEF Stamped, Faithful
  <2>4. CASE d \notin inserted
    BY <1>4, <1>8, <1>9, <2>1, <2>2, <2>4 DEF Stamped, Faithful
  <2> QED BY <2>3, <2>4
<1>13. ~ parted => AxesFrom(p, rows)
  BY <1>2, <1>7 DEF Good, AxesFrom
<1>14. Good(p, rows)
  BY <1>7, <1>10, <1>11, <1>12, <1>13 DEF Good
<1> QED BY <1>1, <1>14, WrittenKeeps

LEMMA SaveModelKeeps ==
  ASSUME SeriesInv, NEW p \in Programs, SaveModel(p)
  PROVE  SeriesInv'
<1> DEFINE held == Rows(p)
           new == LogInserted(held.log, risk[p], {})
           rows == [held EXCEPT !.log = new]
<1>1. MayWrite(p) /\ risk[p] # NoCopy /\ Written(p, rows, {}) /\ UNCHANGED <<risk, sector, parted>>
  BY DEF SaveModel
<1>2. Good(p, held) /\ RiskGood(p)
  BY RowsGood DEF SeriesInv
<1>3. held \in AnyRows /\ risk[p] \in CovarianceCopy
  BY <1>1, <1>2 DEF Good, RiskGood
<1>4. /\ new \in RevisionLog /\ DOMAIN held.log \subseteq DOMAIN new
      /\ \A n \in DOMAIN new :
           \/ n \in DOMAIN held.log /\ new[n] = held.log[n]
           \/ n \in DOMAIN risk[p].log /\ new[n] = risk[p].log[n]
  <2>1. held.log \in RevisionLog
    BY <1>3 DEF AnyRows
  <2> HIDE DEF new, held
  <2> QED BY <1>3, <2>1, LogInsertedGood DEF new
<1>5. /\ rows.log = new /\ rows.declared = held.declared /\ rows.exposures = held.exposures
      /\ rows \in AnyRows
  BY <1>3, <1>4 DEF AnyRows
<1> HIDE DEF rows, new, held
<1>6. Stamped(rows.log, rows.declared) /\ LogFrom(p, rows)
  BY <1>1, <1>2, <1>4, <1>5 DEF Good, LogFrom, Stamped
<1>7. ~ parted => Faithful(rows.log, rows.declared)
  <2> SUFFICES ASSUME ~ parted, NEW d \in DOMAIN held.declared
               PROVE  new[held.declared[d].revision] = held.declared[d].recipe
    BY <1>5 DEF Faithful
  <2>1. Agree(risk[p].log, log) /\ Stamped(held.log, held.declared) /\ Faithful(held.log, held.declared)
        /\ LogFrom(p, held)
    BY <1>1, <1>2 DEF Good, RiskGood
  <2>2. \A n \in DOMAIN held.log \cap DOMAIN risk[p].log : held.log[n] = risk[p].log[n]
    BY <2>1 DEF Agree, LogFrom
  <2> QED BY <1>4, <2>1, <2>2 DEF Stamped, Faithful
<1>8. ~ parted => AxesFrom(p, rows)
  BY <1>2, <1>5 DEF Good, AxesFrom
<1>9. Good(p, rows)
  BY <1>5, <1>6, <1>7, <1>8 DEF Good
<1> QED BY <1>1, <1>9, WrittenKeeps

LEMMA SaveExposureKeeps ==
  ASSUME SeriesInv, NEW p \in Programs, SaveExposure(p)
  PROVE  SeriesInv'
<1> DEFINE held == Rows(p)
           entries == sector[p].entries
           refused == {d \in DOMAIN entries \cap DOMAIN held.exposures :
                         held.exposures[d].matrix # entries[d]}
           inserted == {d \in DOMAIN entries \ DOMAIN held.exposures : Before(d, refused)}
           both == [d \in DOMAIN held.exposures \cup inserted |->
                      IF d \in inserted THEN [axis |-> sector[p].axis, matrix |-> entries[d]]
                      ELSE held.exposures[d]]
           rows == [held EXCEPT !.exposures = both]
<1>1. MayWrite(p) /\ sector[p] # NoCopy /\ Written(p, rows, refused) /\ UNCHANGED <<risk, sector, parted>>
  BY DEF SaveExposure
<1>2. Good(p, held) /\ SectorGood(p)
  BY RowsGood DEF SeriesInv
<1>3. held \in AnyRows /\ sector[p] \in ExposureCopy
  BY <1>1, <1>2 DEF Good, SectorGood
<1>4. inserted \subseteq DOMAIN entries
  OBVIOUS
<1>5. /\ DOMAIN both = DOMAIN held.exposures \cup inserted
      /\ \A d \in DOMAIN both : both[d] = IF d \in inserted
           THEN [axis |-> sector[p].axis, matrix |-> entries[d]] ELSE held.exposures[d]
  OBVIOUS
<1>6. both \in Dated(DeclaredExposure)
  <2>1. /\ held.exposures \in Dated(DeclaredExposure) /\ entries \in Dated(Matrices)
        /\ sector[p].axis \in Axes
    BY <1>3 DEF AnyRows, ExposureCopy
  <2>2. both = [d \in DOMAIN both |-> both[d]]
    OBVIOUS
  <2> HIDE DEF inserted, entries, held, both
  <2>3. DOMAIN held.exposures \subseteq AsOf /\ DOMAIN entries \subseteq AsOf
    BY <2>1, DatedIs
  <2>4. ASSUME NEW d \in DOMAIN both PROVE both[d] \in DeclaredExposure
    <3>1. CASE d \in inserted
      <4>1. entries[d] \in Matrices
        BY <1>4, <2>1, <3>1, DatedIs
      <4>2. both[d] = [axis |-> sector[p].axis, matrix |-> entries[d]]
        BY <1>5, <3>1
      <4> QED BY <2>1, <4>1, <4>2 DEF DeclaredExposure
    <3>2. CASE d \notin inserted
      BY <1>5, <2>1, <3>2, DatedIs
    <3> QED BY <3>1, <3>2
  <2> QED BY <1>4, <1>5, <2>2, <2>3, <2>4, DatedIs
<1>7. /\ rows.log = held.log /\ rows.declared = held.declared /\ rows.exposures = both
      /\ rows \in AnyRows
  BY <1>3, <1>6 DEF AnyRows
<1> HIDE DEF rows, refused, inserted, held, both, entries
<1>8. Stamped(rows.log, rows.declared) /\ LogFrom(p, rows)
  BY <1>2, <1>7 DEF Good, LogFrom
<1>9. ~ parted => Faithful(rows.log, rows.declared)
  BY <1>2, <1>7 DEF Good
<1>10. ~ parted => AxesFrom(p, rows)
  <2> SUFFICES ASSUME ~ parted, NEW d \in DOMAIN both
               PROVE  \/ \E e \in DOMAIN exposures : exposures[e].axis = both[d].axis
                      \/ sector[p] # NoCopy /\ sector[p].axis = both[d].axis
    BY <1>7 DEF AxesFrom
  <2>1. CASE d \in inserted
    <3>1. both[d] = [axis |-> sector[p].axis, matrix |-> entries[d]]
      BY <1>5, <2>1
    <3> QED BY <1>1, <3>1
  <2>2. CASE d \notin inserted
    BY <1>2, <1>5, <2>2 DEF Good, AxesFrom
  <2> QED BY <2>1, <2>2
<1>11. Good(p, rows)
  BY <1>7, <1>8, <1>9, <1>10 DEF Good
<1> QED BY <1>1, <1>11, WrittenKeeps

LEMMA CommitOtherKeeps ==
  ASSUME SeriesInv, NEW p \in Programs, CommitOther(p)
  PROVE  SeriesInv'
<1>1. MayWrite(p)
  BY DEF CommitOther, MayWrite, SeriesInv, OneWriter
<1>2. Written(p, Rows(p), {}) /\ UNCHANGED <<risk, sector, parted>>
  BY DEF CommitOther
<1> QED BY <1>1, <1>2, RowsGood, WrittenKeeps

-----------------------------------------------------------------------------
(* A program's own copies. *)

LEMMA RiskMoves ==
  ASSUME SeriesInv, NEW p \in Programs, NEW copy \in CovarianceCopy,
         risk' = [risk EXCEPT ![p] = copy], UNCHANGED <<log, declared, exposures, pending, sector>>,
         parted' \in BOOLEAN, parted => parted',
         copy.log # <<>>, Stamped(copy.log, copy.entries),
         ~ parted' => /\ Faithful(copy.log, copy.entries) /\ Agree(copy.log, log)
                      /\ \A q \in Programs \ {p} : risk[q] # NoCopy => Agree(copy.log, risk[q].log),
         \A n \in DOMAIN pending[p].log :
           \/ n \in DOMAIN log /\ pending[p].log[n] = log[n]
           \/ n \in DOMAIN copy.log /\ pending[p].log[n] = copy.log[n]
  PROVE  SeriesInv'
<1>1. copy # NoCopy
  BY SeriesAssumption DEF SeriesAssumption
<1>2. Shape' /\ \A q \in Programs : risk'[q] = IF q = p THEN copy ELSE risk[q]
  BY DEF SeriesInv, Shape
<1>3. OneWriter'
  BY DEF SeriesInv, OneWriter, Empty
<1>4. CommittedGood'
  BY DEF SeriesInv, CommittedGood, Committed, Stamped, Faithful
<1>5. ASSUME NEW q \in Programs PROVE Good(q, pending[q])'
  <2>1. LogFrom(q, pending[q])'
    BY <1>1, <1>2 DEF SeriesInv, Good, LogFrom
  <2>2. ~ parted' => Faithful(pending[q].log, pending[q].declared)' /\ AxesFrom(q, pending[q])'
    BY DEF SeriesInv, Good, Faithful, AxesFrom
  <2> QED BY <2>1, <2>2 DEF SeriesInv, Good, Stamped
<1>6. ASSUME NEW q \in Programs PROVE RiskGood(q)'
  <2>1. CASE q = p
    <3>1. \A r \in Programs : risk'[r] # NoCopy /\ ~ parted' => Agree(copy.log, risk'[r].log)
      BY <1>2 DEF Agree
    <3> QED BY <1>2, <2>1, <3>1 DEF RiskGood, Stamped, Faithful, Agree
  <2>2. CASE q # p
    <3>1. RiskGood(q) /\ risk'[q] = risk[q]
      BY <1>2, <2>2 DEF SeriesInv
    <3>2. \A r \in Programs : risk[q] # NoCopy /\ risk'[r] # NoCopy /\ ~ parted' =>
            Agree(risk[q].log, risk'[r].log)
      BY <1>2, <2>2, <3>1 DEF Agree, RiskGood
    <3> QED BY <1>2, <2>2, <3>1, <3>2 DEF RiskGood, Stamped, Faithful, Agree
  <2> QED BY <2>1, <2>2
<1>7. ASSUME NEW q \in Programs PROVE SectorGood(q)'
  BY DEF SeriesInv, SectorGood
<1> QED BY <1>2, <1>3, <1>4, <1>5, <1>6, <1>7 DEF SeriesInv

LEMMA SectorMoves ==
  ASSUME SeriesInv, NEW p \in Programs, NEW copy \in ExposureCopy,
         sector' = [sector EXCEPT ![p] = copy], UNCHANGED <<log, declared, exposures, pending, risk>>,
         parted' \in BOOLEAN, parted => parted',
         ~ parted' => /\ \A d \in DOMAIN exposures : exposures[d].axis = copy.axis
                      /\ \A q \in Programs \ {p} : sector[q] # NoCopy => sector[q].axis = copy.axis
                      /\ \A d \in DOMAIN pending[p].exposures :
                           \/ \E e \in DOMAIN exposures : exposures[e].axis = pending[p].exposures[d].axis
                           \/ copy.axis = pending[p].exposures[d].axis
  PROVE  SeriesInv'
<1>1. copy # NoCopy
  BY SeriesAssumption DEF SeriesAssumption
<1>2. Shape' /\ \A q \in Programs : sector'[q] = IF q = p THEN copy ELSE sector[q]
  BY DEF SeriesInv, Shape
<1>3. OneWriter'
  BY DEF SeriesInv, OneWriter, Empty
<1>4. CommittedGood'
  BY DEF SeriesInv, CommittedGood, Committed, Stamped, Faithful
<1>5. ASSUME NEW q \in Programs PROVE Good(q, pending[q])'
  <2>1. LogFrom(q, pending[q])'
    BY DEF SeriesInv, Good, LogFrom
  <2>2. ~ parted' => Faithful(pending[q].log, pending[q].declared)' /\ AxesFrom(q, pending[q])'
    BY <1>1, <1>2 DEF SeriesInv, Good, Faithful, AxesFrom
  <2> QED BY <2>1, <2>2 DEF SeriesInv, Good, Stamped
<1>6. ASSUME NEW q \in Programs PROVE RiskGood(q)'
  BY DEF SeriesInv, RiskGood, Stamped, Faithful, Agree
<1>7. ASSUME NEW q \in Programs PROVE SectorGood(q)'
  BY <1>2 DEF SeriesInv, SectorGood
<1> QED BY <1>2, <1>3, <1>4, <1>5, <1>6, <1>7 DEF SeriesInv

LEMMA LoadCovarianceKeeps ==
  ASSUME SeriesInv, NEW p \in Programs, LoadCovariance(p)
  PROVE  SeriesInv'
<1> DEFINE copy == [log |-> Rows(p).log, entries |-> Rows(p).declared]
<1>1. Good(p, Rows(p)) /\ CovarianceLoads(Rows(p))
  BY RowsGood DEF LoadCovariance
<1>2. /\ copy \in CovarianceCopy /\ copy.log # <<>> /\ Stamped(copy.log, copy.entries)
      /\ ~ parted => Faithful(copy.log, copy.entries)
  BY <1>1 DEF CovarianceLoads, Good, AnyRows, CovarianceCopy
<1>3. ~ parted => Agree(copy.log, log) /\ \A q \in Programs : risk[q] # NoCopy => Agree(copy.log, risk[q].log)
  <2> SUFFICES ASSUME ~ parted
               PROVE  Agree(copy.log, log) /\ \A q \in Programs : risk[q] # NoCopy => Agree(copy.log, risk[q].log)
    OBVIOUS
  <2>1. \A n \in DOMAIN copy.log :
          \/ n \in DOMAIN log /\ copy.log[n] = log[n]
          \/ risk[p] # NoCopy /\ n \in DOMAIN risk[p].log /\ copy.log[n] = risk[p].log[n]
    BY <1>1 DEF Good, LogFrom
  <2>2. \A q \in Programs : risk[q] # NoCopy => Agree(risk[q].log, log)
    BY DEF SeriesInv, RiskGood
  <2>3. \A q, r \in Programs : risk[q] # NoCopy /\ risk[r] # NoCopy => Agree(risk[q].log, risk[r].log)
    BY DEF SeriesInv, RiskGood
  <2> HIDE DEF copy
  <2> QED BY <2>1, <2>2, <2>3 DEF Agree
<1>4. \A n \in DOMAIN pending[p].log : n \in DOMAIN copy.log /\ pending[p].log[n] = copy.log[n]
  <2>1. CASE pending[p] = Empty
    BY <2>1, EmptyGood
  <2>2. CASE pending[p] # Empty
    BY <2>2 DEF Rows
  <2> QED BY <2>1, <2>2
<1>5. /\ risk' = [risk EXCEPT ![p] = copy]
      /\ UNCHANGED <<log, declared, exposures, pending, sector, parted>>
  BY DEF LoadCovariance
<1>6. parted' \in BOOLEAN
  BY <1>5 DEF SeriesInv, Shape
<1> HIDE DEF copy
<1> QED BY <1>2, <1>3, <1>4, <1>5, <1>6, RiskMoves

LEMMA StartModelKeeps ==
  ASSUME SeriesInv, NEW p \in Programs, NEW recipe \in Recipes, StartModel(p, recipe)
  PROVE  SeriesInv'
<1> DEFINE copy == [log |-> <<recipe>>, entries |-> <<>>]
<1>1. <<recipe>> \in RevisionLog
  <2>1. <<recipe>> \in Seq(Recipes) /\ Len(<<recipe>>) <= MaxRevisions
    BY SeriesAssumption DEF SeriesAssumption
  <2> QED BY <2>1, LogIs
<1>2. copy \in CovarianceCopy /\ copy.log # <<>> /\ DOMAIN copy.entries = {}
  BY <1>1, NothingDated DEF CovarianceCopy
<1>3. copy.log[1] = recipe /\ \A n \in DOMAIN copy.log : n = 1
  OBVIOUS
<1>4. /\ risk[p] = NoCopy /\ risk' = [risk EXCEPT ![p] = copy]
      /\ UNCHANGED <<log, declared, exposures, pending, sector>>
      /\ parted' = (parted \/ Taken(p, 1, recipe))
  BY DEF StartModel
<1>5. parted' \in BOOLEAN
  BY <1>4 DEF SeriesInv, Shape
<1> HIDE DEF copy
<1>6. Stamped(copy.log, copy.entries) /\ Faithful(copy.log, copy.entries)
  BY <1>2 DEF Stamped, Faithful
<1>7. ~ parted' => /\ Agree(copy.log, log)
                   /\ \A q \in Programs \ {p} : risk[q] # NoCopy => Agree(copy.log, risk[q].log)
  BY <1>3, <1>4 DEF Taken, Agree
<1>8. \A n \in DOMAIN pending[p].log : n \in DOMAIN log /\ pending[p].log[n] = log[n]
  BY <1>4 DEF SeriesInv, Good, LogFrom
<1> QED BY <1>2, <1>4, <1>5, <1>6, <1>7, <1>8, RiskMoves

LEMMA EditModelKeeps ==
  ASSUME SeriesInv, NEW p \in Programs, NEW recipe \in Recipes, EditModel(p, recipe)
  PROVE  SeriesInv'
<1> DEFINE old == risk[p].log
           copy == [risk[p] EXCEPT !.log = Append(@, recipe)]
<1>1. /\ risk[p] # NoCopy /\ Len(old) < MaxRevisions /\ UNCHANGED <<log, declared, exposures, pending, sector>>
      /\ risk' = [risk EXCEPT ![p].log = Append(@, recipe)]
      /\ parted' = (parted \/ Taken(p, Len(risk'[p].log), recipe))
  BY DEF EditModel
<1>2. risk[p] \in CovarianceCopy /\ RiskGood(p)
  BY <1>1 DEF SeriesInv, RiskGood
<1>3. old \in Seq(Recipes)
  BY <1>2, LogIs DEF CovarianceCopy
<1>4. copy.log = Append(old, recipe) /\ copy.entries = risk[p].entries
  BY <1>2 DEF CovarianceCopy
<1>5. copy \in CovarianceCopy
  <2>1. Append(old, recipe) \in Seq(Recipes) /\ Len(Append(old, recipe)) <= MaxRevisions
    BY <1>1, <1>3, SeriesAssumption DEF SeriesAssumption
  <2>2. Append(old, recipe) \in RevisionLog
    BY <2>1, LogIs
  <2> QED BY <1>2, <2>2 DEF CovarianceCopy
<1>6. risk' = [risk EXCEPT ![p] = copy] /\ risk'[p] = copy
  BY <1>1 DEF SeriesInv, Shape
<1> HIDE DEF copy
<1>7. /\ Len(copy.log) = Len(old) + 1 /\ copy.log # <<>> /\ copy.log[Len(copy.log)] = recipe
      /\ DOMAIN copy.log = DOMAIN old \cup {Len(copy.log)}
      /\ \A n \in DOMAIN old : copy.log[n] = old[n]
  BY <1>3, <1>4
<1>8. parted' \in BOOLEAN /\ (parted => parted')
  BY <1>1 DEF SeriesInv, Shape
<1>9. Stamped(copy.log, copy.entries)
  BY <1>1, <1>2, <1>4, <1>7 DEF RiskGood, Stamped
<1>10. ~ parted' => Faithful(copy.log, copy.entries)
  BY <1>1, <1>2, <1>4, <1>7 DEF RiskGood, Faithful, Stamped
<1>11. ~ parted' => /\ ~ parted
                    /\ Len(copy.log) \in DOMAIN log => log[Len(copy.log)] = recipe
                    /\ \A q \in Programs \ {p} : risk[q] # NoCopy /\ Len(copy.log) \in DOMAIN risk[q].log =>
                         risk[q].log[Len(copy.log)] = recipe
  BY <1>1, <1>6 DEF Taken
<1>12. ~ parted' => /\ Agree(copy.log, log)
                    /\ \A q \in Programs \ {p} : risk[q] # NoCopy => Agree(copy.log, risk[q].log)
  <2> SUFFICES ASSUME ~ parted'
               PROVE  /\ Agree(copy.log, log)
                      /\ \A q \in Programs \ {p} : risk[q] # NoCopy => Agree(copy.log, risk[q].log)
    OBVIOUS
  <2>1. Agree(old, log) /\ \A q \in Programs : risk[q] # NoCopy => Agree(old, risk[q].log)
    BY <1>1, <1>2, <1>11 DEF RiskGood
  <2> HIDE DEF old
  <2> QED BY <1>7, <1>11, <2>1 DEF Agree
<1>13. \A n \in DOMAIN pending[p].log :
         \/ n \in DOMAIN log /\ pending[p].log[n] = log[n]
         \/ n \in DOMAIN copy.log /\ pending[p].log[n] = copy.log[n]
  BY <1>7 DEF SeriesInv, Good, LogFrom
<1> HIDE DEF old
<1>14. UNCHANGED <<log, declared, exposures, pending, sector>>
  BY <1>1
<1> QED BY <1>5, <1>6, <1>7, <1>8, <1>9, <1>10, <1>12, <1>13, <1>14, RiskMoves

LEMMA DeclareKeeps ==
  ASSUME SeriesInv, NEW p \in Programs, NEW d \in AsOf, NEW matrix \in Matrices, Declare(p, d, matrix)
  PROVE  SeriesInv'
<1> DEFINE old == risk[p].log
           entry == [revision |-> Len(old), recipe |-> old[Len(old)], matrix |-> matrix]
           entries == [x \in DOMAIN risk[p].entries \cup {d} |->
                         IF x # d THEN risk[p].entries[x] ELSE entry]
           copy == [risk[p] EXCEPT !.entries = entries]
<1>1. /\ risk[p] # NoCopy /\ UNCHANGED <<log, declared, exposures, pending, sector, parted>>
      /\ d \notin DOMAIN risk[p].entries
  BY DEF Declare
<1>2. risk[p] \in CovarianceCopy /\ RiskGood(p)
  BY <1>1 DEF SeriesInv, RiskGood
<1>3. old \in Seq(Recipes) /\ Len(old) <= MaxRevisions /\ old # <<>>
  BY <1>1, <1>2, LogIs DEF CovarianceCopy, RiskGood
<1>4. Len(old) \in DOMAIN old /\ old[Len(old)] \in Recipes /\ Len(old) \in 1..MaxRevisions
  BY <1>3, SeriesAssumption DEF SeriesAssumption
<1>5. /\ entry \in DeclaredCovariance
      /\ entry.revision = Len(old) /\ entry.recipe = old[Len(old)]
  BY <1>4 DEF DeclaredCovariance
<1> HIDE DEF entry
<1>6. risk[p].entries \in Dated(DeclaredCovariance)
  BY <1>2 DEF CovarianceCopy
<1>7. entries \in Dated(DeclaredCovariance)
  <2>1. /\ entries = [x \in DOMAIN entries |-> entries[x]]
        /\ DOMAIN entries = DOMAIN risk[p].entries \cup {d}
        /\ \A x \in DOMAIN entries : entries[x] = IF x # d THEN risk[p].entries[x] ELSE entry
    OBVIOUS
  <2> HIDE DEF entries
  <2> QED BY <1>5, <1>6, <2>1, DatedIs
<1>8. copy.log = old /\ copy.entries = entries /\ copy \in CovarianceCopy
  BY <1>2, <1>7 DEF CovarianceCopy
<1>9. risk' = [risk EXCEPT ![p] = copy]
  BY <1>1 DEF Declare, SeriesInv, Shape, entry
<1> HIDE DEF copy
<1>10. Stamped(copy.log, copy.entries)
  BY <1>1, <1>2, <1>4, <1>5, <1>8 DEF RiskGood, Stamped
<1>11. ~ parted => Faithful(copy.log, copy.entries)
  BY <1>1, <1>2, <1>5, <1>8 DEF RiskGood, Faithful
<1>12. ~ parted => /\ Agree(copy.log, log)
                   /\ \A q \in Programs \ {p} : risk[q] # NoCopy => Agree(copy.log, risk[q].log)
  BY <1>1, <1>2, <1>8 DEF RiskGood
<1>13. \A n \in DOMAIN pending[p].log :
         \/ n \in DOMAIN log /\ pending[p].log[n] = log[n]
         \/ n \in DOMAIN copy.log /\ pending[p].log[n] = copy.log[n]
  BY <1>8 DEF SeriesInv, Good, LogFrom
<1>14. parted' \in BOOLEAN
  BY <1>1 DEF SeriesInv, Shape
<1> QED BY <1>1, <1>3, <1>8, <1>9, <1>10, <1>11, <1>12, <1>13, <1>14, RiskMoves

LEMMA LoadExposureKeeps ==
  ASSUME SeriesInv, NEW p \in Programs, LoadExposure(p)
  PROVE  SeriesInv'
<1> DEFINE entries == Rows(p).exposures
           axis == (CHOOSE e \in {entries[d] : d \in DOMAIN entries} : TRUE).axis
           matrices == [d \in DOMAIN entries |-> entries[d].matrix]
           copy == [axis |-> axis, entries |-> matrices]
<1>1. /\ ExposureLoads(Rows(p)) /\ sector' = [sector EXCEPT ![p] = copy]
      /\ UNCHANGED <<log, declared, exposures, pending, risk, parted>>
  BY DEF LoadExposure
<1>2. Good(p, Rows(p))
  BY RowsGood
<1>3. entries \in Dated(DeclaredExposure)
  BY <1>2 DEF Good, AnyRows
<1>4. entries # <<>> /\ \A d, e \in DOMAIN entries : entries[d].axis = entries[e].axis
  BY <1>1 DEF ExposureLoads
<1>5. \A d \in DOMAIN entries : entries[d].axis = axis
  <2>1. {entries[d] : d \in DOMAIN entries} # {}
    <3> HIDE DEF entries
    <3> QED BY <1>3, <1>4, NothingDated, DatedIs
  <2>2. (CHOOSE e \in {entries[d] : d \in DOMAIN entries} : TRUE) \in {entries[d] : d \in DOMAIN entries}
    BY <2>1
  <2> QED BY <1>4, <2>2
<1>6. PICK any \in DOMAIN entries : TRUE
  <2> HIDE DEF entries
  <2> QED BY <1>3, <1>4, NothingDated, DatedIs
<1>7. copy \in ExposureCopy /\ copy.axis = axis
  <2>1. \A x \in DOMAIN entries : entries[x] \in DeclaredExposure
    <3> HIDE DEF entries
    <3> QED BY <1>3, DatedIs
  <2>2. axis \in Axes
    <3> HIDE DEF axis, entries
    <3> QED BY <1>5, <1>6, <2>1 DEF DeclaredExposure
  <2>3. matrices \in Dated(Matrices)
    <3>1. /\ DOMAIN matrices = DOMAIN entries /\ matrices = [x \in DOMAIN matrices |-> matrices[x]]
          /\ \A x \in DOMAIN matrices : matrices[x] = entries[x].matrix
      OBVIOUS
    <3> HIDE DEF matrices, entries
    <3>2. \A x \in DOMAIN entries : entries[x].matrix \in Matrices
      BY <2>1 DEF DeclaredExposure
    <3> QED BY <1>3, <3>1, <3>2, DatedIs
  <2> HIDE DEF axis, matrices
  <2> QED BY <2>2, <2>3 DEF ExposureCopy
<1>8. ~ parted' => /\ \A d \in DOMAIN exposures : exposures[d].axis = copy.axis
                   /\ \A q \in Programs \ {p} : sector[q] # NoCopy => sector[q].axis = copy.axis
  <2> SUFFICES ASSUME ~ parted
               PROVE  /\ \A d \in DOMAIN exposures : exposures[d].axis = axis
                      /\ \A q \in Programs \ {p} : sector[q] # NoCopy => sector[q].axis = axis
    BY <1>1, <1>7
  <2>1. \/ \E e \in DOMAIN exposures : exposures[e].axis = axis
        \/ sector[p] # NoCopy /\ sector[p].axis = axis
    <3>1. AxesFrom(p, Rows(p)) /\ entries[CHOOSE d \in DOMAIN entries : TRUE].axis = axis
      BY <1>2, <1>5, <1>6 DEF Good
    <3>2. (CHOOSE d \in DOMAIN entries : TRUE) \in DOMAIN entries
      BY <1>6
    <3> HIDE DEF axis
    <3> QED BY <3>1, <3>2 DEF AxesFrom
  <2> HIDE DEF axis
  <2> QED BY <2>1 DEF SeriesInv, CommittedGood, SectorGood
<1>9. \A d \in DOMAIN pending[p].exposures : copy.axis = pending[p].exposures[d].axis
  <2>1. CASE pending[p] = Empty
    BY <2>1, EmptyGood
  <2>2. CASE pending[p] # Empty
    BY <1>5, <1>7, <2>2 DEF Rows
  <2> QED BY <2>1, <2>2
<1>10. parted' \in BOOLEAN
  BY <1>1 DEF SeriesInv, Shape
<1> HIDE DEF copy
<1> QED BY <1>1, <1>7, <1>8, <1>9, <1>10, SectorMoves

LEMMA StartSectorKeeps ==
  ASSUME SeriesInv, NEW p \in Programs, NEW axis \in Axes, StartSector(p, axis)
  PROVE  SeriesInv'
<1> DEFINE copy == [axis |-> axis, entries |-> <<>>]
<1>1. copy \in ExposureCopy /\ copy.axis = axis
  BY NothingDated DEF ExposureCopy
<1>2. /\ sector[p] = NoCopy /\ sector' = [sector EXCEPT ![p] = copy]
      /\ UNCHANGED <<log, declared, exposures, pending, risk>>
      /\ parted' = (parted \/ \E a \in {exposures[d].axis : d \in DOMAIN exposures} \cup
                             {sector[q].axis : q \in {q \in Programs : sector[q] # NoCopy}} : a # axis)
  BY DEF StartSector
<1> HIDE DEF copy
<1>3. parted' \in BOOLEAN /\ (parted => parted')
  BY <1>2 DEF SeriesInv, Shape
<1>4. ~ parted' => /\ ~ parted
                   /\ \A d \in DOMAIN exposures : exposures[d].axis = copy.axis
                   /\ \A q \in Programs \ {p} : sector[q] # NoCopy => sector[q].axis = copy.axis
  BY <1>1, <1>2
<1>5. ~ parted' => \A d \in DOMAIN pending[p].exposures :
                     \E e \in DOMAIN exposures : exposures[e].axis = pending[p].exposures[d].axis
  BY <1>2, <1>4 DEF SeriesInv, Good, AxesFrom
<1> QED BY <1>1, <1>2, <1>3, <1>4, <1>5, SectorMoves

LEMMA AppendExposureKeeps ==
  ASSUME SeriesInv, NEW p \in Programs, NEW d \in AsOf, NEW matrix \in Matrices,
         AppendExposure(p, d, matrix)
  PROVE  SeriesInv'
<1> DEFINE entries == [x \in DOMAIN sector[p].entries \cup {d} |->
                         IF x = d THEN matrix ELSE sector[p].entries[x]]
           copy == [sector[p] EXCEPT !.entries = entries]
<1>1. sector[p] # NoCopy /\ UNCHANGED <<log, declared, exposures, pending, risk, parted>>
  BY DEF AppendExposure
<1>2. sector[p] \in ExposureCopy /\ SectorGood(p)
  BY <1>1 DEF SeriesInv, SectorGood
<1>3. entries \in Dated(Matrices)
  <2>1. sector[p].entries \in Dated(Matrices)
    BY <1>2 DEF ExposureCopy
  <2>2. /\ entries = [x \in DOMAIN entries |-> entries[x]]
        /\ DOMAIN entries = DOMAIN sector[p].entries \cup {d}
        /\ \A x \in DOMAIN entries : entries[x] = IF x = d THEN matrix ELSE sector[p].entries[x]
    OBVIOUS
  <2> HIDE DEF entries
  <2> QED BY <2>1, <2>2, DatedIs
<1>4. copy.axis = sector[p].axis /\ copy \in ExposureCopy
  BY <1>2, <1>3 DEF ExposureCopy
<1>5. sector' = [sector EXCEPT ![p] = copy]
  BY <1>1 DEF AppendExposure, SeriesInv, Shape
<1> HIDE DEF copy
<1>6. parted' \in BOOLEAN
  BY <1>1 DEF SeriesInv, Shape
<1>7. ~ parted => /\ \A x \in DOMAIN exposures : exposures[x].axis = copy.axis
                  /\ \A q \in Programs \ {p} : sector[q] # NoCopy => sector[q].axis = copy.axis
  BY <1>1, <1>2, <1>4 DEF SectorGood
<1>8. ~ parted => \A x \in DOMAIN pending[p].exposures :
        \/ \E e \in DOMAIN exposures : exposures[e].axis = pending[p].exposures[x].axis
        \/ copy.axis = pending[p].exposures[x].axis
  BY <1>4 DEF SeriesInv, Good, AxesFrom
<1> QED BY <1>1, <1>4, <1>5, <1>6, <1>7, <1>8, SectorMoves

(* What is closed is forgotten. *)
LEMMA CloseStoreKeeps ==
  ASSUME SeriesInv, NEW p \in Programs, CloseStore(p)
  PROVE  SeriesInv'
<1>1. /\ pending' = [pending EXCEPT ![p] = Empty] /\ risk' = [risk EXCEPT ![p] = NoCopy]
      /\ sector' = [sector EXCEPT ![p] = NoCopy] /\ UNCHANGED <<log, declared, exposures, parted>>
  BY DEF CloseStore
<1>2. /\ Shape' /\ pending'[p] = Empty /\ risk'[p] = NoCopy /\ sector'[p] = NoCopy
      /\ \A q \in Programs \ {p} :
           pending'[q] = pending[q] /\ risk'[q] = risk[q] /\ sector'[q] = sector[q]
  BY <1>1 DEF SeriesInv, Shape
<1>3. Empty' = Empty
  BY DEF Empty
<1>4. OneWriter'
  BY <1>2, <1>3 DEF SeriesInv, OneWriter
<1>5. CommittedGood'
  BY <1>1 DEF SeriesInv, CommittedGood, Committed, Stamped, Faithful
<1>6. ASSUME NEW q \in Programs PROVE Good(q, pending[q])'
  <2>1. CASE q = p
    BY <1>2, <2>1, EmptyGood DEF Good, Stamped, LogFrom, Faithful, AxesFrom
  <2>2. CASE q # p
    BY <1>1, <1>2, <2>2 DEF SeriesInv, Good, Stamped, LogFrom, Faithful, AxesFrom
  <2> QED BY <2>1, <2>2
<1>7. ASSUME NEW q \in Programs PROVE RiskGood(q)' /\ SectorGood(q)'
  BY <1>1, <1>2 DEF SeriesInv, RiskGood, SectorGood, Stamped, Faithful, Agree
<1> QED BY <1>2, <1>4, <1>5, <1>6, <1>7 DEF SeriesInv

-----------------------------------------------------------------------------
LEMMA SeriesInvInitially == SeriesInit => SeriesInv
<1> SUFFICES ASSUME SeriesInit PROVE SeriesInv
  OBVIOUS
<1>1. /\ Shape /\ \A p \in Programs : pending[p] = Empty /\ risk[p] = NoCopy /\ sector[p] = NoCopy
      /\ Committed = Empty /\ log = Empty.log /\ declared = Empty.declared
      /\ exposures = Empty.exposures
  BY DEF SeriesInit, Shape, Committed, Empty
<1>2. OneWriter
  BY <1>1 DEF OneWriter
<1>3. CommittedGood
  BY <1>1, EmptyGood DEF CommittedGood, Stamped, Faithful
<1>4. ASSUME NEW p \in Programs PROVE Good(p, pending[p])
  BY <1>1, EmptyGood DEF Good, Stamped, LogFrom, Faithful, AxesFrom
<1> QED BY <1>1, <1>2, <1>3, <1>4 DEF SeriesInv, RiskGood, SectorGood

LEMMA SeriesInvStays ==
  ASSUME SeriesInv, UNCHANGED seriesVars
  PROVE  SeriesInv'
<1>1. UNCHANGED <<log, declared, exposures, pending, risk, sector, parted>>
  BY DEF seriesVars
<1>2. Shape' /\ OneWriter' /\ CommittedGood'
  BY <1>1 DEF SeriesInv, Shape, OneWriter, CommittedGood, Committed, Stamped, Faithful, Empty
<1>3. ASSUME NEW p \in Programs PROVE Good(p, pending[p])'
  BY <1>1 DEF SeriesInv, Good, Stamped, LogFrom, Faithful, AxesFrom
<1>4. ASSUME NEW p \in Programs PROVE RiskGood(p)' /\ SectorGood(p)'
  BY <1>1 DEF SeriesInv, RiskGood, SectorGood, Stamped, Faithful, Agree
<1> QED BY <1>2, <1>3, <1>4 DEF SeriesInv

LEMMA SeriesInvKept == SeriesInv /\ [SeriesNext]_seriesVars => SeriesInv'
<1> SUFFICES ASSUME SeriesInv, [SeriesNext]_seriesVars PROVE SeriesInv'
  OBVIOUS
<1>1. CASE CovarianceNext
  BY <1>1, LoadCovarianceKeeps, SaveCovarianceKeeps, SaveModelKeeps, StartModelKeeps, EditModelKeeps,
     DeclareKeeps DEF CovarianceNext
<1>2. CASE ExposureNext
  BY <1>2, LoadExposureKeeps, SaveExposureKeeps, StartSectorKeeps, AppendExposureKeeps DEF ExposureNext
<1>3. CASE ConnectionNext
  BY <1>3, CommitOtherKeeps, CloseStoreKeeps DEF ConnectionNext
<1>4. CASE UNCHANGED seriesVars
  BY <1>4, SeriesInvStays
<1> QED BY <1>1, <1>2, <1>3, <1>4 DEF SeriesNext

LEMMA SeriesInvLoadsBack == SeriesInv => SeriesLoadBack
<1> SUFFICES ASSUME SeriesInv PROVE SeriesLoadBack
  OBVIOUS
<1>1. Committed \in AnyRows /\ Stamped(log, declared)
  BY DEF SeriesInv, CommittedGood
<1>2. declared \in Dated(DeclaredCovariance)
  BY <1>1 DEF AnyRows, Committed
<1>3. declared # <<>> => DOMAIN declared # {}
  BY <1>2, DatedIs, NothingDated
<1>4. declared # <<>> => CovarianceLoads(Committed)
  BY <1>1, <1>3 DEF CovarianceLoads, Committed, Stamped
<1>5. ~ parted => \A d \in DOMAIN declared : log[declared[d].revision] = declared[d].recipe
  BY DEF SeriesInv, CommittedGood, Faithful
<1>6. ~ parted /\ exposures # <<>> => ExposureLoads(Committed)
  BY DEF SeriesInv, CommittedGood, ExposureLoads, Committed
<1> QED BY <1>4, <1>5, <1>6 DEF SeriesLoadBack

(* store.py:1660, 1696: for every number of programs, recipes and revisions, whatever copies *)
(* were saved in whatever order and whatever a refused save left for another commit, what is *)
(* committed loads back, each stamp to the recipe that made its matrix, all exposures on one *)
(* axis. *)
THEOREM CommittedSeriesLoad == SeriesSpec => []SeriesLoadBack
<1>1. SeriesSpec => []SeriesInv
  BY SeriesInvInitially, SeriesInvKept, PTL DEF SeriesSpec
<1> QED BY <1>1, SeriesInvLoadsBack, PTL

-----------------------------------------------------------------------------
(* The types. *)

LEMMA AtMostOne ==
  ASSUME NEW S, \A x, y \in S : x = y
  PROVE  Cardinality(S) <= 1
<1>1. CASE S = {}
  BY <1>1, FS_EmptySet
<1>2. CASE S # {}
  <2>1. PICK x \in S : TRUE
    BY <1>2
  <2>2. S = {x}
    BY <2>1
  <2> QED BY <2>2, FS_Singleton
<1> QED BY <1>1, <1>2

LEMMA SeriesAreTyped == SeriesInv => SeriesTypeOK
<1> SUFFICES ASSUME SeriesInv PROVE SeriesTypeOK
  OBVIOUS
<1>1. /\ log \in RevisionLog /\ declared \in Dated(DeclaredCovariance)
      /\ exposures \in Dated(DeclaredExposure)
  BY DEF SeriesInv, CommittedGood, AnyRows, Committed
<1>2. /\ \A d \in DOMAIN declared : declared[d] \in DeclaredCovariance
      /\ DOMAIN declared \subseteq AsOf /\ DOMAIN exposures \subseteq AsOf
  BY <1>1, DatedIs
<1>3. Cardinality({p \in Programs : pending[p] # Empty}) <= 1
  BY AtMostOne DEF SeriesInv, OneWriter
<1>4. ASSUME NEW p \in Programs, risk[p] # NoCopy
      PROVE  CovarianceLoads([log |-> risk[p].log, declared |-> risk[p].entries])
  BY <1>4 DEF SeriesInv, RiskGood, CovarianceLoads, Stamped
<1>5. ASSUME NEW p \in Programs, sector[p] # NoCopy
      PROVE  DOMAIN sector[p].entries \subseteq AsOf /\ sector[p].axis \in Axes
  <2>1. sector[p] \in ExposureCopy
    BY <1>5 DEF SeriesInv, SectorGood
  <2> QED BY <2>1, DatedIs DEF ExposureCopy
<1> QED BY <1>1, <1>2, <1>3, <1>4, <1>5 DEF SeriesTypeOK

(* The trades as they are kept; none is of nothing, and links lead to earlier mints. *)
LedgerInv ==
  /\ links \in [Traded -> Traded \cup {None}] /\ \A i \in Traded : links[i] < i
  /\ portfolios \in Seq(Portfolio) /\ Len(portfolios) <= MaxPortfolios
  /\ \A p, r \in DOMAIN portfolios : portfolios[r] = portfolios[p] => r = p
  /\ trades \in Seq(Trade)
  /\ \A t \in DOMAIN trades :
       trades[t].portfolio \in DOMAIN portfolios /\ trades[t].fill.quantity # 0

LEMMA TradedAre ==
  ASSUME LedgerAssumption
  PROVE  /\ Cardinality(Traded) \in Nat /\ IsFiniteSet(Traded)
         /\ \A i : i \in Traded <=> i \in Nat /\ i > 0 /\ i <= Cardinality(Traded)
<1>1. Cardinality(Traded) \in Nat /\ IsFiniteSet(Traded)
  BY FS_CardinalityType DEF LedgerAssumption
<1>2. Traded = 1..Cardinality(Traded)
  BY DEF LedgerAssumption
<1> DEFINE n == Cardinality(Traded)
<1>3. n \in Nat /\ Traded = 1..n
  BY <1>1, <1>2
<1> HIDE DEF n
<1>4. \A i : i \in Traded <=> i \in Nat /\ i > 0 /\ i <= n
  BY <1>3
<1> QED BY <1>1, <1>4 DEF n

LEMMA LedgerInvInitially == LedgerAssumption /\ LedgerInit => LedgerInv
<1> SUFFICES ASSUME LedgerAssumption, LedgerInit PROVE LedgerInv
  OBVIOUS
<1>1. portfolios = <<>> /\ trades = <<>> /\ links = [i \in Traded |-> None]
  BY DEF LedgerInit
<1>2. \A i \in Traded : i > 0
  BY TradedAre
<1>3. \A i \in Traded : links[i] < i
  BY <1>1, <1>2 DEF None
<1> QED BY <1>1, <1>3 DEF LedgerInv, LedgerAssumption

LEMMA LedgerInvKept == LedgerAssumption /\ LedgerInv /\ [LedgerNext]_ledgerVars => LedgerInv'
<1> SUFFICES ASSUME LedgerAssumption, LedgerInv, [LedgerNext]_ledgerVars PROVE LedgerInv'
  OBVIOUS
<1>1. ASSUME NEW owner \in Owners, NEW name \in Names, CreatePortfolio(owner, name) PROVE LedgerInv'
  <2> DEFINE new == [owner |-> owner, name |-> name]
  <2>1. /\ portfolios' = Append(portfolios, new) /\ Len(portfolios) < MaxPortfolios
        /\ UNCHANGED <<links, trades>> /\ \A p \in DOMAIN portfolios : portfolios[p] # new
    BY <1>1 DEF CreatePortfolio
  <2>2. new \in Portfolio
    BY DEF Portfolio
  <2> HIDE DEF new
  <2>3. /\ portfolios' \in Seq(Portfolio) /\ Len(portfolios') = Len(portfolios) + 1
        /\ \A p \in DOMAIN portfolios' : portfolios'[p] = IF p = Len(portfolios') THEN new ELSE portfolios[p]
        /\ DOMAIN portfolios' = DOMAIN portfolios \cup {Len(portfolios')}
    BY <2>1, <2>2 DEF LedgerInv
  <2>4. Len(portfolios') <= MaxPortfolios
    BY <2>1, <2>3 DEF LedgerInv, LedgerAssumption
  <2>5. \A p, r \in DOMAIN portfolios' : portfolios'[r] = portfolios'[p] => r = p
    BY <2>1, <2>3 DEF LedgerInv
  <2> QED BY <2>1, <2>3, <2>4, <2>5 DEF LedgerInv
<1>2. ASSUME NEW owner \in Owners, NEW p \in DOMAIN portfolios, NEW fill \in Fills, AddTrade(owner, p, fill)
      PROVE  LedgerInv'
  <2> DEFINE new == [portfolio |-> p, fill |-> fill, voided |-> FALSE]
  <2>1. trades' = Append(trades, new) /\ UNCHANGED <<links, portfolios>> /\ fill.quantity # 0
    BY <1>2 DEF AddTrade
  <2>2. p \in 1..MaxPortfolios
    BY DEF LedgerInv, LedgerAssumption
  <2>3. new \in Trade /\ new.portfolio = p /\ new.fill = fill
    BY <2>2 DEF Trade
  <2> HIDE DEF new
  <2>4. /\ trades' \in Seq(Trade) /\ DOMAIN trades' = DOMAIN trades \cup {Len(trades')}
        /\ \A t \in DOMAIN trades' : trades'[t] = IF t = Len(trades') THEN new ELSE trades[t]
    BY <2>1, <2>3 DEF LedgerInv
  <2> QED BY <2>1, <2>3, <2>4 DEF LedgerInv
<1>3. ASSUME NEW owner \in Owners, NEW t \in DOMAIN trades, VoidTrade(owner, t) PROVE LedgerInv'
  <2> DEFINE new == [trades[t] EXCEPT !.voided = TRUE]
  <2>1. trades' = [trades EXCEPT ![t] = new] /\ UNCHANGED <<links, portfolios>>
    BY <1>3 DEF VoidTrade
  <2>2. trades[t] \in Trade
    BY DEF LedgerInv
  <2>3. new \in Trade /\ new.portfolio = trades[t].portfolio /\ new.fill = trades[t].fill
    BY <2>2 DEF Trade
  <2> HIDE DEF new
  <2>4. /\ trades' \in Seq(Trade) /\ DOMAIN trades' = DOMAIN trades
        /\ \A u \in DOMAIN trades : trades'[u] = IF u = t THEN new ELSE trades[u]
    BY <2>1, <2>3 DEF LedgerInv
  <2> QED BY <2>1, <2>3, <2>4 DEF LedgerInv
<1>4. ASSUME NEW i \in Traded, NEW j \in Traded, Fuse(i, j) PROVE LedgerInv'
  <2>1. i < j /\ links' = [links EXCEPT ![j] = i] /\ UNCHANGED <<portfolios, trades>>
    BY <1>4 DEF Fuse
  <2> QED BY <2>1 DEF LedgerInv
<1>5. CASE UNCHANGED ledgerVars
  BY <1>5 DEF ledgerVars, LedgerInv
<1> QED BY <1>1, <1>2, <1>3, <1>4, <1>5 DEF LedgerNext

LEMMA LedgerIsTyped == LedgerInv => LedgerTypeOK
BY DEF LedgerInv, LedgerTypeOK

-----------------------------------------------------------------------------
(* Positions: ratios, compared and averaged. *)

LEMMA Scaled ==
  ASSUME NEW k \in Int, k >= 0, NEW u \in Int, NEW v \in Int, u <= v
  PROVE  k * u <= k * v
<1>1. v - u \in Nat
  OBVIOUS
<1>2. k * (v - u) >= 0
  BY <1>1
<1>3. k * (v - u) = k * v - k * u
  OBVIOUS
<1> QED BY <1>2, <1>3

LEMMA Unscaled ==
  ASSUME NEW k \in Int, k > 0, NEW u \in Int, NEW v \in Int, k * u <= k * v
  PROVE  u <= v
<1> SUFFICES ASSUME v < u PROVE FALSE
  OBVIOUS
<1>1. k * (v + 1) <= k * u
  BY Scaled
<1>2. k * (v + 1) = k * v + k
  OBVIOUS
<1> QED BY <1>1, <1>2

LEMMA Positive ==
  ASSUME NEW a \in Int, a > 0, NEW b \in Int, b > 0
  PROVE  a * b \in Int /\ a * b > 0
<1>1. a * 1 <= a * b
  BY Scaled
<1> QED BY <1>1

LEMMA RatioTransitive ==
  ASSUME NEW a \in Int, NEW b \in Int, b > 0, NEW c \in Int, NEW d \in Int, d > 0,
         NEW e \in Int, NEW f \in Int, f > 0, a * d <= c * b, c * f <= e * d
  PROVE  a * f <= e * b
<1>1. f * (a * d) <= f * (c * b)
  BY Scaled
<1>2. b * (c * f) <= b * (e * d)
  BY Scaled
<1>3. /\ f * (a * d) = d * (a * f)
      /\ f * (c * b) = b * (c * f)
      /\ b * (e * d) = d * (e * b)
  OBVIOUS
<1>4. d * (a * f) <= d * (e * b)
  BY <1>1, <1>2, <1>3
<1> QED BY <1>4, Unscaled

(* The average of a/b over c/d with p/q over h lies between a/b and p/q. *)
LEMMA WeightedBetween ==
  ASSUME NEW a \in Int, NEW b \in Int, b > 0, NEW c \in Int, c >= 0, NEW d \in Int, d > 0,
         NEW p \in Int, NEW q \in Int, q > 0, NEW h \in Int, h > 0
  PROVE  LET top == ((a * c) * q + (p * h) * (b * d)) * d
             low == ((b * d) * q) * (c + h * d)
         IN  /\ top \in Int /\ low \in Int /\ low > 0
             /\ a * q <= p * b => a * low <= top * b /\ top * q <= p * low
             /\ p * b <= a * q => p * low <= top * q /\ top * b <= a * low
<1> DEFINE top == ((a * c) * q + (p * h) * (b * d)) * d
           low == ((b * d) * q) * (c + h * d)
           w == (h * d) * (b * d)
           z == (c * d) * q
<1>1. h * d > 0 /\ h * d \in Int /\ b * d > 0 /\ b * d \in Int /\ c * d >= 0 /\ c * d \in Int
  <2>1. h * d > 0 /\ h * d \in Int /\ b * d > 0 /\ b * d \in Int
    BY Positive
  <2>2. c * 0 <= c * d
    BY Scaled
  <2> QED BY <2>1, <2>2
<1>2. w > 0 /\ w \in Int
  BY <1>1, Positive
<1>3. z >= 0 /\ z \in Int
  <2>1. (c * d) * 0 <= (c * d) * q
    BY <1>1, Scaled
  <2> QED BY <1>1, <2>1
<1>4. c + h * d \in Int /\ c + h * d > 0
  BY <1>1
<1>5. (b * d) * q \in Int /\ (b * d) * q > 0
  BY <1>1, Positive
<1>6. low \in Int /\ low > 0
  BY <1>4, <1>5, Positive
<1>7. top \in Int
  OBVIOUS
<1>8. top * b - a * low = w * (p * b) - w * (a * q)
  OBVIOUS
<1>9. p * low - top * q = z * (p * b) - z * (a * q)
  OBVIOUS
<1>10. a * q \in Int /\ p * b \in Int
  OBVIOUS
<1> HIDE DEF top, low, w, z
<1>11. ASSUME a * q <= p * b PROVE a * low <= top * b /\ top * q <= p * low
  <2>1. w * (a * q) <= w * (p * b) /\ z * (a * q) <= z * (p * b)
    BY <1>2, <1>3, <1>10, <1>11, Scaled
  <2> QED BY <1>2, <1>3, <1>6, <1>7, <1>8, <1>9, <1>10, <2>1
<1>12. ASSUME p * b <= a * q PROVE p * low <= top * q /\ top * b <= a * low
  <2>1. w * (p * b) <= w * (a * q) /\ z * (p * b) <= z * (a * q)
    BY <1>2, <1>3, <1>10, <1>12, Scaled
  <2> QED BY <1>2, <1>3, <1>6, <1>7, <1>8, <1>9, <1>10, <2>1
<1> QED BY <1>6, <1>7, <1>11, <1>12 DEF top, low

-----------------------------------------------------------------------------
(* Positions: sums. *)

(* What members add up to does not depend on which is added first. *)
Adds(total, fun, S) ==
  /\ total \in [SUBSET S -> Int] /\ total[{}] = 0
  /\ \A s \in SUBSET S : \A x \in s : total[s] = fun[x] + total[s \ {x}]

LEMMA TotalsExist ==
  ASSUME NEW fun, NEW S, IsFiniteSet(S), \A x \in S : fun[x] \in Int
  PROVE  \E total : Adds(total, fun, S)
<1> DEFINE Bad == {n \in Nat : \E s \in SUBSET S : Cardinality(s) = n /\ ~ \E total : Adds(total, fun, s)}
<1>1. Bad = {}
  <2> SUFFICES ASSUME Bad # {} PROVE FALSE
    OBVIOUS
  <2>1. PICK n \in Bad : \A k \in Bad : n <= k
    <3>1. Bad \in SUBSET Nat
      OBVIOUS
    <3> HIDE DEF Bad
    <3> QED BY <3>1, LeastNat
  <2>2. PICK s \in SUBSET S : Cardinality(s) = n /\ ~ \E total : Adds(total, fun, s)
    BY <2>1
  <2>3. CASE s = {}
    <3>1. Adds([t \in SUBSET s |-> 0], fun, s)
      BY <2>3 DEF Adds
    <3> QED BY <2>2, <3>1
  <2>4. CASE s # {}
    <3>1. PICK y \in s : TRUE
      BY <2>4
    <3> DEFINE r == s \ {y}
    <3>2. IsFiniteSet(s) /\ r \in SUBSET S
      BY FS_Subset
    <3>3. Cardinality(r) = n - 1 /\ Cardinality(r) \in Nat /\ n \in Nat
      BY <2>2, <3>1, <3>2, FS_RemoveElement, FS_CardinalityType
    <3>4. PICK sub : Adds(sub, fun, r)
      BY <2>1, <3>2, <3>3
    <3> DEFINE total == [t \in SUBSET s |-> IF y \in t THEN fun[y] + sub[t \ {y}] ELSE sub[t]]
    <3>5. \A t \in SUBSET s : t \ {y} \in SUBSET r /\ (y \notin t => t \in SUBSET r)
      OBVIOUS
    <3>6. \A t \in SUBSET s : sub[t \ {y}] \in Int /\ (y \notin t => sub[t] \in Int)
      BY <3>4, <3>5 DEF Adds
    <3>7. total \in [SUBSET s -> Int] /\ total[{}] = 0
      BY <3>4, <3>6 DEF Adds
    <3>8. ASSUME NEW t \in SUBSET s, NEW x \in t PROVE total[t] = fun[x] + total[t \ {x}]
      <4>1. t \ {x} \in SUBSET s
        OBVIOUS
      <4>2. CASE x = y
        BY <4>1, <4>2
      <4>3. CASE x # y /\ y \notin t
        <5>1. sub[t] = fun[x] + sub[t \ {x}]
          BY <3>4, <3>5, <4>3 DEF Adds
        <5> QED BY <4>1, <4>3, <5>1
      <4>4. CASE x # y /\ y \in t
        <5>1. x \in t \ {y}
          BY <4>4
        <5>2. sub[t \ {y}] = fun[x] + sub[(t \ {y}) \ {x}]
          BY <3>4, <3>5, <5>1 DEF Adds
        <5>3. (t \ {y}) \ {x} = (t \ {x}) \ {y} /\ y \in t \ {x}
          BY <4>4
        <5>4. sub[(t \ {x}) \ {y}] \in Int /\ fun[x] \in Int /\ fun[y] \in Int
          BY <3>6, <4>1
        <5>5. total[t] = fun[y] + sub[t \ {y}] /\ total[t \ {x}] = fun[y] + sub[(t \ {x}) \ {y}]
          BY <4>1, <4>4, <5>3
        <5>6. sub[t \ {y}] = fun[x] + sub[(t \ {x}) \ {y}]
          BY <5>2, <5>3
        <5> DEFINE p == sub[(t \ {x}) \ {y}]
        <5>7. total[t] = fun[y] + (fun[x] + p) /\ total[t \ {x}] = fun[y] + p /\ p \in Int
          BY <5>4, <5>5, <5>6
        <5> HIDE DEF total, p
        <5> QED BY <5>4, <5>7
      <4> QED BY <4>2, <4>3, <4>4
    <3>9. Adds(total, fun, s)
      BY <3>7, <3>8 DEF Adds
    <3> QED BY <2>2, <3>9
  <2> QED BY <2>3, <2>4
<1>2. Cardinality(S) \in Nat
  BY FS_CardinalityType
<1> QED BY <1>1, <1>2

(* A sum is what its recursive equation says, so it is the total. *)
LEMMA SumIsTotal ==
  ASSUME NEW fun, NEW S, IsFiniteSet(S), NEW total, Adds(total, fun, S)
  PROVE  SumFunctionOnSet(fun, S) = total[S]
<1> DEFINE E(f) == [s \in SUBSET S |-> IF s = {} THEN 0
                      ELSE fun[CHOOSE x \in s : TRUE] + f[s \ {CHOOSE x \in s : TRUE}]]
           sum == CHOOSE f : f = E(f)
<1>1. SumFunctionOnSet(fun, S) = sum[S]
  BY DEF SumFunctionOnSet, FoldFunctionOnSet, MapThenFoldSet
<1>2. total = E(total)
  <2>1. \A s \in SUBSET S : total[s] = IF s = {} THEN 0
                      ELSE fun[CHOOSE x \in s : TRUE] + total[s \ {CHOOSE x \in s : TRUE}]
    <3> TAKE s \in SUBSET S
    <3>1. CASE s = {}
      BY <3>1 DEF Adds
    <3>2. CASE s # {}
      <4>1. (CHOOSE x \in s : TRUE) \in s
        BY <3>2
      <4> QED BY <3>2, <4>1 DEF Adds
    <3> QED BY <3>1, <3>2
  <2>2. total = [s \in SUBSET S |-> total[s]]
    BY DEF Adds
  <2> QED BY <2>1, <2>2
<1>3. sum = E(sum)
  BY <1>2
<1> HIDE DEF sum
<1>4. \A s \in SUBSET S : sum[s] = IF s = {} THEN 0
                      ELSE fun[CHOOSE x \in s : TRUE] + sum[s \ {CHOOSE x \in s : TRUE}]
  BY <1>3
<1>5. \A s \in SUBSET S : total[s] = IF s = {} THEN 0
                      ELSE fun[CHOOSE x \in s : TRUE] + total[s \ {CHOOSE x \in s : TRUE}]
  BY <1>2
<1> HIDE DEF E
<1> DEFINE Bad == {n \in Nat : \E s \in SUBSET S : Cardinality(s) = n /\ sum[s] # total[s]}
<1>6. Bad = {}
  <2> SUFFICES ASSUME Bad # {} PROVE FALSE
    OBVIOUS
  <2>1. PICK n \in Bad : \A k \in Bad : n <= k
    <3>1. Bad \in SUBSET Nat
      OBVIOUS
    <3> HIDE DEF Bad
    <3> QED BY <3>1, LeastNat
  <2>2. PICK s \in SUBSET S : Cardinality(s) = n /\ sum[s] # total[s]
    BY <2>1
  <2>3. s # {}
    BY <1>4, <1>5, <2>2
  <2> DEFINE x == CHOOSE x \in s : TRUE
             t == s \ {x}
  <2>4. x \in s /\ t \in SUBSET S
    BY <2>3
  <2>5. sum[s] = fun[x] + sum[t] /\ total[s] = fun[x] + total[t]
    BY <1>4, <1>5, <2>3
  <2> HIDE DEF x
  <2>6. Cardinality(t) = n - 1 /\ Cardinality(t) \in Nat /\ n \in Nat
    BY <2>2, <2>4, FS_Subset, FS_RemoveElement, FS_CardinalityType
  <2>7. sum[t] = total[t]
    BY <2>1, <2>4, <2>6
  <2> QED BY <2>2, <2>5, <2>7
<1>7. Cardinality(S) \in Nat
  BY FS_CardinalityType
<1> QED BY <1>1, <1>6, <1>7

(* A sum, taken apart at any member. *)
LEMMA SumApart ==
  ASSUME NEW fun, NEW S, IsFiniteSet(S), \A x \in S : fun[x] \in Int
  PROVE  /\ SumFunctionOnSet(fun, S) \in Int
         /\ S = {} => SumFunctionOnSet(fun, S) = 0
         /\ \A x \in S : SumFunctionOnSet(fun, S) = fun[x] + SumFunctionOnSet(fun, S \ {x})
<1>1. PICK total : Adds(total, fun, S)
  BY TotalsExist
<1>2. SumFunctionOnSet(fun, S) = total[S]
  BY <1>1, SumIsTotal
<1>3. ASSUME NEW x \in S PROVE SumFunctionOnSet(fun, S \ {x}) = total[S \ {x}]
  <2> DEFINE R == S \ {x}
             sub == [s \in SUBSET R |-> total[s]]
  <2>1. IsFiniteSet(R)
    BY FS_Subset
  <2>2. \A s \in SUBSET R : s \in SUBSET S /\ \A y \in s : s \ {y} \in SUBSET R
    OBVIOUS
  <2>3. Adds(sub, fun, R)
    <3>1. {} \in SUBSET R /\ {} \in SUBSET S
      OBVIOUS
    <3> HIDE DEF R
    <3> QED BY <1>1, <2>2, <3>1 DEF Adds
  <2>4. SumFunctionOnSet(fun, R) = sub[R]
    <3> HIDE DEF sub, R
    <3> QED BY <2>1, <2>3, SumIsTotal
  <2> QED BY <2>4
<1> QED BY <1>1, <1>2, <1>3 DEF Adds

(* A sum stays as its members are renamed apart. *)
LEMMA SumMoved ==
  ASSUME NEW a, NEW b, NEW g, NEW S, IsFiniteSet(S), \A x \in S : a[x] \in Int /\ b[g[x]] = a[x],
         \A x, y \in S : g[x] = g[y] => x = y
  PROVE  SumFunctionOnSet(a, S) = SumFunctionOnSet(b, {g[x] : x \in S})
<1> DEFINE To(s) == {g[x] : x \in s}
           Bad == {n \in Nat : \E s \in SUBSET S :
                     Cardinality(s) = n /\ SumFunctionOnSet(a, s) # SumFunctionOnSet(b, To(s))}
<1>1. \A s \in SUBSET S : IsFiniteSet(s) /\ IsFiniteSet(To(s)) /\ \A y \in To(s) : b[y] \in Int
  <2> TAKE s \in SUBSET S
  <2>1. IsFiniteSet(s)
    BY FS_Subset
  <2> DEFINE f == [x \in s |-> g[x]]
  <2>2. f \in Surjection(s, To(s))
    BY DEF Surjection
  <2>3. IsFiniteSet(To(s))
    <3> HIDE DEF f, To
    <3> QED BY <2>1, <2>2, FS_Surjection
  <2> QED BY <2>1, <2>3
<1>2. Bad = {}
  <2> SUFFICES ASSUME Bad # {} PROVE FALSE
    OBVIOUS
  <2>1. PICK n \in Bad : \A k \in Bad : n <= k
    <3>1. Bad \in SUBSET Nat
      OBVIOUS
    <3> HIDE DEF Bad
    <3> QED BY <3>1, LeastNat
  <2>2. PICK s \in SUBSET S :
          Cardinality(s) = n /\ SumFunctionOnSet(a, s) # SumFunctionOnSet(b, To(s))
    BY <2>1
  <2>3. s # {}
    <3>1. ASSUME s = {} PROVE FALSE
      <4>1. To(s) = {}
        BY <3>1
      <4>2. SumFunctionOnSet(a, s) = 0 /\ SumFunctionOnSet(b, To(s)) = 0
        <5> HIDE DEF To
        <5> QED BY <1>1, <3>1, <4>1, SumApart
      <4> QED BY <2>2, <4>2
    <3> QED BY <3>1
  <2>4. PICK x \in s : TRUE
    BY <2>3
  <2> DEFINE t == s \ {x}
  <2>5. t \in SUBSET S /\ g[x] \in To(s) /\ To(t) = To(s) \ {g[x]} /\ b[g[x]] = a[x]
    OBVIOUS
  <2>6. Cardinality(t) = n - 1 /\ Cardinality(t) \in Nat /\ n \in Nat
    BY <1>1, <2>2, <2>4, FS_RemoveElement, FS_CardinalityType
  <2> HIDE DEF t
  <2>7. SumFunctionOnSet(a, t) = SumFunctionOnSet(b, To(t))
    <3> HIDE DEF To
    <3>1. n - 1 \in Nat /\ n - 1 \notin Bad
      <4> HIDE DEF Bad
      <4> QED BY <2>1, <2>6
    <3> QED BY <2>5, <2>6, <3>1
  <2> HIDE DEF Bad, To
  <2>8. SumFunctionOnSet(a, s) = a[x] + SumFunctionOnSet(a, t)
    BY <1>1, SumApart DEF t
  <2>9. SumFunctionOnSet(b, To(s)) = b[g[x]] + SumFunctionOnSet(b, To(s) \ {g[x]})
    BY <1>1, <2>5, SumApart
  <2> QED BY <2>2, <2>5, <2>7, <2>8, <2>9
<1>3. Cardinality(S) \in Nat
  BY FS_CardinalityType
<1> QED BY <1>2, <1>3

-----------------------------------------------------------------------------
(* Positions: Trades in order, one after another. *)

(* What a Trade on file is. *)
LEMMA TradesAre ==
  ASSUME LedgerAssumption, LedgerInv
  PROVE  /\ IsFiniteSet(DOMAIN trades)
         /\ \A t \in DOMAIN trades :
              /\ t \in Nat /\ trades[t].fill.at \in Int /\ trades[t].fill.instrument \in Traded
              /\ trades[t].fill.quantity \in Int /\ trades[t].fill.quantity # 0
              /\ trades[t].fill.cost \in Int \cup {NoCost}
<1>1. trades \in Seq(Trade) /\ DOMAIN trades = 1..Len(trades) /\ Len(trades) \in Nat
  BY DEF LedgerInv
<1>2. \A t \in DOMAIN trades : t \in Nat /\ trades[t].fill \in Fills
  <2> TAKE t \in DOMAIN trades
  <2>1. t \in Nat /\ trades[t] \in Trade
    BY <1>1
  <2> QED BY <2>1 DEF Trade
<1>3. IsFiniteSet(DOMAIN trades)
  BY <1>1, FS_Interval
<1> QED BY <1>2, <1>3 DEF LedgerAssumption, LedgerInv

(* Trades have an order, and among any there is a last. *)
LEMMA OrderIs ==
  ASSUME LedgerAssumption, LedgerInv, NEW t \in DOMAIN trades, NEW u \in DOMAIN trades
  PROVE  /\ ~ Earlier(t, t)
         /\ Earlier(t, u) => ~ Earlier(u, t)
         /\ Earlier(t, u) \/ Earlier(u, t) \/ t = u
         /\ \A v \in DOMAIN trades : Earlier(t, u) /\ Earlier(u, v) => Earlier(t, v)
BY TradesAre DEF Earlier

LEMMA LastIs ==
  ASSUME LedgerAssumption, LedgerInv, NEW moves \in SUBSET DOMAIN trades, moves # {}
  PROVE  LastTraded(moves) \in moves /\ \A u \in moves : ~ Earlier(LastTraded(moves), u)
<1> DEFINE HasLast(s) == \E t \in s : \A u \in s : ~ Earlier(t, u)
           Bad == {n \in Nat : \E s \in SUBSET moves : Cardinality(s) = n /\ s # {} /\ ~ HasLast(s)}
<1>1. IsFiniteSet(moves) /\ Cardinality(moves) \in Nat
  BY TradesAre, FS_Subset, FS_CardinalityType
<1>2. Bad = {}
  <2> SUFFICES ASSUME Bad # {} PROVE FALSE
    OBVIOUS
  <2>1. PICK n \in Bad : \A k \in Bad : n <= k
    <3>1. Bad \in SUBSET Nat
      OBVIOUS
    <3> HIDE DEF Bad
    <3> QED BY <3>1, LeastNat
  <2>2. PICK s \in SUBSET moves : Cardinality(s) = n /\ s # {} /\ ~ HasLast(s)
    BY <2>1
  <2>3. PICK y \in s : TRUE
    BY <2>2
  <2> DEFINE r == s \ {y}
  <2>4. Cardinality(r) = n - 1 /\ Cardinality(r) \in Nat /\ n \in Nat
    BY <1>1, <2>2, FS_Subset, FS_RemoveElement, FS_CardinalityType
  <2>5. r = {} \/ HasLast(r)
    <3>1. n - 1 \in Nat /\ n - 1 \notin Bad
      <4> HIDE DEF Bad
      <4> QED BY <2>1, <2>4
    <3> HIDE DEF HasLast
    <3> QED BY <2>4, <3>1
  <2>6. CASE r = {}
    <3>1. \A u \in s : ~ Earlier(y, u)
      BY <2>6, OrderIs
    <3> QED BY <2>2, <3>1
  <2>7. CASE HasLast(r)
    <3>1. PICK z \in r : \A u \in r : ~ Earlier(z, u)
      BY <2>7
    <3>2. CASE Earlier(z, y)
      <4>1. \A u \in s : ~ Earlier(y, u)
        BY <3>1, <3>2, OrderIs
      <4> QED BY <2>2, <4>1
    <3>3. CASE ~ Earlier(z, y)
      <4>1. \A u \in s : ~ Earlier(z, u)
        BY <3>1, <3>3
      <4> QED BY <2>2, <3>1, <4>1
    <3> QED BY <3>2, <3>3
  <2> QED BY <2>5, <2>6, <2>7
<1>3. HasLast(moves)
  <2> HIDE DEF HasLast
  <2> QED BY <1>1, <1>2
<1> QED BY <1>3 DEF LastTraded

(* The Trades without the last of them are one fewer. *)
LEMMA LastApart ==
  ASSUME LedgerAssumption, LedgerInv, NEW moves \in SUBSET DOMAIN trades, moves # {}
  PROVE  /\ LastTraded(moves) \in moves /\ moves \ {LastTraded(moves)} \in SUBSET DOMAIN trades
         /\ Cardinality(moves) \in Nat /\ Cardinality(moves \ {LastTraded(moves)}) \in Nat
         /\ Cardinality(moves \ {LastTraded(moves)}) = Cardinality(moves) - 1
<1>1. LastTraded(moves) \in moves
  BY LastIs
<1>2. IsFiniteSet(moves)
  BY TradesAre, FS_Subset
<1> QED BY <1>1, <1>2, FS_RemoveElement, FS_CardinalityType

(* The recursive equation of Position, on the sets of at most n Trades. *)
Places(f, moves, n) ==
  /\ f = [s \in SUBSET moves |-> f[s]]
  /\ \A s \in SUBSET moves : Cardinality(s) <= n =>
       f[s] = IF s = {} THEN Flat ELSE Moved(f[s \ {LastTraded(s)}], trades[LastTraded(s)].fill)

LEMMA PlacesExist ==
  ASSUME LedgerAssumption, LedgerInv, NEW moves \in SUBSET DOMAIN trades
  PROVE  \A n \in Nat : \E f : Places(f, moves, n)
<1> DEFINE Bad == {n \in Nat : ~ \E f : Places(f, moves, n)}
           next(f) == [s \in SUBSET moves |->
                         IF s = {} THEN Flat
                         ELSE Moved(f[s \ {LastTraded(s)}], trades[LastTraded(s)].fill)]
<1> SUFFICES ASSUME Bad # {} PROVE FALSE
  OBVIOUS
<1>1. PICK n \in Bad : \A k \in Bad : n <= k
  <2>1. Bad \in SUBSET Nat
    OBVIOUS
  <2> HIDE DEF Bad
  <2> QED BY <2>1, LeastNat
<1>2. PICK f : n # 0 => Places(f, moves, n - 1)
  <2>1. n # 0 => n - 1 \in Nat /\ n - 1 \notin Bad
    BY <1>1
  <2> QED BY <2>1
<1>3. \A s \in SUBSET moves : s # {} /\ Cardinality(s) <= n =>
        next(f)[s \ {LastTraded(s)}] = f[s \ {LastTraded(s)}]
  <2> SUFFICES ASSUME NEW s \in SUBSET moves, s # {}, Cardinality(s) <= n
               PROVE  next(f)[s \ {LastTraded(s)}] = f[s \ {LastTraded(s)}]
    OBVIOUS
  <2> DEFINE t == s \ {LastTraded(s)}
  <2>1. /\ t \in SUBSET moves /\ Cardinality(s) \in Nat /\ Cardinality(t) \in Nat
        /\ Cardinality(t) = Cardinality(s) - 1
    BY LastApart
  <2>2. n \in Nat
    BY <1>1
  <2> HIDE DEF t
  <2>3. n # 0 /\ Cardinality(t) <= n - 1
    BY <2>1, <2>2
  <2>4. f[t] = next(f)[t]
    BY <1>2, <2>1, <2>3 DEF Places
  <2> QED BY <2>4 DEF t
<1>4. Places(next(f), moves, n)
  <2>1. /\ next(f) = [s \in SUBSET moves |-> next(f)[s]]
        /\ \A s \in SUBSET moves :
             next(f)[s] = IF s = {} THEN Flat
                          ELSE Moved(f[s \ {LastTraded(s)}], trades[LastTraded(s)].fill)
    OBVIOUS
  <2> HIDE DEF next
  <2> QED BY <1>3, <2>1 DEF Places
<1> QED BY <1>1, <1>4

(* Position is what its recursive equation says. *)
LEMMA PositionIsPlaced ==
  ASSUME LedgerAssumption, LedgerInv, NEW moves \in SUBSET DOMAIN trades,
         NEW f, Places(f, moves, Cardinality(moves)), NEW sub \in SUBSET moves
  PROVE  Position(sub) = f[sub]
<1> DEFINE E(g) == [s \in SUBSET sub |->
                      IF s = {} THEN Flat
                      ELSE Moved(g[s \ {LastTraded(s)}], trades[LastTraded(s)].fill)]
           pos == CHOOSE g : g = E(g)
<1>1. Position(sub) = pos[sub]
  BY DEF Position, MapThenFoldSet
<1>2. IsFiniteSet(moves) /\ \A s \in SUBSET moves :
        IsFiniteSet(s) /\ Cardinality(s) \in Nat /\ Cardinality(s) <= Cardinality(moves)
  BY TradesAre, FS_Subset, FS_CardinalityType
<1>3. \E g : g = E(g)
  <2>1. Cardinality(sub) \in Nat /\ \A s \in SUBSET sub : Cardinality(s) <= Cardinality(sub)
    BY <1>2, FS_Subset
  <2>2. PICK g : Places(g, sub, Cardinality(sub))
    BY <2>1, PlacesExist
  <2>3. g = E(g)
    BY <2>1, <2>2 DEF Places
  <2> QED BY <2>3
<1>4. pos = E(pos)
  BY <1>3
<1> HIDE DEF pos
<1>5. \A s \in SUBSET sub :
        pos[s] = IF s = {} THEN Flat
                 ELSE Moved(pos[s \ {LastTraded(s)}], trades[LastTraded(s)].fill)
  BY <1>4
<1>6. \A s \in SUBSET sub :
        f[s] = IF s = {} THEN Flat
               ELSE Moved(f[s \ {LastTraded(s)}], trades[LastTraded(s)].fill)
  BY <1>2 DEF Places
<1> HIDE DEF E
<1> DEFINE Bad == {n \in Nat : \E s \in SUBSET sub : Cardinality(s) = n /\ pos[s] # f[s]}
<1>7. Bad = {}
  <2> SUFFICES ASSUME Bad # {} PROVE FALSE
    OBVIOUS
  <2>1. PICK n \in Bad : \A k \in Bad : n <= k
    <3>1. Bad \in SUBSET Nat
      OBVIOUS
    <3> HIDE DEF Bad
    <3> QED BY <3>1, LeastNat
  <2>2. PICK s \in SUBSET sub : Cardinality(s) = n /\ pos[s] # f[s]
    BY <2>1
  <2>3. s # {}
    BY <1>5, <1>6, <2>2
  <2> DEFINE t == s \ {LastTraded(s)}
  <2>4. t \in SUBSET sub /\ Cardinality(t) \in Nat /\ Cardinality(t) = n - 1 /\ n \in Nat
    BY <2>2, <2>3, LastApart
  <2>5. pos[s] = Moved(pos[t], trades[LastTraded(s)].fill) /\ f[s] = Moved(f[t], trades[LastTraded(s)].fill)
    BY <1>5, <1>6, <2>3
  <2> HIDE DEF t
  <2>6. pos[t] = f[t]
    <3>1. n - 1 \notin Bad
      <4> HIDE DEF Bad
      <4> QED BY <2>1, <2>4
    <3> QED BY <2>4, <3>1
  <2> QED BY <2>2, <2>5, <2>6
<1> QED BY <1>1, <1>2, <1>7

(* A position is that of the Trades before the last, moved by the last. *)
LEMMA PositionApart ==
  ASSUME LedgerAssumption, LedgerInv, NEW moves \in SUBSET DOMAIN trades
  PROVE  /\ moves = {} => Position(moves) = Flat
         /\ moves # {} => Position(moves) = Moved(Position(moves \ {LastTraded(moves)}),
                                                  trades[LastTraded(moves)].fill)
<1>1. Cardinality(moves) \in Nat
  BY TradesAre, FS_Subset, FS_CardinalityType
<1>2. PICK f : Places(f, moves, Cardinality(moves))
  BY <1>1, PlacesExist
<1>3. moves \ {LastTraded(moves)} \in SUBSET moves
  OBVIOUS
<1>4. Position(moves) = f[moves]
  BY <1>2, PositionIsPlaced
<1>5. Position(moves \ {LastTraded(moves)}) = f[moves \ {LastTraded(moves)}]
  BY <1>2, <1>3, PositionIsPlaced
<1>6. f[moves] = IF moves = {} THEN Flat
                 ELSE Moved(f[moves \ {LastTraded(moves)}], trades[LastTraded(moves)].fill)
  <2>1. moves \in SUBSET moves /\ Cardinality(moves) <= Cardinality(moves)
    BY <1>1
  <2> QED BY <1>2, <2>1, ZenonT(30) DEF Places
<1> QED BY <1>4, <1>5, <1>6

(* What is bought of any Trades, taken apart at any of them. *)
LEMMA BoughtIs ==
  ASSUME LedgerAssumption, LedgerInv, NEW moves \in SUBSET DOMAIN trades
  PROVE  /\ Bought(moves) \in Int
         /\ moves = {} => Bought(moves) = 0
         /\ \A t \in moves : Bought(moves) = trades[t].fill.quantity + Bought(moves \ {t})
<1> DEFINE fun == [t \in DOMAIN trades |-> trades[t].fill.quantity]
<1>1. IsFiniteSet(moves) /\ \A t \in moves : fun[t] = trades[t].fill.quantity /\ fun[t] \in Int
  BY TradesAre, FS_Subset
<1>2. \A s : Bought(s) = SumFunctionOnSet(fun, s)
  BY DEF Bought
<1> HIDE DEF fun
<1>3. /\ SumFunctionOnSet(fun, moves) \in Int
      /\ moves = {} => SumFunctionOnSet(fun, moves) = 0
      /\ \A t \in moves : SumFunctionOnSet(fun, moves) = fun[t] + SumFunctionOnSet(fun, moves \ {t})
  BY <1>1, SumApart
<1> QED BY <1>1, <1>2, <1>3

(* A Trade comes after some: what it leaves of the acquisitions behind a position. *)
LEMMA BehindAfter ==
  ASSUME LedgerAssumption, LedgerInv, NEW moves \in SUBSET DOMAIN trades, moves # {}
  PROVE  LET x == LastTraded(moves)
             fill == trades[x].fill
             new == IF fill.quantity > 0 /\ fill.cost # NoCost THEN {x} ELSE {}
         IN  Behind(moves) = IF Bought(moves) > 0 THEN Behind(moves \ {x}) \cup new ELSE {}
<1> DEFINE x == LastTraded(moves)
           r == moves \ {x}
           new == IF trades[x].fill.quantity > 0 /\ trades[x].fill.cost # NoCost THEN {x} ELSE {}
<1>1. x \in moves /\ \A u \in moves : ~ Earlier(x, u)
  BY LastIs
<1>2. moves = r \cup {x} /\ x \notin r
  BY <1>1
<1> HIDE DEF x, r
<1>3. \A u \in r : Earlier(u, x)
  BY <1>1, <1>2, OrderIs
<1>4. UpTo(x, moves) = moves
  BY <1>1 DEF UpTo
<1>5. \A u \in r : UpTo(u, moves) = UpTo(u, r)
  BY <1>2, <1>3 DEF UpTo
<1>6. CASE Bought(moves) > 0
  <2>1. \A t \in r : t \in Behind(moves) <=> t \in Behind(r)
    <3> TAKE t \in r
    <3>1. ASSUME NEW u \in moves
          PROVE  IF u = x THEN Bought(UpTo(u, moves)) > 0
                 ELSE u \in r /\ UpTo(u, moves) = UpTo(u, r)
      BY <1>2, <1>4, <1>5, <1>6
    <3> QED BY <1>2, <3>1 DEF Behind
  <2>2. x \in Behind(moves) <=> x \in new
    <3>1. \A u \in moves : ~ Earlier(u, x) => Bought(UpTo(u, moves)) > 0
      BY <1>2, <1>3, <1>4, <1>6
    <3> QED BY <1>1, <3>1 DEF Behind
  <2>3. x \notin Behind(r) /\ Behind(r) \subseteq r /\ Behind(moves) \subseteq moves /\ new \subseteq {x}
    BY <1>2 DEF Behind
  <2> HIDE DEF new
  <2>4. Behind(moves) = Behind(r) \cup new
    BY <1>2, <2>1, <2>2, <2>3
  <2> QED BY <1>6, <2>4 DEF x, r, new
<1>7. CASE ~ (Bought(moves) > 0)
  <2>1. Behind(moves) = {}
    BY <1>1, <1>4, <1>7 DEF Behind
  <2> QED BY <1>7, <2>1
<1> QED BY <1>6, <1>7

-----------------------------------------------------------------------------
(* What is true of a position and the Trades it was derived from. *)
Placed == [quantity : Int, costed : Int \X Int, average : (Int \X Int) \cup {NoCost}]

Between(moves, average) ==
  /\ \E t \in moves : AtMost(UnitCost(t), average)
  /\ \E t \in moves : AtMost(average, UnitCost(t))

PosSound(pos) ==
  /\ pos \in Placed
  /\ pos.costed[2] > 0
  /\ IF pos.average = NoCost THEN pos.costed[1] = 0
     ELSE pos.quantity > 0 /\ pos.costed[1] > 0 /\ pos.average[2] > 0
  /\ pos.quantity >= 0 => pos.costed[1] <= pos.quantity * pos.costed[2]

PosTrue(moves, pos) ==
  /\ PosSound(pos) /\ pos.quantity = Bought(moves)
  /\ IF Behind(moves) = {} THEN pos.average = NoCost
     ELSE pos.average # NoCost /\ Between(Behind(moves), pos.average)

(* A sale keeps the part that is costed in proportion, one without a cost leaves it. *)
LEMMA SoldSound ==
  ASSUME NEW pos, PosSound(pos), NEW after \in Int, after > 0, after < pos.quantity
  PROVE  PosSound([pos EXCEPT !.quantity = after, !.costed = Times(@, <<after, pos.quantity>>)])
<1> DEFINE c == pos.costed[1]
           d == pos.costed[2]
           q == pos.quantity
           new == [pos EXCEPT !.quantity = after, !.costed = Times(@, <<after, pos.quantity>>)]
<1>1. pos \in Placed /\ c \in Int /\ d \in Int /\ q \in Int /\ d > 0 /\ q > 0 /\ c <= q * d
  BY DEF PosSound, Placed
<1>2. /\ new.quantity = after /\ new.costed = <<c * after, d * q>> /\ new.average = pos.average
      /\ new \in Placed
  <2> DEFINE e == Times(pos.costed, <<after, pos.quantity>>)
  <2>1. e = <<c * after, d * q>>
    BY DEF Times
  <2>2. c * after \in Int /\ d * q \in Int
    BY <1>1
  <2>3. e \in Int \X Int
    BY <2>1, <2>2
  <2>4. new = [pos EXCEPT !.quantity = after, !.costed = e]
    OBVIOUS
  <2> HIDE DEF e, new
  <2>5. new.quantity = after /\ new.costed = e /\ new.average = pos.average /\ new \in Placed
    BY <1>1, <2>3, <2>4 DEF Placed
  <2> QED BY <2>1, <2>5
<1>3. pos.average = NoCost => c = 0
  BY DEF PosSound
<1>4. pos.average # NoCost => c > 0 /\ pos.average[2] > 0
  BY DEF PosSound
<1> HIDE DEF c, d, q, new
<1>5. d * q > 0 /\ d * q \in Int
  BY <1>1, Positive
<1>6. c > 0 => c * after > 0
  BY <1>1, Positive
<1>7. c * after <= after * (d * q)
  <2>1. after * c <= after * (q * d)
    BY <1>1, Scaled
  <2> QED BY <1>1, <2>1
<1>8. new.costed[1] = c * after /\ new.costed[2] = d * q
  BY <1>2
<1>9. c = 0 => c * after = 0
  BY <1>1
<1> QED BY <1>2, <1>3, <1>4, <1>5, <1>6, <1>7, <1>8, <1>9 DEF PosSound, new

LEMMA UncostedSound ==
  ASSUME NEW pos, PosSound(pos), NEW after \in Int, after > 0, after > pos.quantity
  PROVE  PosSound([pos EXCEPT !.quantity = after])
<1> DEFINE c == pos.costed[1]
           d == pos.costed[2]
           q == pos.quantity
           new == [pos EXCEPT !.quantity = after]
<1>1. pos \in Placed /\ c \in Int /\ d \in Int /\ q \in Int /\ d > 0
  BY DEF PosSound, Placed
<1>2. /\ new.quantity = after /\ new.costed = pos.costed /\ new.average = pos.average
      /\ new \in Placed
  BY <1>1 DEF Placed
<1>3. /\ pos.average = NoCost => c = 0
      /\ pos.average # NoCost => q > 0 /\ c > 0 /\ pos.average[2] > 0
      /\ q >= 0 => c <= q * d
  BY DEF PosSound
<1>4. c <= after * d
  <2>1. d * 0 <= d * after /\ d * q <= d * after
    BY <1>1, Scaled
  <2> HIDE DEF c, d, q
  <2>2. 0 <= after * d /\ q * d <= after * d
    BY <1>1, <2>1
  <2>3. q * d \in Int /\ after * d \in Int
    BY <1>1
  <2> QED BY <1>1, <1>3, <2>2, <2>3
<1>5. new.costed[1] = c /\ new.costed[2] = d
  BY <1>2
<1> HIDE DEF c, d, q, new
<1> QED BY <1>1, <1>2, <1>3, <1>4, <1>5 DEF PosSound, new

(* A costed acquisition: its part that does not cover a short weighs in. *)
LEMMA CostedSound ==
  ASSUME LedgerAssumption, NEW pos, PosSound(pos), NEW fill,
         fill.quantity \in Int, fill.quantity > 0, fill.cost \in Int,
         pos.quantity + fill.quantity > 0
  PROVE  LET new == Moved(pos, fill)
             unit == <<fill.cost, fill.quantity>>
         IN  /\ PosSound(new) /\ new.quantity = pos.quantity + fill.quantity
             /\ new.average \in Int \X Int /\ new.average # NoCost /\ new.average[2] > 0
             /\ pos.average = NoCost => AtMost(unit, new.average) /\ AtMost(new.average, unit)
             /\ pos.average # NoCost =>
                  /\ AtMost(pos.average, unit) => AtMost(pos.average, new.average) /\ AtMost(new.average, unit)
                  /\ AtMost(unit, pos.average) => AtMost(unit, new.average) /\ AtMost(new.average, pos.average)
<1> DEFINE c == pos.costed[1]
           d == pos.costed[2]
           q == pos.quantity
           k == fill.quantity
           p == fill.cost
           after == q + k
           h == IF k <= after THEN k ELSE after
           a == pos.average[1]
           b == pos.average[2]
           top == IF pos.average = NoCost THEN (p * h) * d ELSE ((a * c) * k + (p * h) * (b * d)) * d
           low == IF pos.average = NoCost THEN k * (c + h * d) ELSE ((b * d) * k) * (c + h * d)
           new == [quantity |-> after, costed |-> <<c + h * d, d>>, average |-> <<top, low>>]
<1>1. /\ pos \in Placed /\ c \in Int /\ d \in Int /\ q \in Int /\ d > 0 /\ c >= 0
      /\ k \in Int /\ k > 0 /\ p \in Int /\ after > 0 /\ after \in Int
  BY DEF PosSound, Placed
<1>2. /\ pos.average = NoCost => c = 0
      /\ pos.average # NoCost => q > 0 /\ c > 0 /\ pos.average[2] > 0 /\ pos.average \in Int \X Int
      /\ q >= 0 => c <= q * d
  BY <1>1 DEF PosSound, Placed
<1>3. /\ h \in Int /\ h > 0
      /\ pos.average # NoCost => a \in Int /\ b \in Int /\ b > 0
  BY <1>1, <1>2
<1>4. NoCost \notin Int
  BY DEF LedgerAssumption
<1>5. Moved(pos, fill) = new
  <2>1. ~ Gone(after) /\ ~ (fill.quantity < 0) /\ fill.cost # NoCost
    BY <1>1, <1>4 DEF Gone
  <2> DEFINE before == IF pos.average = NoCost THEN Zero ELSE Times(pos.average, pos.costed)
             costed == Plus(pos.costed, <<h, 1>>)
  <2>2. Moved(pos, fill) = [quantity |-> after, costed |-> costed,
                            average |-> Over(Plus(before, <<p * h, k>>), costed)]
    BY <2>1 DEF Moved
  <2>3. costed = <<c + h * d, d>>
    BY <1>1, <1>3 DEF Plus
  <2> HIDE DEF c, d, h, k, p, costed
  <2>4. ASSUME pos.average = NoCost PROVE Over(Plus(before, <<p * h, k>>), costed) = <<top, low>>
    <3>1. before = <<0, 1>>
      BY <2>4 DEF Zero
    <3> HIDE DEF before
    <3>2. Plus(before, <<p * h, k>>) = <<p * h, k>>
      BY <1>1, <1>3, <3>1 DEF Plus
    <3> QED BY <2>3, <2>4, <3>2 DEF Over
  <2>5. ASSUME pos.average # NoCost PROVE Over(Plus(before, <<p * h, k>>), costed) = <<top, low>>
    <3>1. before = <<a * c, b * d>>
      BY <2>5 DEF Times, c, d
    <3> HIDE DEF a, b, before
    <3> QED BY <2>3, <2>5, <3>1 DEF Over, Plus
  <2> QED BY <2>2, <2>3, <2>4, <2>5 DEF costed
<1>6. top \in Int /\ low \in Int /\ low > 0
  <2> HIDE DEF a, b, c, d, h, k, p
  <2>1. ASSUME pos.average = NoCost PROVE top \in Int /\ low \in Int /\ low > 0
    <3>1. h * d \in Int /\ h * d > 0
      BY <1>1, <1>3, Positive
    <3>2. c + h * d \in Int /\ c + h * d > 0
      BY <1>1, <3>1
    <3>3. k * (c + h * d) \in Int /\ k * (c + h * d) > 0
      BY <1>1, <3>2, Positive
    <3>4. (p * h) * d \in Int
      BY <1>1, <1>3
    <3> QED BY <2>1, <3>3, <3>4
  <2>2. ASSUME pos.average # NoCost PROVE top \in Int /\ low \in Int /\ low > 0
    BY <1>1, <1>3, <2>2, WeightedBetween
  <2> QED BY <2>1, <2>2
<1>12. ASSUME pos.average # NoCost
       PROVE  /\ a * k <= p * b => a * low <= top * b /\ top * k <= p * low
              /\ p * b <= a * k => p * low <= top * k /\ top * b <= a * low
  <2> HIDE DEF a, b, c, d, h, k, p
  <2> QED BY <1>1, <1>3, <1>12, WeightedBetween
<1>7. c + h * d \in Int /\ c + h * d > 0
  <2>1. h * d > 0 /\ h * d \in Int
    BY <1>1, <1>3, Positive
  <2> QED BY <1>1, <2>1
<1>8. c + h * d <= after * d
  <2> HIDE DEF c, d, q, k
  <2>1. CASE k <= after
    <3>1. c + k * d <= q * d + k * d
      <4>1. q * d \in Int /\ k * d \in Int /\ q >= 0
        BY <1>1, <2>1
      <4> QED BY <1>1, <1>2, <4>1
    <3>2. q * d + k * d = after * d
      BY <1>1
    <3> QED BY <2>1, <3>1, <3>2
  <2>2. CASE ~ (k <= after)
    <3>1. q < 0 /\ h = after
      BY <1>1, <2>2
    <3>2. c = 0
      BY <1>1, <1>2, <3>1
    <3> QED BY <1>1, <3>1, <3>2
  <2> QED BY <2>1, <2>2
<1> HIDE DEF top, low, h
<1>9. new.average = <<top, low>> /\ new.average \in Int \X Int /\ new.average # NoCost /\ low > 0
  BY <1>6 DEF LedgerAssumption
<1>10. PosSound(new)
  <2>1. new \in Placed
    BY <1>1, <1>7, <1>9 DEF Placed
  <2>2. new.costed[1] = c + h * d /\ new.costed[2] = d /\ new.quantity = after /\ new.average[2] = low
    OBVIOUS
  <2> HIDE DEF new, after, c, d
  <2> QED BY <1>1, <1>7, <1>8, <1>9, <2>1, <2>2 DEF PosSound
<1>11. pos.average = NoCost => p * low <= top * k /\ top * k <= p * low
  <2>1. ASSUME pos.average = NoCost PROVE c = 0 /\ top = (p * h) * d /\ low = k * (c + h * d)
    BY <1>2, <2>1 DEF top, low
  <2> HIDE DEF c, d, h, k, p, top, low
  <2>2. ASSUME c = 0, top = (p * h) * d, low = k * (c + h * d) PROVE p * low = top * k
    BY <1>1, <1>3, <2>2
  <2>3. p * low \in Int
    BY <1>1, <1>6
  <2> QED BY <2>1, <2>2, <2>3
<1>13. new.average[1] = top /\ new.average[2] = low
  BY <1>9
<1>14. new.quantity = pos.quantity + fill.quantity
  OBVIOUS
<1> HIDE DEF new, a, b
<1> DEFINE unit == <<fill.cost, fill.quantity>>
<1>15. unit[1] = p /\ unit[2] = k
  OBVIOUS
<1>16. pos.average = NoCost => AtMost(unit, new.average) /\ AtMost(new.average, unit)
  BY <1>11, <1>13, <1>15 DEF AtMost
<1>17. ASSUME pos.average # NoCost
       PROVE  /\ AtMost(pos.average, unit) => AtMost(pos.average, new.average) /\ AtMost(new.average, unit)
              /\ AtMost(unit, pos.average) => AtMost(unit, new.average) /\ AtMost(new.average, pos.average)
  BY <1>13, <1>15, <1>17, <1>12 DEF AtMost, a, b
<1> QED BY <1>5, <1>9, <1>10, <1>13, <1>14, <1>16, <1>17

LEMMA AtMostTransitive ==
  ASSUME NEW a \in Int \X Int, NEW b \in Int \X Int, NEW c \in Int \X Int,
         a[2] > 0, b[2] > 0, c[2] > 0, AtMost(a, b), AtMost(b, c)
  PROVE  AtMost(a, c)
BY RatioTransitive DEF AtMost

(* No Trade makes no position. *)
LEMMA FlatTrue ==
  ASSUME LedgerAssumption, LedgerInv
  PROVE  PosTrue({}, Flat)
<1>1. Flat \in Placed
  BY DEF Flat, Placed, Zero
<1>2. /\ Flat.quantity = 0 /\ Flat.costed[1] = 0 /\ Flat.costed[2] = 1 /\ Flat.average = NoCost
  BY DEF Flat, Zero
<1>3. PosSound(Flat)
  BY <1>1, <1>2 DEF PosSound
<1>4. Bought({}) = 0 /\ Behind({}) = {}
  BY BoughtIs DEF Behind
<1> QED BY <1>2, <1>3, <1>4 DEF PosTrue

(* One Trade keeps a position true: it closes it, sells, or acquires with or without a cost. *)
LEMMA MovedTrue ==
  ASSUME LedgerAssumption, LedgerInv, NEW moves \in SUBSET DOMAIN trades, moves # {},
         NEW pos, PosTrue(moves \ {LastTraded(moves)}, pos)
  PROVE  PosTrue(moves, Moved(pos, trades[LastTraded(moves)].fill))
<1> DEFINE x == LastTraded(moves)
           r == moves \ {x}
           fill == trades[x].fill
           after == pos.quantity + fill.quantity
           new == IF fill.quantity > 0 /\ fill.cost # NoCost THEN {x} ELSE {}
<1>1. x \in moves /\ r \in SUBSET DOMAIN trades /\ PosTrue(r, pos)
  BY LastIs
<1>2. /\ fill.quantity \in Int /\ fill.quantity # 0 /\ fill.cost \in Int \cup {NoCost}
      /\ NoCost \notin Int
  BY <1>1, TradesAre DEF LedgerAssumption
<1>3. PosSound(pos) /\ pos.quantity = Bought(r) /\ pos.quantity \in Int
  BY <1>1 DEF PosTrue, PosSound, Placed
<1>4. Bought(moves) = after /\ after \in Int
  BY <1>1, <1>2, <1>3, BoughtIs
<1>5. Behind(moves) = IF after > 0 THEN Behind(r) \cup new ELSE {}
  BY <1>4, BehindAfter
<1> HIDE DEF x, r
<1>6. CASE Gone(after)
  <2> DEFINE p == [Flat EXCEPT !.quantity = after]
  <2>1. Moved(pos, fill) = p
    BY <1>6 DEF Moved
  <2>2. p = [quantity |-> after, costed |-> Zero, average |-> NoCost]
    BY DEF Flat
  <2>3. p \in Placed /\ p.costed[1] = 0 /\ p.costed[2] = 1 /\ p.average = NoCost /\ p.quantity = after
    BY <1>4, <2>2 DEF Placed, Zero
  <2>4. ~ (after > 0) /\ (after >= 0 => 0 <= after * 1)
    BY <1>4, <1>6 DEF Gone
  <2> HIDE DEF p, after, new
  <2> QED BY <1>4, <1>5, <2>1, <2>3, <2>4 DEF PosTrue, PosSound, x
<1>7. CASE ~ Gone(after) /\ fill.quantity < 0
  <2> DEFINE p == [pos EXCEPT !.quantity = after, !.costed = Times(@, <<after, pos.quantity>>)]
  <2>1. Moved(pos, fill) = p
    <3>1. ~ (fill.quantity > 0) /\ fill.quantity < 0 /\ ~ Gone(after)
      BY <1>2, <1>7
    <3>2. p = [pos EXCEPT !.quantity = after, !.costed = Times(pos.costed, <<after, pos.quantity>>)]
      OBVIOUS
    <3> HIDE DEF fill, p
    <3> QED BY <3>1, <3>2 DEF Moved
  <2>2. after > 0 /\ after < pos.quantity /\ new = {}
    BY <1>2, <1>3, <1>7 DEF Gone
  <2>3. PosSound(p)
    BY <1>3, <1>4, <2>2, SoldSound
  <2>4. p.quantity = after /\ p.average = pos.average
    BY <1>3 DEF PosSound, Placed
  <2> HIDE DEF p, after, new
  <2> QED BY <1>1, <1>4, <1>5, <2>1, <2>2, <2>3, <2>4 DEF PosTrue, x
<1>8. CASE ~ Gone(after) /\ fill.quantity > 0 /\ fill.cost = NoCost
  <2> DEFINE p == [pos EXCEPT !.quantity = after]
  <2>1. Moved(pos, fill) = p
    BY <1>2, <1>8 DEF Moved
  <2>2. after > 0 /\ after > pos.quantity /\ new = {}
    BY <1>2, <1>3, <1>4, <1>8 DEF Gone
  <2>3. PosSound(p)
    BY <1>3, <1>4, <2>2, UncostedSound
  <2>4. p.quantity = after /\ p.average = pos.average
    BY <1>3 DEF PosSound, Placed
  <2> HIDE DEF p, after, new
  <2> QED BY <1>1, <1>4, <1>5, <2>1, <2>2, <2>3, <2>4 DEF PosTrue, x
<1>9. CASE ~ Gone(after) /\ fill.quantity > 0 /\ fill.cost # NoCost
  <2> DEFINE p == Moved(pos, fill)
             unit == UnitCost(x)
  <2>1. after > 0 /\ new = {x} /\ fill.cost \in Int /\ unit = <<fill.cost, fill.quantity>>
    BY <1>2, <1>4, <1>9 DEF Gone, UnitCost
  <2>2. /\ PosSound(p) /\ p.quantity = after /\ p.average # NoCost
        /\ p.average \in Int \X Int /\ p.average[2] > 0
        /\ pos.average = NoCost => AtMost(unit, p.average) /\ AtMost(p.average, unit)
        /\ pos.average # NoCost =>
             /\ AtMost(pos.average, unit) => AtMost(pos.average, p.average) /\ AtMost(p.average, unit)
             /\ AtMost(unit, pos.average) => AtMost(unit, p.average) /\ AtMost(p.average, pos.average)
    <3> HIDE DEF fill
    <3> QED BY <1>2, <1>3, <1>9, <2>1, CostedSound
  <2>3. Behind(moves) = Behind(r) \cup {x}
    BY <1>5, <2>1
  <2> HIDE DEF p, unit, after, new, fill
  <2>4. Between(Behind(moves), p.average)
    <3>1. CASE pos.average = NoCost
      BY <2>2, <2>3, <3>1 DEF Between, unit
    <3>2. CASE pos.average # NoCost
      <4>1. pos.average \in Int \X Int /\ pos.average[2] > 0
        BY <1>3, <3>2 DEF PosSound, Placed
      <4>2. Between(Behind(r), pos.average)
        BY <1>1, <3>2 DEF PosTrue
      <4>3. PICK low \in Behind(r), top \in Behind(r) :
              AtMost(UnitCost(low), pos.average) /\ AtMost(pos.average, UnitCost(top))
        BY <4>2 DEF Between
      <4>4. \A t \in Behind(moves) :
              UnitCost(t) \in Int \X Int /\ UnitCost(t)[2] > 0
        BY TradesAre DEF Behind, UnitCost
      <4>5. CASE AtMost(pos.average, unit)
        <5>1. AtMost(UnitCost(low), p.average)
          BY <2>2, <2>3, <3>2, <4>1, <4>3, <4>4, <4>5, AtMostTransitive
        <5> QED BY <2>2, <2>3, <3>2, <4>3, <4>5, <5>1 DEF Between, unit
      <4>6. CASE AtMost(unit, pos.average)
        <5>1. AtMost(p.average, UnitCost(top))
          BY <2>2, <2>3, <3>2, <4>1, <4>3, <4>4, <4>6, AtMostTransitive
        <5> QED BY <2>2, <2>3, <3>2, <4>3, <4>6, <5>1 DEF Between, unit
      <4>7. AtMost(pos.average, unit) \/ AtMost(unit, pos.average)
        <5>1. unit[1] \in Int /\ unit[2] \in Int
          BY <2>3, <4>4 DEF unit
        <5> QED BY <4>1, <5>1 DEF AtMost
      <4> QED BY <4>5, <4>6, <4>7
    <3> QED BY <3>1, <3>2
  <2> QED BY <1>4, <2>2, <2>3, <2>4 DEF PosTrue, p, fill, x
<1>10. fill.quantity < 0 \/ fill.quantity > 0
  BY <1>2
<1> HIDE DEF fill
<1> QED BY <1>6, <1>7, <1>8, <1>9, <1>10 DEF fill, x

(* So a position is true of the Trades it was derived from, however many they are. *)
LEMMA PositionsTrue ==
  ASSUME LedgerAssumption, LedgerInv, NEW moves \in SUBSET DOMAIN trades
  PROVE  PosTrue(moves, Position(moves))
<1> DEFINE Bad == {n \in Nat : \E s \in SUBSET moves : Cardinality(s) = n /\ ~ PosTrue(s, Position(s))}
<1>1. Bad = {}
  <2> SUFFICES ASSUME Bad # {} PROVE FALSE
    OBVIOUS
  <2>1. PICK n \in Bad : \A k \in Bad : n <= k
    <3>1. Bad \in SUBSET Nat
      OBVIOUS
    <3> HIDE DEF Bad
    <3> QED BY <3>1, LeastNat
  <2>2. PICK s \in SUBSET moves : Cardinality(s) = n /\ ~ PosTrue(s, Position(s))
    BY <2>1
  <2> DEFINE t == s \ {LastTraded(s)}
  <2>3. s # {}
    BY <2>2, PositionApart, FlatTrue
  <2>4. t \in SUBSET moves /\ Cardinality(t) \in Nat /\ Cardinality(t) = n - 1 /\ n \in Nat
    BY <2>2, <2>3, LastApart
  <2>5. Position(s) = Moved(Position(t), trades[LastTraded(s)].fill)
    BY <2>3, PositionApart
  <2>6. PosTrue(t, Position(t))
    <3> HIDE DEF t
    <3>1. n - 1 \notin Bad
      <4> HIDE DEF Bad
      <4> QED BY <2>1, <2>4
    <3> QED BY <2>4, <3>1
  <2>7. PosTrue(s, Position(s))
    BY <2>3, <2>5, <2>6, MovedTrue
  <2> QED BY <2>2, <2>7
<1>2. Cardinality(moves) \in Nat
  BY TradesAre, FS_Subset, FS_CardinalityType
<1> QED BY <1>1, <1>2

LEMMA TrueAddsUp ==
  ASSUME LedgerAssumption, LedgerInv, NEW moves \in SUBSET DOMAIN trades
  PROVE  PositionAddsUp(moves, Position(moves)) /\ Position(moves).quantity \in Int
<1> DEFINE pos == Position(moves)
<1>1. PosTrue(moves, pos)
  BY PositionsTrue
<1> HIDE DEF pos
<1>2. pos.quantity = Bought(moves) /\ pos.quantity \in Int /\ ((pos.average = NoCost) <=> (Behind(moves) = {}))
  BY <1>1 DEF PosTrue, PosSound, Placed
<1>3. ASSUME Behind(moves) # {}
      PROVE  Between(Behind(moves), pos.average) /\ AtMost(pos.costed, <<pos.quantity, 1>>)
  <2>1. pos.quantity > 0 /\ pos.costed[1] \in Int /\ pos.costed[1] <= pos.quantity * pos.costed[2]
    BY <1>1, <1>2, <1>3 DEF PosTrue, PosSound, Placed
  <2>2. AtMost(pos.costed, <<pos.quantity, 1>>)
    BY <2>1 DEF AtMost
  <2> QED BY <1>1, <1>3, <2>2 DEF PosTrue
<1> QED BY <1>2, <1>3 DEF PositionAddsUp, Between, pos

(* There are as many members as before when they are renamed apart. *)
LEMMA CountMoved ==
  ASSUME NEW g, NEW S, IsFiniteSet(S), \A x, y \in S : g[x] = g[y] => x = y
  PROVE  Cardinality({g[x] : x \in S}) = Cardinality(S)
<1> DEFINE T == {g[x] : x \in S}
           f == [x \in S |-> g[x]]
<1>1. f \in Bijection(S, T)
  <2>1. f \in [S -> T] /\ \A x \in S : f[x] = g[x]
    OBVIOUS
  <2>2. \A y \in T : \E x \in S : f[x] = y
    BY <2>1
  <2> HIDE DEF f, T
  <2>3. f \in Injection(S, T) /\ f \in Surjection(S, T)
    BY <2>1, <2>2 DEF Injection, IsInjective, Surjection
  <2> QED BY <2>3 DEF Bijection
<1> HIDE DEF f, T
<1>2. ExistsBijection(S, T)
  BY <1>1 DEF ExistsBijection
<1>3. Cardinality(T) = Cardinality(S)
  BY <1>2, FS_Bijection
<1> QED BY <1>3 DEF T

(* The positions of a Portfolio are of Instruments traded, and each is true. *)
LEMMA PositionsAre ==
  ASSUME LedgerAssumption, LedgerInv, NEW p, NEW day
  PROVE  LET positions == DerivePositions(p, day)
         IN  /\ DOMAIN positions \subseteq Traded /\ IsFiniteSet(DOMAIN positions)
             /\ \A i \in DOMAIN positions :
                  /\ PositionAddsUp(Of(Counted(p, day), i), positions[i])
                  /\ positions[i].quantity \in Int
<1> DEFINE counted == Counted(p, day)
           positions == DerivePositions(p, day)
<1>1. counted \subseteq DOMAIN trades
  BY DEF Counted, TradesOf
<1>2. /\ DOMAIN positions = {SurvivorOf(t) : t \in counted}
      /\ \A i \in DOMAIN positions : positions[i] = Position(Of(counted, i))
  BY DEF DerivePositions
<1> HIDE DEF counted, positions
<1>3. \A i : Of(counted, i) \in SUBSET DOMAIN trades
  BY <1>1 DEF Of
<1>4. \A t \in counted : SurvivorOf(t) \in Traded
  <2> DEFINE n == Cardinality(Traded)
  <2>1. n \in Nat /\ Traded = 1..n
    BY TradedAre DEF LedgerAssumption
  <2> HIDE DEF n
  <2>2. WellLinked(links, n)
    BY <2>1 DEF WellLinked, LedgerInv, None
  <2>3. \A i \in 1..n : Fold(links)[i] \in 1..i
    BY <2>2, FoldEnds
  <2> TAKE t \in counted
  <2>4. trades[t].fill.instrument \in 1..n
    BY <1>1, <2>1, TradesAre
  <2>5. SurvivorOf(t) \in 1..trades[t].fill.instrument
    BY <2>3, <2>4 DEF SurvivorOf
  <2> QED BY <2>1, <2>4, <2>5
<1>5. DOMAIN positions \subseteq Traded
  BY <1>2, <1>4
<1>6. IsFiniteSet(DOMAIN positions)
  BY <1>5, TradedAre, FS_Subset
<1>7. \A i \in DOMAIN positions :
        PositionAddsUp(Of(counted, i), positions[i]) /\ positions[i].quantity \in Int
  BY <1>2, <1>3, TrueAddsUp
<1> QED BY <1>5, <1>6, <1>7 DEF counted, positions

(* The row of a position, and the rows of a Portfolio. *)
Row(p, day, i) ==
  [portfolio |-> p, instrument |-> i, quantity |-> DerivePositions(p, day)[i].quantity,
   value |-> IF Close[i][day] = NoClose THEN NoClose
             ELSE DerivePositions(p, day)[i].quantity * Close[i][day]]

LEMMA RowsAre ==
  ASSUME NEW owner, NEW day, NEW p \in Held(owner)
  PROVE  {r \in PositionRows(owner, day) : r.portfolio = p}
           = {Row(p, day, i) : i \in OpenOf(DerivePositions(p, day))}
<1>1. PositionRows(owner, day)
        = UNION {{Row(u, day, i) : i \in OpenOf(DerivePositions(u, day))} : u \in Held(owner)}
  BY DEF PositionRows, Row
<1>2. \A u, i : Row(u, day, i).portfolio = u
  BY DEF Row
<1> QED BY <1>1, <1>2

(* The value of a day is the sum of its rows, one for each open position. *)
LEMMA ValuesTrue == LedgerAssumption /\ LedgerInv => ValuesAddUp
<1> SUFFICES ASSUME LedgerAssumption, LedgerInv, NEW owner \in Owners,
                    NEW w \in ValueRows(owner, ReadDays)
             PROVE  LET rows == {r \in PositionRows(owner, w.day) : r.portfolio = w.portfolio}
                        unpriced == {r \in rows : r.value = NoClose}
                    IN /\ Cardinality(rows) = w.positions /\ Cardinality(unpriced) = w.unpriced
                       /\ IF unpriced # {} THEN w.value = NoClose
                          ELSE w.value = SumFunction([r \in rows |-> r.value])
  BY DEF ValuesAddUp
<1> DEFINE positions(d, u) == DerivePositions(u, d)
           open(d, u) == OpenOf(positions(d, u))
           unpriced(d, u) == {i \in open(d, u) : Close[i][d] = NoClose}
           amounts(d, u) == [i \in open(d, u) |-> positions(d, u)[i].quantity * Close[i][d]]
           value(d, u) == [day |-> d, portfolio |-> u, positions |-> Cardinality(open(d, u)),
                           unpriced |-> Cardinality(unpriced(d, u)),
                           value |-> IF unpriced(d, u) # {} THEN NoClose ELSE SumFunction(amounts(d, u))]
<1>1. PICK day \in ReadDays, p \in Held(owner) : w = value(day, p)
  <2>1. PICK v \in ReadDays \X Held(owner) :
          w \in IF positions(v[1], v[2]) = <<>> THEN {} ELSE {value(v[1], v[2])}
    BY DEF ValueRows
  <2> HIDE DEF value, positions
  <2>2. v[1] \in ReadDays /\ v[2] \in Held(owner) /\ w = value(v[1], v[2])
    BY <2>1
  <2> QED BY <2>2
<1> DEFINE O == open(day, p)
           U == unpriced(day, p)
           g == [i \in O |-> Row(p, day, i)]
           rows == {r \in PositionRows(owner, w.day) : r.portfolio = w.portfolio}
<1>2. /\ w.day = day /\ w.portfolio = p /\ w.positions = Cardinality(O) /\ w.unpriced = Cardinality(U)
      /\ w.value = IF U # {} THEN NoClose ELSE SumFunction(amounts(day, p))
  BY <1>1
<1>3. O \subseteq Traded /\ IsFiniteSet(O) /\ \A i \in O : positions(day, p)[i].quantity \in Int
  BY PositionsAre, FS_Subset DEF OpenOf
<1>4. rows = {Row(p, day, i) : i \in O}
  BY <1>2, RowsAre
<1> DEFINE a == amounts(day, p)
<1>5. DOMAIN a = O /\ U \subseteq O /\ \A i \in O : g[i] = Row(p, day, i) /\ g[i].instrument = i
  BY DEF Row
<1>6. \A i \in O : i \notin U => a[i] \in Int
  <2> TAKE i \in O
  <2>1. Close[i][day] \in Int \cup {NoClose} /\ positions(day, p)[i].quantity \in Int
    BY <1>3 DEF LedgerAssumption
  <2> HIDE DEF positions
  <2> QED BY <2>1
<1>7. \A i \in O : g[i].value = IF i \in U THEN NoClose ELSE a[i]
  <2> TAKE i \in O
  <2>1. Row(p, day, i).value = IF Close[i][day] = NoClose THEN NoClose
                               ELSE positions(day, p)[i].quantity * Close[i][day]
    BY DEF Row
  <2> HIDE DEF positions
  <2> QED BY <2>1
<1> HIDE DEF O, U, g, a, rows, value
<1>8. \A i, j \in O : g[i] = g[j] => i = j
  BY <1>5
<1>9. rows = {g[i] : i \in O}
  <2>1. \A i \in O : g[i] = Row(p, day, i)
    BY <1>5
  <2> QED BY <1>4, <2>1
<1>10. {r \in rows : r.value = NoClose} = {g[i] : i \in U}
  <2>1. NoClose \notin Int
    BY DEF LedgerAssumption
  <2>2. \A i \in O : g[i].value = NoClose <=> i \in U
    BY <1>6, <1>7, <2>1
  <2> QED BY <1>5, <1>9, <2>2
<1>11. IsFiniteSet(U) /\ Cardinality(rows) = Cardinality(O) /\ Cardinality({g[i] : i \in U}) = Cardinality(U)
  BY <1>3, <1>5, <1>8, <1>9, CountMoved, FS_Subset
<1>12. ASSUME U = {} PROVE SumFunction(a) = SumFunction([r \in rows |-> r.value])
  <2> DEFINE b == [r \in rows |-> r.value]
  <2>1. \A i \in O : a[i] \in Int /\ b[g[i]] = a[i]
    BY <1>6, <1>7, <1>9, <1>12
  <2>2. DOMAIN a = O /\ DOMAIN b = rows
    BY <1>5
  <2> HIDE DEF b
  <2>3. SumFunctionOnSet(a, O) = SumFunctionOnSet(b, rows)
    BY <1>3, <1>8, <1>9, <2>1, SumMoved
  <2> QED BY <2>2, <2>3 DEF SumFunction, b
<1>13. {r \in rows : r.value = NoClose} = {} <=> U = {}
  BY <1>10
<1> QED BY <1>2, <1>10, <1>11, <1>12, <1>13 DEF a, rows

LEMMA LedgerAddsUp == LedgerAssumption /\ LedgerInv => PositionsAddUp
BY ValuesTrue, PositionsAre DEF PositionsAddUp

(* Whatever is traded, voided and fused, at whatever cost: a position is the sum of what   *)
(* counts toward it, has an average cost exactly while a costed acquisition is behind it,  *)
(* between the costs of those, and a day's value is the sum of the rows of that day.       *)
THEOREM PositionsStayTrue == LedgerSpec => []PositionsAddUp
<1>1. LedgerInit => LedgerInv
  BY LedgerAssumption, LedgerInvInitially
<1>2. LedgerInv /\ [LedgerNext]_ledgerVars => LedgerInv'
  BY LedgerAssumption, LedgerInvKept
<1>3. LedgerInv => PositionsAddUp
  BY LedgerAssumption, LedgerAddsUp
<1> QED BY <1>1, <1>2, <1>3, PTL DEF LedgerSpec

-----------------------------------------------------------------------------
(* Every step of the three parts together is a step of one, and leaves the others. *)
LEMMA PartsStep ==
  ASSUME [RecordsNext]_<<part, ledgerVars, seriesVars, fileVars>>
  PROVE  [LedgerNext]_ledgerVars /\ [SeriesNext]_seriesVars /\ [FilesNext]_fileVars
<1>1. ASSUME \/ \E owner \in Owners, name \in Names : InTrades /\ CreatePortfolio(owner, name)
             \/ \E owner \in Owners, p \in DOMAIN portfolios, fill \in Fills :
                  InTrades /\ AddTrade(owner, p, fill)
             \/ \E owner \in Owners, t \in DOMAIN trades : InTrades /\ VoidTrade(owner, t)
             \/ \E i, j \in Traded : InTrades /\ Fuse(i, j)
      PROVE  LedgerNext /\ UNCHANGED <<seriesVars, fileVars>>
  BY <1>1 DEF InTrades, LedgerNext
<1>2. ASSUME \/ \E p \in Programs : Covariances /\ LoadCovariance(p)
             \/ \E p \in Programs : Covariances /\ SaveCovariance(p)
             \/ \E p \in Programs : Covariances /\ SaveModel(p)
             \/ \E p \in Programs, recipe \in Recipes : Covariances /\ StartModel(p, recipe)
             \/ \E p \in Programs, recipe \in Recipes : Covariances /\ EditModel(p, recipe)
             \/ \E p \in Programs, d \in AsOf, matrix \in Matrices : Covariances /\ Declare(p, d, matrix)
      PROVE  CovarianceNext /\ UNCHANGED <<ledgerVars, fileVars>>
  BY <1>2 DEF Covariances, InSeries, CovarianceNext
<1>3. ASSUME \/ \E p \in Programs : Exposures /\ LoadExposure(p)
             \/ \E p \in Programs : Exposures /\ SaveExposure(p)
             \/ \E p \in Programs, axis \in Axes : Exposures /\ StartSector(p, axis)
             \/ \E p \in Programs, d \in AsOf, matrix \in Matrices :
                  Exposures /\ AppendExposure(p, d, matrix)
      PROVE  ExposureNext /\ UNCHANGED <<ledgerVars, fileVars>>
  BY <1>3 DEF Exposures, InSeries, ExposureNext
<1>4. ASSUME \/ \E p \in Programs : EitherSeries /\ CommitOther(p)
             \/ \E p \in Programs : EitherSeries /\ CloseStore(p)
      PROVE  ConnectionNext /\ UNCHANGED <<ledgerVars, fileVars>>
  BY <1>4 DEF EitherSeries, InSeries, ConnectionNext
<1>5. ASSUME \/ PassSecond /\ Opening
             \/ \E p \in Openers, build \in Builds : Connect(p, build) /\ Opening
             \/ \E p \in Openers : Skip(p) /\ Opening
             \/ \E p \in Openers : RefuseGap(p) /\ Opening
             \/ \E p \in Openers : BackUp(p) /\ Opening
             \/ \E p \in Openers : ListTables(p) /\ Opening
             \/ \E p \in Openers : CreateTable(p) /\ Opening
             \/ \E p \in Openers : RefuseTable(p) /\ Opening
             \/ \E p \in Openers : TablesDone(p) /\ Opening
             \/ \E p \in Openers : CheckVersion(p) /\ Opening
             \/ \E p \in Openers : RecordFirst(p) /\ Opening
             \/ \E p \in Openers : ApplyStep(p) /\ Opening
             \/ \E p \in Openers : RecordStep(p) /\ Opening
             \/ \E p \in Openers : Leave(p) /\ Opening
      PROVE  OpeningNext /\ UNCHANGED <<ledgerVars, seriesVars>>
  BY <1>5 DEF Opening, InFiles, OpeningNext
<1>6. ASSUME \/ MoveAside /\ Restoring
             \/ Take /\ Restoring
             \/ WriteManifest /\ Restoring
             \/ \E p \in Openers, build \in Builds : CheckRestore(p, build) /\ Restoring
             \/ \E p \in Openers : PutInPlace(p) /\ Restoring
             \/ \E p \in Openers : AbandonRestore(p) /\ Restoring
      PROVE  BackupNext /\ UNCHANGED <<ledgerVars, seriesVars>>
  BY <1>6 DEF Restoring, InFiles, BackupNext
<1>7. CASE UNCHANGED <<part, ledgerVars, seriesVars, fileVars>>
  BY <1>7
<1> QED
  BY <1>1, <1>2, <1>3, <1>4, <1>5, <1>6, <1>7 DEF RecordsNext, SeriesNext, FilesNext

(* Of the three parts together: the types of the trades, the Series and the files, one     *)
(* connection at a time with uncommitted rows, and no copy its constructor would refuse.   *)
THEOREM RecordsAreTyped == RecordsSpec => []RecordsTypeOK
<1> DEFINE RecordsInv == LedgerInv /\ SeriesInv /\ PristineInv
<1>1. RecordsInit => RecordsInv
  BY LedgerAssumption, FilesAssumption, LedgerInvInitially, SeriesInvInitially, PristineInitially
     DEF RecordsInit
<1>2. RecordsInv /\ [RecordsNext]_<<part, ledgerVars, seriesVars, fileVars>> => RecordsInv'
  BY LedgerAssumption, FilesAssumption, PartsStep, LedgerInvKept, SeriesInvKept, PristineKept
<1>3. RecordsInv => RecordsTypeOK
  BY FilesAssumption, LedgerIsTyped, SeriesAreTyped, FilesAreTyped DEF RecordsTypeOK
<1> QED BY <1>1, <1>2, <1>3, PTL DEF RecordsSpec
=============================================================================
