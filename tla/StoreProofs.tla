----------------------------- MODULE StoreProofs -----------------------------
(***************************************************************************)
(* Theorems about Store, for any number of handlers, migrations, users and *)
(* requests, with a crash at any step and from any earlier version's file. *)
(***************************************************************************)
EXTENDS Store, FiniteSetTheorems, TLAPS

Assumptions ==
  /\ IsFiniteSet(Procs) /\ None \notin Procs /\ None \notin User /\ None \notin Backups
  /\ NewType \in Types /\ OldType \notin Types /\ Legacy \subseteq Types /\ Backups \subseteq Backup
  /\ Migrations \in Nat /\ MaxUsers \in Nat \ {0} /\ MaxVersion \in Nat \ {0}
  /\ Threshold \in Nat \ {0} /\ MaxOps \in Nat

LEMMA FromAssumptions == Assumptions
BY ProcAssumption, TypeAssumption, VersionAssumption, OtherAssumption DEF Assumptions

-----------------------------------------------------------------------------
(***************************************************************************)
(* What the open transaction sees, and who may have one.                   *)
(***************************************************************************)
Sound(d) == /\ d \in Database
            /\ \A u \in Ids : u > d.lastId => d.users[u] = None
            /\ \A u \in d.sessions : d.users[u] # None

\* Handlers work only when the process is up, one of them in a transaction.
Quiet == main # "up" => conn = None /\ \A p \in Procs : pc[p] = "idle"
Alone == \A p \in Procs : pc[p] \in {"insert", "restore"} => conn = p
\* A transaction has not touched the users; it has run at most one script.
Copied == /\ work.users = db.users /\ work.lastId = db.lastId
          /\ work.sessions = db.sessions /\ work.recorded = db.recorded
          /\ main # "record" => work.ran = db.ran
          /\ main = "record" => \E v \in Missing : /\ Lowest(v)
                                                   /\ work.ran = [db.ran EXCEPT ![v] = @ + 1]
\* A handler that is about a user, or restores a file, has one.
Targets == \A p \in Procs : pc[p] \in {"session", "success", "role", "delete"} => target[p] \in Ids
Filed == \A p \in Procs :
           pc[p] = "restore" => file[p] \in Backups /\ work.settings = file[p].settings

TypeInv == /\ TypeOK /\ Sound(work) /\ Quiet /\ Alone /\ Copied /\ Targets /\ Filed

StartOK == main \in Starting \cup {"up"} /\ todo \subseteq Legacy
CallOK  == /\ pc \in [Procs -> Calls] /\ file \in [Procs -> Backups \cup {None}]
           /\ target \in [Procs -> 0 .. MaxUsers] /\ counted \in [Procs -> 0 .. MaxUsers]
           /\ overtaken \in [Procs -> BOOLEAN]
LoginOK == failures \in 0 .. Threshold /\ locked \in BOOLEAN /\ tries \in Nat

LEMMA TypeParts ==
  TypeOK <=> /\ Sound(db) /\ work \in Database /\ conn \in Procs \cup {None}
             /\ StartOK /\ CallOK /\ LoginOK /\ ops \in 0 .. MaxOps
BY DEF TypeOK, Sound, StartOK, CallOK, LoginOK

-----------------------------------------------------------------------------
(***************************************************************************)
(* The database.                                                           *)
(***************************************************************************)
LEMMA SoundConfigs ==
  ASSUME NEW d, Sound(d), NEW c \in [AllTypes -> Values]
  PROVE  Sound([d EXCEPT !.configs = c])
BY DEF Sound, Database

LEMMA SoundConfig ==
  ASSUME NEW d, Sound(d), NEW t \in AllTypes, NEW v \in Values
  PROVE  Sound([d EXCEPT !.configs[t] = v])
<1>1. d.configs \in [AllTypes -> Values]
  BY DEF Sound, Database
<1>2. [d.configs EXCEPT ![t] = v] \in [AllTypes -> Values]
  BY <1>1
<1> QED
  BY <1>2, SoundConfigs

LEMMA SoundUser ==
  ASSUME NEW d, Sound(d), NEW u \in Ids, d.users[u] # None, NEW v \in User
  PROVE  Sound([d EXCEPT !.users[u] = v])
<1>1. d.users \in [Ids -> User \cup {None}] /\ v # None
  BY FromAssumptions DEF Assumptions, Sound, Database
<1> DEFINE f == [d.users EXCEPT ![u] = v]
<1>2. /\ f \in [Ids -> User \cup {None}]
      /\ \A w \in Ids : f[w] = IF w = u THEN v ELSE d.users[w]
  BY <1>1
<1> HIDE DEF f
<1>3. Sound([d EXCEPT !.users = f])
  BY <1>1, <1>2 DEF Sound, Database
<1> QED
  BY <1>3 DEF f

LEMMA SoundNewUser ==
  ASSUME NEW d, Sound(d), d.lastId < MaxUsers, NEW v \in User
  PROVE  Sound([d EXCEPT !.lastId = @ + 1, !.users[d.lastId + 1] = v])
<1> DEFINE n == d.lastId + 1
           f == [d.users EXCEPT ![n] = v]
<1>1. /\ d.users \in [Ids -> User \cup {None}] /\ v # None
      /\ d.lastId \in 0 .. MaxUsers /\ n \in Ids /\ n \in 0 .. MaxUsers
  BY FromAssumptions DEF Assumptions, Sound, Database, Ids
<1>2. /\ f \in [Ids -> User \cup {None}]
      /\ \A w \in Ids : f[w] = IF w = n THEN v ELSE d.users[w]
  BY <1>1
<1>3. \A w \in Ids : w > n => w > d.lastId /\ w # n
  BY <1>1, FromAssumptions DEF Ids, Assumptions
<1> HIDE DEF f
<1>4. [d EXCEPT !.lastId = n, !.users = f] \in Database
  BY <1>1, <1>2 DEF Sound, Database
<1>5. Sound([d EXCEPT !.lastId = n, !.users = f])
  BY <1>1, <1>2, <1>3, <1>4 DEF Sound, Database
<1> QED
  BY <1>5 DEF f

LEMMA SoundRemoval ==
  ASSUME NEW d, Sound(d), NEW u \in Ids
  PROVE  Sound([d EXCEPT !.users[u] = None, !.sessions = @ \ {u}])
<1> DEFINE f == [d.users EXCEPT ![u] = None]
<1>1. d.users \in [Ids -> User \cup {None}] /\ d.sessions \subseteq Ids
  BY DEF Sound, Database
<1>2. /\ f \in [Ids -> User \cup {None}]
      /\ \A w \in Ids : f[w] = IF w = u THEN None ELSE d.users[w]
  BY <1>1
<1> HIDE DEF f
<1>3. [d EXCEPT !.users = f, !.sessions = @ \ {u}] \in Database
  BY <1>1, <1>2 DEF Sound, Database
<1>4. Sound([d EXCEPT !.users = f, !.sessions = @ \ {u}])
  BY <1>1, <1>2, <1>3 DEF Sound, Database
<1> QED
  BY <1>4 DEF f

LEMMA SoundSessions ==
  ASSUME NEW d, Sound(d), NEW u \in Ids
  PROVE  /\ d.users[u] # None => Sound([d EXCEPT !.sessions = @ \cup {u}])
         /\ Sound([d EXCEPT !.sessions = @ \ {u}])
BY DEF Sound, Database

LEMMA SoundMigration ==
  ASSUME NEW d, Sound(d), NEW v \in 1 .. Migrations
  PROVE  /\ Sound([d EXCEPT !.ran[v] = @ + 1])
         /\ Sound([d EXCEPT !.recorded = @ \cup {v}])
<1>1. d.ran \in [1 .. Migrations -> Nat]
  BY DEF Sound, Database
<1> DEFINE n == d.ran[v] + 1
           r == [d.ran EXCEPT ![v] = n]
<1>2. n \in Nat
  <2>1. \A f \in [1 .. Migrations -> Nat] : f[v] \in Nat
    OBVIOUS
  <2>2. d.ran[v] \in Nat
    BY <1>1, <2>1
  <2> QED
    BY <2>2
<1> HIDE DEF n
<1>3. r \in [1 .. Migrations -> Nat]
  BY <1>1, <1>2
<1> HIDE DEF r
<1>4. Sound([d EXCEPT !.ran = r])
  BY <1>3 DEF Sound, Database
<1>5. Sound([d EXCEPT !.ran[v] = @ + 1])
  BY <1>4 DEF r, n
<1>6. Sound([d EXCEPT !.recorded = @ \cup {v}])
  BY DEF Sound, Database
<1> QED
  BY <1>5, <1>6
LEMMA SoundRestore ==
  ASSUME NEW d, Sound(d), NEW s \in Values, NEW c \in [AllTypes -> Values]
  PROVE  Sound([d EXCEPT !.settings = s, !.configs = c])
BY DEF Sound, Database

\* The versions and their bounds; a backup has a value for each type.
LEMMA Bounds ==
  /\ 0 \in Values /\ 1 \in Values /\ Types \subseteq AllTypes
  /\ NewType \in AllTypes /\ OldType \in AllTypes /\ Legacy \subseteq AllTypes
  /\ \A b \in Backups : b.settings \in Values /\ b.configs \in [Types -> Values]
BY FromAssumptions DEF Assumptions, Values, AllTypes, Backup

-----------------------------------------------------------------------------
(***************************************************************************)
(* What each step does to the database and to its copy.                    *)
(***************************************************************************)
Stored == Sound(db) /\ Sound(work) /\ Copied

LEMMA EqualCopies ==
  ASSUME Sound(db'), work' = db', main' # "record"
  PROVE  Stored'
BY DEF Stored, Copied, Sound, Missing, Lowest

LEMMA StoredStays ==
  ASSUME Stored, UNCHANGED <<db, work>>, main # "record", main' # "record"
  PROVE  Stored'
BY DEF Stored, Copied, Sound, Missing, Lowest

LEMMA StatementStored ==
  ASSUME NEW new, Sound(new), Statement(new) \/ Commit(new), main' # "record"
  PROVE  Stored'
BY EqualCopies DEF Statement, Commit, Sound

\* A transaction that leaves all but the configurations and the settings alone.
LEMMA WithinStored ==
  ASSUME NEW new, Stored, Sound(new), Within(new), main' # "record",
         new.users = db.users, new.lastId = db.lastId, new.sessions = db.sessions,
         new.recorded = db.recorded, new.ran = db.ran
  PROVE  Stored'
BY DEF Stored, Within, Copied, Sound, Missing, Lowest

LEMMA MigrateStored ==
  ASSUME Stored, Migrate
  PROVE  Stored'
<1>1. CASE Missing = {}
  BY <1>1, StoredStays DEF Migrate
<1>2. CASE Missing # {}
  <2>1. PICK v \in Missing : /\ Lowest(v) /\ work' = [db EXCEPT !.ran[v] = @ + 1]
                             /\ db' = db /\ main' = "record"
    BY <1>2 DEF Migrate, Within
  <2>2. Sound(work')
    BY <2>1, SoundMigration DEF Missing, Stored
  <2>3. db.ran \in [1 .. Migrations -> Nat] /\ db \in Database
    BY DEF Stored, Sound, Database
  <2>4. /\ work'.users = db.users /\ work'.lastId = db.lastId
        /\ work'.sessions = db.sessions /\ work'.recorded = db.recorded
        /\ work'.ran = [db.ran EXCEPT ![v] = @ + 1]
    BY <2>1, <2>3 DEF Database
  <2>5. Missing' = Missing /\ Lowest(v)'
    BY <2>1 DEF Missing, Lowest
  <2>6. Copied'
    BY <2>1, <2>4, <2>5 DEF Copied
  <2> QED
    BY <2>1, <2>2, <2>6 DEF Stored, Sound
<1> QED
  BY <1>1, <1>2

LEMMA RecordStored ==
  ASSUME Stored, Record
  PROVE  Stored'
<1>1. PICK v \in Missing : Commit([work EXCEPT !.recorded = @ \cup {v}])
  BY DEF Record
<1>2. Sound([work EXCEPT !.recorded = @ \cup {v}])
  BY SoundMigration DEF Stored, Missing
<1> QED
  BY <1>1, <1>2, StatementStored DEF Record

LEMMA RenameStored ==
  ASSUME Stored, RenameDelete \/ RenameUpdate
  PROVE  Stored'
<1>1. /\ db.configs \in [AllTypes -> Values] /\ work.configs \in [AllTypes -> Values]
      /\ db \in Database
  BY DEF Stored, Sound, Database
<1>2. CASE RenameDelete
  <2> DEFINE v == IF db.configs[OldType] # 0 THEN 0 ELSE db.configs[NewType]
             new == [db EXCEPT !.configs[NewType] = v]
  <2>1. v \in Values
    BY <1>1, Bounds
  <2> HIDE DEF v
  <2>2. Sound(new)
    BY <2>1, SoundConfig, Bounds DEF Stored
  <2>3. Within(new) /\ main' = "renamed"
    BY <1>2 DEF RenameDelete, v
  <2>4. /\ new.users = db.users /\ new.lastId = db.lastId /\ new.sessions = db.sessions
        /\ new.recorded = db.recorded /\ new.ran = db.ran
    BY <1>1 DEF Database
  <2> HIDE DEF new
  <2> QED
    BY <2>2, <2>3, <2>4, WithinStored
<1>3. CASE RenameUpdate
  <2> DEFINE c == [work.configs EXCEPT ![OldType] = 0,
                     ![NewType] = IF @ = 0 THEN work.configs[OldType] ELSE @]
  <2>1. c \in [AllTypes -> Values]
    BY <1>1, Bounds
  <2>2. Commit([work EXCEPT !.configs = c])
    BY <1>3, <1>1 DEF RenameUpdate, Commit, Stored, Sound, Database
  <2>3. Sound([work EXCEPT !.configs = c])
    BY <2>1, SoundConfigs DEF Stored
  <2> HIDE DEF c
  <2> QED
    BY <1>3, <2>2, <2>3, StatementStored DEF RenameUpdate
<1> QED
  BY <1>2, <1>3

LEMMA StartUpStored ==
  ASSUME Stored, StartOK, StartUp
  PROVE  Stored'
<1>1. CASE Start \/ ImportStart
  BY <1>1, StoredStays DEF Start, ImportStart
<1>2. CASE ImportSave
  <2>1. CASE \E t \in todo : Statement([db EXCEPT !.configs[t] = 1])
    <3>1. PICK t \in todo : Statement([db EXCEPT !.configs[t] = 1])
      BY <2>1
    <3>2. Sound([db EXCEPT !.configs[t] = 1])
      BY Bounds, SoundConfig DEF Stored, StartOK
    <3> QED
      BY <1>2, <3>1, <3>2, StatementStored DEF ImportSave
  <2>2. CASE main' = "up" /\ UNCHANGED <<db, work>>
    BY <1>2, <2>2, StoredStays DEF ImportSave
  <2> QED
    BY <1>2, <2>1, <2>2 DEF ImportSave
<1> QED
  BY <1>1, <1>2, MigrateStored, RecordStored, RenameStored DEF StartUp

LEMMA CrashStored ==
  ASSUME Stored, Crash
  PROVE  Stored'
<1>1. Sound(db') /\ work' = db' /\ main' # "record"
  BY DEF Crash, Rollback, Stored, Sound
<1> QED
  BY <1>1, EqualCopies

\* The requests that are answered at once, or that only look.
Console(p) == \/ \E t \in Types : DeleteConfig(p, t) \/ \E v \in Values \ {0} : SaveConfig(p, t, v)
              \/ \E r \in Roles : CreateUser(p, r)
              \/ \E u \in Ids, r \in Roles, e \in BOOLEAN : UpdateUser(p, u, r, e)
LoginStep(p) == Login(p) \/ Authenticate(p) \/ Failure(p) \/ Success(p)

\* Handlers run only when the process is up, and leave its start alone.
LEMMA HandlerUp ==
  ASSUME Quiet, NEW p \in Procs, Handle(p)
  PROVE  main = "up" /\ main' = "up" /\ todo' = todo
<1>1. main = "up"
  BY DEF Quiet, Handle, SaveConfig, DeleteConfig, CreateUser, UpdateUser, DeleteUser,
     Simple, Request, Bootstrap, InsertAdmin, CreateSession, Login, Authenticate, Failure,
     Success, ReadRole, RemoveUser, Restore, InsertConfigs
<1>2. UNCHANGED startVars
  BY DEF Handle, SaveConfig, DeleteConfig, CreateUser, UpdateUser, DeleteUser,
     Simple, Bootstrap, InsertAdmin, CreateSession, Login, Authenticate, Failure,
     Success, ReadRole, RemoveUser, Restore, InsertConfigs
<1> QED
  BY <1>1, <1>2 DEF startVars

\* Handle, with the quantifiers of the console's requests put together.
LEMMA HandleCases ==
  ASSUME NEW p \in Procs, Handle(p)
  PROVE  \/ Console(p) \/ LoginStep(p) \/ \E u \in Ids : DeleteUser(p, u)
         \/ Bootstrap(p) \/ InsertAdmin(p) \/ CreateSession(p)
         \/ ReadRole(p) \/ RemoveUser(p) \/ Restore(p) \/ InsertConfigs(p)
BY DEF Handle, Console, LoginStep

LEMMA ConsoleStored ==
  ASSUME Stored, main' # "record", NEW p \in Procs, Console(p)
  PROVE  Stored'
<1>0. Sound(db)
  BY DEF Stored
<1>1. ASSUME NEW t \in Types, NEW v \in Values, Statement([db EXCEPT !.configs[t] = v])
      PROVE  Stored'
  <2>1. Sound([db EXCEPT !.configs[t] = v])
    BY <1>0, SoundConfig, Bounds
  <2> QED
    BY <1>1, <2>1, StatementStored
<1>2. CASE \E t \in Types : DeleteConfig(p, t) \/ \E v \in Values \ {0} : SaveConfig(p, t, v)
  <2>1. PICK t \in Types : DeleteConfig(p, t) \/ \E v \in Values \ {0} : SaveConfig(p, t, v)
    BY <1>2
  <2>2. CASE DeleteConfig(p, t)
    BY <2>2, <1>1, Bounds DEF DeleteConfig, Simple
  <2>3. CASE \E v \in Values \ {0} : SaveConfig(p, t, v)
    BY <2>3, <1>1 DEF SaveConfig, Simple
  <2> QED
    BY <2>1, <2>2, <2>3
<1>3. ASSUME NEW r \in Roles, CreateUser(p, r)
      PROVE  Stored'
  <2>1. [role |-> r, enabled |-> TRUE] \in User
    BY DEF User
  <2>2. Sound([db EXCEPT !.lastId = @ + 1,
                         !.users[db.lastId + 1] = [role |-> r, enabled |-> TRUE]])
    BY <1>0, <1>3, <2>1, SoundNewUser DEF CreateUser
  <2> QED
    BY <1>3, <2>2, StatementStored DEF CreateUser, Simple
<1>4. ASSUME NEW u \in Ids, NEW r \in Roles, NEW e \in BOOLEAN, UpdateUser(p, u, r, e)
      PROVE  Stored'
  <2>1. [role |-> r, enabled |-> e] \in User
    BY DEF User
  <2>2. Sound([db EXCEPT !.users[u] = [role |-> r, enabled |-> e]])
    BY <1>0, <1>4, <2>1, SoundUser DEF UpdateUser
  <2> QED
    BY <1>4, <2>2, StatementStored DEF UpdateUser, Simple
<1> QED
  BY <1>2, <1>3, <1>4 DEF Console

LEMMA RestoreStored ==
  ASSUME Stored, main' # "record", NEW p \in Procs, Filed,
         Restore(p) \/ InsertConfigs(p)
  PROVE  Stored'
<1>0. /\ Sound(db) /\ Sound(work) /\ db \in Database /\ work \in Database
      /\ db.configs \in [AllTypes -> Values] /\ work.configs \in [AllTypes -> Values]
  BY DEF Stored, Sound, Database
<1>1. CASE Restore(p)
  <2>1. PICK b \in Backups :
          Within([db EXCEPT !.settings = b.settings,
                            !.configs = [t \in AllTypes |-> IF t \in Types THEN 0 ELSE @[t]]])
    BY <1>1 DEF Restore
  <2> DEFINE c == [t \in AllTypes |-> IF t \in Types THEN 0 ELSE db.configs[t]]
             new == [db EXCEPT !.settings = b.settings, !.configs = c]
  <2>2. c \in [AllTypes -> Values] /\ b.settings \in Values
    BY <1>0, Bounds
  <2>3. Within(new)
    BY <2>1, <1>0 DEF Database
  <2> HIDE DEF c
  <2>4. Sound(new)
    BY <1>0, <2>2, SoundRestore
  <2>5. /\ new.users = db.users /\ new.lastId = db.lastId /\ new.sessions = db.sessions
        /\ new.recorded = db.recorded /\ new.ran = db.ran
    BY <1>0 DEF Database
  <2> HIDE DEF new
  <2> QED
    BY <2>3, <2>4, <2>5, WithinStored
<1>2. CASE InsertConfigs(p) /\ Commit(Inserted(file[p]))
  <2>1. file[p] \in Backups
    BY <1>2 DEF InsertConfigs, Filed
  <2> DEFINE c == [t \in AllTypes |-> IF t \in Types THEN file[p].configs[t] ELSE work.configs[t]]
  <2>2. c \in [AllTypes -> Values]
    BY <1>0, <2>1, Bounds
  <2>3. Inserted(file[p]) = [work EXCEPT !.configs = c]
    BY <1>0 DEF Inserted, Database
  <2> HIDE DEF c
  <2>4. Sound([work EXCEPT !.configs = c])
    BY <1>0, <2>2, SoundConfigs
  <2> QED
    BY <1>2, <2>3, <2>4, StatementStored
<1>3. CASE InsertConfigs(p) /\ Rollback
  BY <1>0, <1>3, EqualCopies DEF Rollback, Sound
<1> QED
  BY <1>1, <1>2, <1>3 DEF InsertConfigs

LEMMA HandleStored ==
  ASSUME Stored, Quiet, Targets, Filed, NEW p \in Procs, Handle(p)
  PROVE  Stored'
<1>0. main # "record" /\ main' # "record" /\ Sound(db) /\ Sound(work)
  BY HandlerUp DEF Stored
<1>1. CASE LoginStep(p) \/ (\E u \in Ids : DeleteUser(p, u)) \/ Bootstrap(p) \/ ReadRole(p)
  <2>1. UNCHANGED <<db, work>>
    BY <1>1 DEF LoginStep, Login, Authenticate, Failure, Success, DeleteUser, Bootstrap, ReadRole
  <2> QED
    BY <1>0, <2>1, StoredStays
<1>2. CASE InsertAdmin(p)
  <2>1. [role |-> "admin", enabled |-> TRUE] \in User
    BY DEF User, Roles
  <2>2. Sound([work EXCEPT !.lastId = @ + 1,
                 !.users[work.lastId + 1] = [role |-> "admin", enabled |-> TRUE]])
    BY <1>0, <1>2, <2>1, SoundNewUser DEF InsertAdmin, Stored, Copied
  <2> QED
    BY <1>0, <1>2, <2>2, StatementStored DEF InsertAdmin
<1>3. CASE CreateSession(p)
  <2>1. target[p] \in Ids
    BY <1>3 DEF CreateSession, Targets
  <2> DEFINE s == IF db.users[target[p]] = None THEN db.sessions ELSE db.sessions \cup {target[p]}
  <2>2. Sound([db EXCEPT !.sessions = s])
    <3>1. CASE db.users[target[p]] = None
      <4>1. [db EXCEPT !.sessions = s] = db
        BY <1>0, <3>1 DEF Sound, Database
      <4> QED
        BY <1>0, <4>1
    <3>2. CASE db.users[target[p]] # None
      BY <1>0, <2>1, <3>2, SoundSessions
    <3> QED
      BY <3>1, <3>2
  <2>3. Statement([db EXCEPT !.sessions = s])
    BY <1>3 DEF CreateSession
  <2> HIDE DEF s
  <2> QED
    BY <1>0, <2>2, <2>3, StatementStored
<1>4. CASE RemoveUser(p)
  <2>1. target[p] \in Ids
    BY <1>4 DEF RemoveUser, Targets
  <2> QED
    BY <1>0, <1>4, <2>1, SoundRemoval, StatementStored DEF RemoveUser
<1> QED
  BY <1>0, <1>1, <1>2, <1>3, <1>4, ConsoleStored, RestoreStored, HandleCases

LEMMA NextStored ==
  ASSUME TypeInv, [Next]_vars
  PROVE  Stored'
<1>0. Stored /\ StartOK /\ Quiet /\ Targets /\ Filed
  BY TypeParts DEF TypeInv, Stored
<1>1. ASSUME NEW u \in Ids, EndSession(u)
      PROVE  Stored'
  <2>1. Sound([db EXCEPT !.sessions = @ \ {u}]) /\ main' # "record"
    BY <1>0, <1>1, SoundSessions DEF EndSession, startVars, Stored
  <2> QED
    BY <1>1, <2>1, StatementStored DEF EndSession
<1>2. CASE Lapse
  BY <1>0, <1>2 DEF Lapse, startVars, Stored, Copied, Sound, Missing, Lowest
<1>3. CASE UNCHANGED vars
  BY <1>0, <1>3 DEF vars, startVars, Stored, Copied, Sound, Missing, Lowest
<1> QED
  BY <1>0, <1>1, <1>2, <1>3, StartUpStored, CrashStored, HandleStored DEF Next

-----------------------------------------------------------------------------
(***************************************************************************)
(* What each step does to the handlers.                                    *)
(***************************************************************************)
\* A handler's step is its own; one outside a transaction keeps to itself
\* while another handler is in one.
LEMMA Others ==
  ASSUME CallOK, NEW p \in Procs, Handle(p), NEW q \in Procs, q # p
  PROVE  /\ pc'[q] = pc[q] /\ file'[q] = file[q]
         /\ target'[q] = target[q] /\ counted'[q] = counted[q]
<1> USE DEF CallOK
<1>1. CASE Console(p)
  BY <1>1 DEF Console, SaveConfig, DeleteConfig, CreateUser, UpdateUser, Simple
<1>2. CASE LoginStep(p)
  BY <1>2 DEF LoginStep, Login, Authenticate, Failure, Success, Goto
<1>3. CASE (\E u \in Ids : DeleteUser(p, u)) \/ ReadRole(p) \/ RemoveUser(p)
  BY <1>3 DEF DeleteUser, ReadRole, RemoveUser, EndDelete, Goto
<1>4. CASE Bootstrap(p) \/ InsertAdmin(p) \/ CreateSession(p)
  BY <1>4 DEF Bootstrap, InsertAdmin, CreateSession, Goto
<1>5. CASE Restore(p) \/ InsertConfigs(p)
  BY <1>5 DEF Restore, InsertConfigs, Goto
<1> QED
  BY <1>1, <1>2, <1>3, <1>4, <1>5, HandleCases

LEMMA Excluded ==
  ASSUME CallOK, Alone, NEW p \in Procs, Handle(p), conn # None, conn # p
  PROVE  LoginStep(p) /\ UNCHANGED <<db, work, conn>>
<1>1. ~ Console(p)
  BY DEF Console, SaveConfig, DeleteConfig, CreateUser, UpdateUser, Simple, Request
<1>2. ~ \E u \in Ids : DeleteUser(p, u)
  BY DEF DeleteUser, Request
<1>3. ~ (Bootstrap(p) \/ InsertAdmin(p) \/ CreateSession(p))
  BY DEF Bootstrap, Request, InsertAdmin, CreateSession, Statement, Alone
<1>4. ~ (ReadRole(p) \/ RemoveUser(p) \/ Restore(p) \/ InsertConfigs(p))
  BY DEF ReadRole, RemoveUser, Statement, Restore, Request, InsertConfigs, Alone
<1> QED
  BY <1>1, <1>2, <1>3, <1>4, HandleCases DEF LoginStep, Login, Authenticate, Failure, Success

LEMMA NotedType ==
  ASSUME CallOK, NEW p \in Procs, Noted(p)
  PROVE  overtaken' \in [Procs -> BOOLEAN]
BY DEF CallOK, Noted

LEMMA ConsoleCalls ==
  ASSUME CallOK, NEW p \in Procs, Console(p)
  PROVE  CallOK' /\ UNCHANGED <<pc, file, target, counted, conn>>
<1>1. UNCHANGED <<pc, file, target, counted, conn>>
  BY DEF Console, SaveConfig, DeleteConfig, CreateUser, UpdateUser, Simple, Statement
<1>2. UNCHANGED overtaken \/ Noted(p)
  BY DEF Console, SaveConfig, DeleteConfig, CreateUser, UpdateUser
<1> QED
  BY <1>1, <1>2, NotedType DEF CallOK

\* Where a handler's own step leaves it.
LEMMA LoginCalls ==
  ASSUME CallOK, NEW p \in Procs, LoginStep(p)
  PROVE  /\ CallOK' /\ UNCHANGED <<db, work, conn, file, counted, overtaken>>
         /\ \/ pc[p] = "idle" /\ pc'[p] \in {"idle", "auth"} /\ UNCHANGED target
            \/ pc[p] = "auth" /\ pc'[p] = "failure" /\ UNCHANGED target
            \/ pc[p] = "auth" /\ pc'[p] = "success" /\ target'[p] \in Ids
            \/ pc[p] = "failure" /\ pc'[p] = "idle" /\ UNCHANGED target
            \/ pc[p] = "success" /\ pc'[p] = "session" /\ UNCHANGED target
<1>1. CASE Login(p)
  BY <1>1 DEF Login, Goto, CallOK, Calls
<1>2. CASE Authenticate(p)
  BY <1>2, FromAssumptions DEF Authenticate, Goto, CallOK, Calls, Ids, Assumptions
<1>3. CASE Failure(p) \/ Success(p)
  BY <1>3 DEF Failure, Success, Goto, CallOK, Calls
<1> QED
  BY <1>1, <1>2, <1>3 DEF LoginStep

LEMMA AdminCount ==
  IsFiniteSet(Ids) /\ Cardinality(Ids) = MaxUsers
BY FS_Interval, FromAssumptions DEF Ids, Assumptions

LEMMA AdminsFinite ==
  /\ Admins \subseteq Ids /\ IsFiniteSet(Admins) /\ Cardinality(Admins) \in 0 .. MaxUsers
<1>1. Admins \subseteq Ids
  BY DEF Admins
<1>2. IsFiniteSet(Admins) /\ Cardinality(Admins) <= Cardinality(Ids)
  BY <1>1, AdminCount, FS_Subset
<1>3. Cardinality(Admins) \in Nat
  BY <1>2, FS_CardinalityType
<1> QED
  BY <1>1, <1>2, <1>3, AdminCount, FromAssumptions DEF Assumptions

LEMMA EndCalls ==
  ASSUME CallOK, NEW p \in Procs, EndDelete(p)
  PROVE  /\ pc' \in [Procs -> Calls] /\ pc'[p] = "idle"
         /\ target' \in [Procs -> 0 .. MaxUsers] /\ counted' \in [Procs -> 0 .. MaxUsers]
<1>1. 0 \in 0 .. MaxUsers
  BY FromAssumptions DEF Assumptions
<1> QED
  BY <1>1 DEF EndDelete, Goto, CallOK, Calls

LEMMA DeleteCalls ==
  ASSUME CallOK, NEW p \in Procs, (\E u \in Ids : DeleteUser(p, u)) \/ ReadRole(p) \/ RemoveUser(p)
  PROVE  /\ CallOK' /\ UNCHANGED <<conn, file>>
         /\ \/ pc[p] = "idle" /\ pc'[p] = "role" /\ target'[p] \in Ids
            \/ pc[p] = "role" /\ pc'[p] = "delete" /\ UNCHANGED target
            \/ pc[p] \in {"role", "delete"} /\ pc'[p] = "idle"
<1>1. CASE \E u \in Ids : DeleteUser(p, u)
  <2>1. PICK u \in Ids : DeleteUser(p, u)
    BY <1>1
  <2>2. Ids \subseteq 0 .. MaxUsers
    BY FromAssumptions DEF Ids, Assumptions
  <2>3. /\ pc' = [pc EXCEPT ![p] = "role"] /\ target' = [target EXCEPT ![p] = u]
        /\ counted' = [counted EXCEPT ![p] = Cardinality(Admins)]
        /\ overtaken' = [overtaken EXCEPT ![p] = FALSE] /\ UNCHANGED <<conn, file>>
        /\ pc[p] = "idle"
    BY <2>1 DEF DeleteUser, Request, Goto
  <2> QED
    BY <2>2, <2>3, AdminsFinite DEF CallOK, Calls
<1>2. CASE ReadRole(p) /\ EndDelete(p)
  BY <1>2, EndCalls DEF ReadRole, CallOK
<1>3. CASE ReadRole(p) /\ Goto(p, "delete") /\ UNCHANGED <<target, counted, overtaken>>
  BY <1>3 DEF ReadRole, Goto, CallOK, Calls
<1>4. CASE RemoveUser(p)
  <2>1. overtaken' \in [Procs -> BOOLEAN]
    BY <1>4, NotedType DEF RemoveUser
  <2>2. EndDelete(p) /\ pc[p] = "delete" /\ UNCHANGED <<conn, file>>
    BY <1>4 DEF RemoveUser, Statement
  <2> QED
    BY <2>1, <2>2, EndCalls DEF CallOK
<1> QED
  BY <1>1, <1>2, <1>3, <1>4 DEF ReadRole

LEMMA BootstrapCalls ==
  ASSUME CallOK, Sound(db), Copied, NEW p \in Procs,
         Bootstrap(p) \/ InsertAdmin(p) \/ CreateSession(p)
  PROVE  /\ CallOK' /\ UNCHANGED file
         /\ \/ pc[p] = "idle" /\ pc'[p] = "insert" /\ conn = None /\ conn' = p
            \/ pc[p] = "idle" /\ pc'[p] = "idle" /\ UNCHANGED conn
            \/ pc[p] = "insert" /\ pc'[p] = "session" /\ target'[p] \in Ids /\ conn' = None
            \/ pc[p] = "session" /\ pc'[p] = "idle" /\ UNCHANGED conn
<1>1. CASE Bootstrap(p)
  BY <1>1 DEF Bootstrap, Request, Goto, CallOK, Calls
<1>2. CASE InsertAdmin(p)
  <2>1. overtaken' \in [Procs -> BOOLEAN]
    BY <1>2, NotedType DEF InsertAdmin
  <2>2. work.lastId + 1 \in Ids /\ work.lastId + 1 \in 0 .. MaxUsers
    BY <1>2, FromAssumptions DEF InsertAdmin, Copied, Sound, Database, Ids, Assumptions
  <2> QED
    BY <1>2, <2>1, <2>2 DEF InsertAdmin, Goto, CallOK, Calls
<1>3. CASE CreateSession(p)
  BY <1>3, FromAssumptions DEF CreateSession, Statement, Goto, CallOK, Calls, Assumptions
<1> QED
  BY <1>1, <1>2, <1>3

LEMMA RestoreCalls ==
  ASSUME CallOK, Sound(db), NEW p \in Procs, Restore(p) \/ InsertConfigs(p)
  PROVE  /\ CallOK' /\ UNCHANGED target
         /\ \/ /\ pc[p] = "idle" /\ pc'[p] = "restore" /\ conn = None /\ conn' = p
               /\ file'[p] \in Backups /\ work'.settings = file'[p].settings
            \/ pc[p] = "restore" /\ pc'[p] = "idle" /\ conn' = None
<1>1. CASE Restore(p)
  <2>1. PICK b \in Backups :
          /\ file' = [file EXCEPT ![p] = b]
          /\ Within([db EXCEPT !.settings = b.settings,
                !.configs = [t \in AllTypes |-> IF t \in Types THEN 0 ELSE @[t]]])
    BY <1>1 DEF Restore
  <2>2. work'.settings = b.settings
    BY <2>1 DEF Within, Sound, Database
  <2> QED
    BY <1>1, <2>1, <2>2 DEF Restore, Request, Goto, CallOK, Calls
<1>2. CASE InsertConfigs(p)
  BY <1>2 DEF InsertConfigs, Goto, CallOK, Calls
<1> QED
  BY <1>1, <1>2

LEMMA HandleCalls ==
  ASSUME TypeInv, NEW p \in Procs, Handle(p)
  PROVE  CallOK' /\ Quiet' /\ Alone' /\ Targets' /\ Filed' /\ conn' \in Procs \cup {None}
<1>0. /\ CallOK /\ Sound(db) /\ Sound(work) /\ Copied /\ Alone /\ Targets /\ Filed /\ Quiet
      /\ conn \in Procs \cup {None} /\ pc \in [Procs -> Calls] /\ None \notin Procs
  BY TypeParts, FromAssumptions DEF TypeInv, CallOK, Assumptions
<1>1. CallOK'
  BY <1>0, HandleCases, ConsoleCalls, LoginCalls, DeleteCalls, BootstrapCalls, RestoreCalls
<1>2. Quiet'
  BY <1>0, HandlerUp DEF Quiet
<1>3. /\ conn' \in {conn, p, None}
      /\ pc'[p] \in {"insert", "restore"} => conn' = p
  <2>1. CASE Console(p)
    BY <1>0, <2>1, ConsoleCalls DEF Alone
  <2>2. CASE LoginStep(p)
    BY <1>0, <2>2, LoginCalls
  <2>3. CASE (\E u \in Ids : DeleteUser(p, u)) \/ ReadRole(p) \/ RemoveUser(p)
    BY <1>0, <2>3, DeleteCalls
  <2>4. CASE Bootstrap(p) \/ InsertAdmin(p) \/ CreateSession(p)
    BY <1>0, <2>4, BootstrapCalls
  <2>5. CASE Restore(p) \/ InsertConfigs(p)
    BY <1>0, <2>5, RestoreCalls
  <2> QED
    BY <2>1, <2>2, <2>3, <2>4, <2>5, HandleCases
<1>4. Alone'
  <2> SUFFICES ASSUME NEW q \in Procs, pc'[q] \in {"insert", "restore"}
               PROVE  conn' = q
    BY DEF Alone
  <2>1. CASE q = p
    BY <1>3, <2>1
  <2>2. CASE q # p
    <3>1. conn = q
      BY <1>0, <2>2, Others DEF Alone
    <3> QED
      BY <1>0, <2>2, <3>1, Excluded
  <2> QED
    BY <2>1, <2>2
<1>5. pc'[p] \in {"session", "success", "role", "delete"} => target'[p] \in Ids
  <2>1. CASE Console(p)
    BY <1>0, <2>1, ConsoleCalls DEF Targets
  <2>2. CASE LoginStep(p)
    BY <1>0, <2>2, LoginCalls DEF Targets
  <2>3. CASE (\E u \in Ids : DeleteUser(p, u)) \/ ReadRole(p) \/ RemoveUser(p)
    BY <1>0, <2>3, DeleteCalls DEF Targets
  <2>4. CASE Bootstrap(p) \/ InsertAdmin(p) \/ CreateSession(p)
    BY <1>0, <2>4, BootstrapCalls
  <2>5. CASE Restore(p) \/ InsertConfigs(p)
    BY <1>0, <2>5, RestoreCalls
  <2> QED
    BY <2>1, <2>2, <2>3, <2>4, <2>5, HandleCases
<1>6. Targets'
  BY <1>0, <1>5, Others DEF Targets
<1>7. Filed'
  <2> SUFFICES ASSUME NEW q \in Procs, pc'[q] = "restore"
               PROVE  file'[q] \in Backups /\ work'.settings = file'[q].settings
    BY DEF Filed
  <2>1. CASE q # p
    <3>1. pc[q] = "restore" /\ conn = q /\ file'[q] = file[q]
      BY <1>0, <2>1, Others DEF Alone
    <3> QED
      BY <1>0, <2>1, <3>1, Excluded DEF Filed
  <2>2. CASE q = p /\ pc[p] = "restore"
    <3>1. InsertConfigs(p) \/ Console(p)
      BY <2>2, HandleCases DEF LoginStep, Login, Authenticate, Failure, Success, DeleteUser,
         Request, Bootstrap, InsertAdmin, CreateSession, ReadRole, RemoveUser, Restore
    <3>2. ~ Console(p)
      BY <2>2 DEF Console, SaveConfig, DeleteConfig, CreateUser, UpdateUser, Simple, Request
    <3> QED
      BY <1>0, <2>2, <3>1, <3>2, RestoreCalls
  <2>3. CASE q = p /\ pc[p] # "restore"
    <3>1. ~ Console(p)
      BY <1>0, <2>3, ConsoleCalls
    <3>2. ~ LoginStep(p)
      BY <1>0, <2>3, LoginCalls
    <3>3. ~ ((\E u \in Ids : DeleteUser(p, u)) \/ ReadRole(p) \/ RemoveUser(p))
      BY <1>0, <2>3, DeleteCalls
    <3>4. ~ (Bootstrap(p) \/ InsertAdmin(p) \/ CreateSession(p))
      BY <1>0, <2>3, BootstrapCalls
    <3> QED
      BY <1>0, <2>3, <3>1, <3>2, <3>3, <3>4, RestoreCalls, HandleCases
  <2> QED
    BY <2>1, <2>2, <2>3
<1> QED
  BY <1>0, <1>1, <1>2, <1>3, <1>4, <1>6, <1>7

\* The steps outside the handlers.
LEMMA OtherCalls ==
  ASSUME TypeInv, StartUp \/ Crash \/ Lapse \/ (\E u \in Ids : EndSession(u)) \/ UNCHANGED vars
  PROVE  CallOK' /\ Quiet' /\ Alone' /\ Targets' /\ Filed' /\ conn' \in Procs \cup {None}
<1>0. CallOK /\ Alone /\ Targets /\ Filed /\ Quiet /\ conn \in Procs \cup {None}
  BY TypeParts DEF TypeInv
<1>1. CASE StartUp
  <2>1. main # "up" /\ UNCHANGED callVars /\ conn' = conn
    BY <1>1 DEF StartUp, Start, Migrate, Record, RenameDelete, RenameUpdate, ImportStart,
       ImportSave, Statement
  <2>2. \A p \in Procs : pc[p] = "idle"
    BY <1>0, <2>1 DEF Quiet
  <2>3. conn' = None
    BY <1>0, <2>1 DEF Quiet
  <2> QED
    BY <1>0, <2>1, <2>2, <2>3 DEF callVars, CallOK, Quiet, Alone, Targets, Filed
<1>2. CASE Crash
  <2>1. 0 \in 0 .. MaxUsers
    BY FromAssumptions DEF Assumptions
  <2> QED
    BY <1>2, <2>1 DEF Crash, CallOK, Calls, Quiet, Alone, Targets, Filed
<1>3. CASE Lapse \/ UNCHANGED vars
  BY <1>0, <1>3 DEF Lapse, vars, callVars, startVars, CallOK, Quiet, Alone, Targets, Filed
<1>4. CASE \E u \in Ids : EndSession(u)
  <2>1. /\ UNCHANGED callVars /\ UNCHANGED startVars /\ conn = None /\ conn' = conn
        /\ main = "up"
    BY <1>4 DEF EndSession, Statement
  <2>2. \A p \in Procs : pc[p] # "restore"
    BY <1>0, <2>1, FromAssumptions DEF Alone, Assumptions
  <2> QED
    BY <1>0, <2>1, <2>2 DEF callVars, startVars, CallOK, Quiet, Alone, Targets, Filed
<1> QED
  BY <1>1, <1>2, <1>3, <1>4

LEMMA Zeros ==
  /\ 0 \in 0 .. Threshold /\ 0 \in 0 .. MaxUsers /\ 0 \in 0 .. MaxOps /\ 0 \in Nat
BY FromAssumptions DEF Assumptions

LEMMA LoginReset ==
  ASSUME failures' = 0, locked' = FALSE, tries' = 0
  PROVE  LoginOK'
<1>1. failures' \in 0 .. Threshold /\ tries' \in Nat
  BY Zeros
<1>2. locked' \in BOOLEAN
  BY Zenon
<1> QED
  BY <1>1, <1>2, Zenon DEF LoginOK

LEMMA Memory ==
  ASSUME TypeInv, [Next]_vars
  PROVE  StartOK' /\ LoginOK' /\ ops' \in 0 .. MaxOps
<1>0. StartOK /\ LoginOK /\ ops \in 0 .. MaxOps /\ Quiet
  BY TypeParts DEF TypeInv
<1>1. ASSUME NEW p \in Procs, Handle(p)
      PROVE  StartOK' /\ LoginOK' /\ ops' \in 0 .. MaxOps
  <2>1. StartOK'
    BY <1>0, <1>1, HandlerUp DEF StartOK
  <2>2. LoginOK'
    <3>1. CASE LoginStep(p)
      <4>1. CASE Failure(p)
        BY <1>0, <4>1, FromAssumptions DEF Failure, LoginOK, Assumptions
      <4>2. CASE Login(p)
        BY <1>0, <4>2 DEF Login, loginVars, LoginOK
      <4>3. CASE Authenticate(p)
        <5>1. UNCHANGED <<failures, locked>> /\ tries' \in {tries, tries + 1}
          BY <4>3 DEF Authenticate
        <5>2. tries' \in Nat
          BY <1>0, <5>1 DEF LoginOK
        <5> QED
          BY <1>0, <5>1, <5>2, Zenon DEF LoginOK
      <4>4. CASE Success(p)
        BY <4>4, LoginReset DEF Success
      <4> QED
        BY <3>1, <4>1, <4>2, <4>3, <4>4 DEF LoginStep
    <3>2. CASE ~ LoginStep(p)
      <4>1. UNCHANGED loginVars
        BY <1>1, <3>2, HandleCases DEF Console, SaveConfig, DeleteConfig, CreateUser, UpdateUser,
           Simple, DeleteUser, Bootstrap, InsertAdmin, CreateSession, ReadRole, RemoveUser,
           Restore, InsertConfigs
      <4> QED
        BY <1>0, <4>1 DEF loginVars, LoginOK
    <3> QED
      BY <3>1, <3>2
  <2>3. ops' = ops \/ (ops < MaxOps /\ ops' = ops + 1)
    <3>1. CASE Console(p)
      BY <3>1 DEF Console, SaveConfig, DeleteConfig, CreateUser, UpdateUser, Simple, Request
    <3>2. CASE LoginStep(p)
      BY <3>2 DEF LoginStep, Login, Authenticate, Failure, Success
    <3>3. CASE (\E u \in Ids : DeleteUser(p, u)) \/ ReadRole(p) \/ RemoveUser(p)
      BY <3>3 DEF DeleteUser, Request, ReadRole, RemoveUser
    <3>4. CASE Bootstrap(p) \/ InsertAdmin(p) \/ CreateSession(p)
      BY <3>4 DEF Bootstrap, Request, InsertAdmin, CreateSession
    <3>5. CASE Restore(p) \/ InsertConfigs(p)
      BY <3>5 DEF Restore, Request, InsertConfigs
    <3> QED
      BY <1>1, <3>1, <3>2, <3>3, <3>4, <3>5, HandleCases
  <2>4. ops' \in 0 .. MaxOps
    BY <1>0, <2>3, FromAssumptions DEF Assumptions
  <2> QED
    BY <2>1, <2>2, <2>4
<1>2. CASE StartUp
  <2>1. UNCHANGED <<loginVars, ops>>
    BY <1>2 DEF StartUp, Start, Migrate, Record, RenameDelete, RenameUpdate, ImportStart, ImportSave
  <2>2. StartOK'
    BY <1>0, <1>2 DEF StartUp, Start, Migrate, Record, RenameDelete, RenameUpdate, ImportStart,
       ImportSave, StartOK, Starting
  <2> QED
    BY <1>0, <2>1, <2>2 DEF loginVars, LoginOK
<1>3. CASE Crash
  <2>1. LoginOK'
    BY <1>3, LoginReset DEF Crash
  <2>2. StartOK' /\ ops' = ops
    BY <1>3 DEF Crash, StartOK, Starting
  <2> QED
    BY <1>0, <2>1, <2>2
<1>4. CASE Lapse
  BY <1>0, <1>4 DEF Lapse, startVars, StartOK, LoginOK
<1>5. CASE UNCHANGED vars \/ \E u \in Ids : EndSession(u)
  <2>1. UNCHANGED <<startVars, loginVars, ops>>
    BY <1>5 DEF EndSession, vars
  <2> QED
    BY <1>0, <2>1 DEF startVars, loginVars, StartOK, LoginOK
<1> QED
  BY <1>1, <1>2, <1>3, <1>4, <1>5 DEF Next

LEMMA TypeInit == Init => TypeInv
<1> SUFFICES ASSUME Init PROVE TypeInv
  OBVIOUS
<1>0. /\ db.lastId \in {0, 1} /\ db.sessions = {}
      /\ \A u \in Ids : db.users[u] =
            IF u <= db.lastId THEN [role |-> "admin", enabled |-> TRUE] ELSE None
  BY DEF Init
<1>1. db \in Database
  <2>1. PICK n \in 0 .. Migrations :
          db \in [ran      : {[v \in 1 .. Migrations |-> IF v <= n THEN 1 ELSE 0]},
                 recorded : {1 .. n},
                 configs  : IF n < ConfigsFrom THEN {[t \in AllTypes |-> 0]}
                            ELSE [AllTypes -> Values],
                 settings : {0}, users : [Ids -> User \cup {None}],
                 lastId   : {0, 1}, sessions : {{}}]
    BY DEF Init
  <2>2. [v \in 1 .. Migrations |-> IF v <= n THEN 1 ELSE 0] \in [1 .. Migrations -> Nat]
    OBVIOUS
  <2>3. 1 .. n \subseteq 1 .. Migrations /\ {0, 1} \subseteq 0 .. MaxUsers
    BY FromAssumptions DEF Assumptions
  <2>4. [t \in AllTypes |-> 0] \in [AllTypes -> Values]
    BY Bounds
  <2>5. (IF n < ConfigsFrom THEN {[t \in AllTypes |-> 0]} ELSE [AllTypes -> Values])
           \subseteq [AllTypes -> Values]
    BY <2>4
  <2> QED
    BY <2>1, <2>2, <2>3, <2>5, Bounds DEF Database
<1>2. Sound(db) /\ Sound(work)
  BY <1>0, <1>1 DEF Init, Sound, Ids
<1>3. StartOK /\ ops \in 0 .. MaxOps /\ conn \in Procs \cup {None}
  BY Zeros DEF Init, StartOK, Starting
<1>4. LoginOK
  BY Zeros, Zenon DEF Init, LoginOK
<1>5. CallOK
  BY Zeros DEF Init, CallOK, Calls
<1>6. Quiet /\ Alone /\ Copied /\ Targets /\ Filed
  BY DEF Init, Quiet, Alone, Copied, Targets, Filed
<1> QED
  BY <1>2, <1>3, <1>4, <1>5, <1>6, TypeParts DEF TypeInv, Sound

LEMMA TypeStep == TypeInv /\ [Next]_vars => TypeInv'
<1> SUFFICES ASSUME TypeInv, [Next]_vars PROVE TypeInv'
  OBVIOUS
<1>1. Stored'
  BY NextStored
<1>2. CallOK' /\ Quiet' /\ Alone' /\ Targets' /\ Filed' /\ conn' \in Procs \cup {None}
  BY HandleCalls, OtherCalls DEF Next
<1>3. StartOK' /\ LoginOK' /\ ops' \in 0 .. MaxOps
  BY Memory
<1>4. TypeOK'
  BY <1>1, <1>2, <1>3 DEF TypeOK, Stored, Sound, StartOK, CallOK, LoginOK
<1> QED
  BY <1>1, <1>2, <1>4 DEF TypeInv, Stored

(* TypeOK, for every value of the constants.                                *)
THEOREM TypeCorrect == Spec => []TypeOK
<1>1. TypeInv => TypeOK
  BY DEF TypeInv
<1> QED
  BY <1>1, TypeInit, TypeStep, PTL DEF Spec

-----------------------------------------------------------------------------
(***************************************************************************)
(* The schema: the script of the open transaction is the one that its      *)
(* record will name, since both take the lowest version that is missing,   *)
(* and nothing but that commit changes either.                             *)
(***************************************************************************)
Ran     == \A v \in 1 .. Migrations : db.ran[v] = IF v \in db.recorded THEN 1 ELSE 0
Reached == main \notin Starting => db.recorded = 1 .. Migrations
Passed  == main \in {"rename", "renamed", "count", "import"} => db.recorded = 1 .. Migrations
SchemaInv == TypeInv /\ Ran /\ Reached /\ Passed

LEMMA ConsoleSchema ==
  ASSUME TypeInv, NEW p \in Procs, Console(p)
  PROVE  db'.ran = db.ran /\ db'.recorded = db.recorded
<1>1. db \in Database
  BY TypeParts DEF TypeInv, Sound
<1> QED
  BY <1>1 DEF Console, SaveConfig, DeleteConfig, CreateUser, UpdateUser, Simple, Statement, Database

LEMMA HandleSchema ==
  ASSUME TypeInv, NEW p \in Procs, Handle(p)
  PROVE  db'.ran = db.ran /\ db'.recorded = db.recorded
<1>1. /\ db \in Database /\ work \in Database /\ work.ran = db.ran
      /\ work.recorded = db.recorded
  BY TypeParts, HandlerUp DEF TypeInv, Sound, Copied
<1>2. CASE LoginStep(p) \/ (\E u \in Ids : DeleteUser(p, u)) \/ Bootstrap(p) \/ ReadRole(p)
  BY <1>2 DEF LoginStep, Login, Authenticate, Failure, Success, DeleteUser, Bootstrap, ReadRole
<1>3. CASE InsertAdmin(p)
  BY <1>1, <1>3 DEF InsertAdmin, Commit, Database
<1>4. CASE CreateSession(p) \/ RemoveUser(p)
  BY <1>1, <1>4 DEF CreateSession, RemoveUser, Statement, Database
<1>5. CASE Restore(p)
  BY <1>5 DEF Restore, Within
<1>6. CASE InsertConfigs(p)
  BY <1>1, <1>6 DEF InsertConfigs, Commit, Inserted, Rollback, Database
<1> QED
  BY <1>2, <1>3, <1>4, <1>5, <1>6, ConsoleSchema, HandleCases

LEMMA OtherSchema ==
  ASSUME TypeInv, [Next]_vars, ~ Record
  PROVE  db'.ran = db.ran /\ db'.recorded = db.recorded
<1>1. /\ db \in Database /\ work \in Database /\ work.recorded = db.recorded
      /\ main # "record" => work.ran = db.ran
  BY TypeParts DEF TypeInv, Sound, Copied
<1>2. CASE RenameDelete \/ RenameUpdate
  BY <1>1, <1>2 DEF RenameDelete, RenameUpdate, Within, Commit, Database
<1>3. CASE Start \/ Migrate \/ ImportStart
  BY <1>3 DEF Start, Migrate, ImportStart, Within
<1>4. CASE ImportSave
  BY <1>1, <1>4 DEF ImportSave, Statement, Database
<1>5. CASE Crash \/ Lapse \/ UNCHANGED vars
  BY <1>5 DEF Crash, Rollback, Lapse, vars
<1>6. CASE \E u \in Ids : EndSession(u)
  BY <1>1, <1>6 DEF EndSession, Statement, Database
<1> QED
  BY <1>2, <1>3, <1>4, <1>5, <1>6, HandleSchema DEF Next, StartUp

LEMMA RecordStep ==
  ASSUME SchemaInv, Record
  PROVE  Ran'
<1>1. /\ Sound(db) /\ work \in Database /\ db.ran \in [1 .. Migrations -> Nat]
      /\ work.ran \in [1 .. Migrations -> Nat] /\ work.recorded = db.recorded
  BY TypeParts DEF SchemaInv, TypeInv, Sound, Copied, Database
<1>2. PICK v \in Missing : Lowest(v) /\ Commit([work EXCEPT !.recorded = @ \cup {v}])
  BY DEF Record
<1>3. PICK w \in Missing : Lowest(w) /\ work.ran = [db.ran EXCEPT ![w] = @ + 1]
  BY DEF Record, SchemaInv, TypeInv, Copied
<1>4. v = w /\ v \in 1 .. Migrations /\ v \notin db.recorded
  BY <1>2, <1>3 DEF Lowest, Missing
<1>5. db'.ran = work.ran /\ db'.recorded = db.recorded \cup {v}
  BY <1>1, <1>2 DEF Commit, Database
<1>6. db.ran[v] = 0
  BY <1>4 DEF SchemaInv, Ran
<1>7. \A x \in 1 .. Migrations : db'.ran[x] = IF x = v THEN 1 ELSE db.ran[x]
  <2>1. work.ran = [db.ran EXCEPT ![v] = db.ran[v] + 1] /\ db.ran[v] + 1 = 1
    BY <1>3, <1>4, <1>6
  <2>2. work.ran = [db.ran EXCEPT ![v] = 1]
    BY <2>1
  <2> QED
    BY <1>1, <1>5, <2>2
<1> QED
  BY <1>4, <1>5, <1>7 DEF SchemaInv, Ran

LEMMA MainStep ==
  ASSUME TypeInv, [Next]_vars, main' \notin {"down", "migrate", "record"}
  PROVE  \/ main = "migrate" /\ Missing = {} /\ ~ Record
         \/ main \notin {"down", "migrate", "record"} /\ ~ Record
<1>1. CASE StartUp
  BY <1>1 DEF StartUp, Start, Migrate, Record, RenameDelete, RenameUpdate, ImportStart, ImportSave
<1>2. CASE Crash \/ Lapse \/ UNCHANGED vars \/ \E u \in Ids : EndSession(u)
  BY <1>2 DEF Crash, Lapse, EndSession, startVars, vars, Record
<1>3. ASSUME NEW p \in Procs, Handle(p)
      PROVE  main = "up"
  BY <1>3, HandlerUp DEF TypeInv
<1> QED
  BY <1>1, <1>2, <1>3 DEF Next, Record

LEMMA SchemaStep == SchemaInv /\ [Next]_vars => SchemaInv'
<1> SUFFICES ASSUME SchemaInv, [Next]_vars PROVE SchemaInv'
  OBVIOUS
<1>0. /\ TypeInv /\ TypeInv' /\ db.recorded \subseteq 1 .. Migrations
      /\ main \in Starting \cup {"up"} /\ main' \in Starting \cup {"up"}
  BY TypeStep, TypeParts DEF SchemaInv, TypeInv, TypeOK, Sound, Database
<1>1. Ran'
  BY <1>0, OtherSchema, RecordStep DEF SchemaInv, Ran
<1>2. main' \notin {"down", "migrate", "record"} => db'.recorded = 1 .. Migrations
  <2> SUFFICES ASSUME main' \notin {"down", "migrate", "record"}
               PROVE  db'.recorded = 1 .. Migrations
    OBVIOUS
  <2>1. db.recorded = 1 .. Migrations /\ ~ Record
    BY <1>0, MainStep DEF SchemaInv, Reached, Passed, Missing, Starting
  <2> QED
    BY <1>0, <2>1, OtherSchema
<1> QED
  BY <1>0, <1>1, <1>2 DEF SchemaInv, Reached, Passed, Starting

LEMMA SchemaInit == Init => SchemaInv
<1> SUFFICES ASSUME Init PROVE SchemaInv
  OBVIOUS
<1>1. PICK n \in 0 .. Migrations :
        /\ db.ran = [v \in 1 .. Migrations |-> IF v <= n THEN 1 ELSE 0]
        /\ db.recorded = 1 .. n
  BY DEF Init
<1>2. Ran
  BY <1>1, FromAssumptions DEF Ran, Assumptions
<1> QED
  BY <1>2, TypeInit DEF Init, SchemaInv, Reached, Passed, Starting

(* RunMigrations: each script runs once, and a process that is up has run   *)
(* them all, with a crash between any two steps and from any earlier        *)
(* version's file.                                                          *)
THEOREM ScriptsRunOnce == Spec => []MigratedOnce
<1>1. SchemaInv => MigratedOnce
  BY DEF SchemaInv, Ran, Reached, MigratedOnce
<1> QED
  BY <1>1, SchemaInit, SchemaStep, PTL DEF Spec

-----------------------------------------------------------------------------
(***************************************************************************)
(* BootstrapFirstUser: the transaction that has counted no user is the only*)
(* one that can add the first.                                             *)
(***************************************************************************)
NoneYet == \A p \in Procs : pc[p] = "insert" => \A u \in Ids : db.users[u] = None

\* Only a handler's step changes the users, and then every other handler
\* that is deleting a user is overtaken.
LEMMA UsersStep ==
  ASSUME TypeInv, NEW p \in Procs, Handle(p)
  PROVE  \/ db'.users = db.users
         \/ Noted(p) /\ pc'[p] \notin {"role", "delete", "insert"} /\ conn' = None
<1>1. /\ db \in Database /\ work \in Database /\ CallOK /\ conn \in Procs \cup {None}
      /\ work.users = db.users /\ Alone
  BY TypeParts DEF TypeInv, Sound, Copied
<1>2. CASE LoginStep(p) \/ (\E u \in Ids : DeleteUser(p, u)) \/ Bootstrap(p) \/ ReadRole(p)
  BY <1>2 DEF LoginStep, Login, Authenticate, Failure, Success, DeleteUser, Bootstrap, ReadRole
<1>3. CASE InsertAdmin(p)
  BY <1>1, <1>3 DEF InsertAdmin, Goto, CallOK
<1>4. CASE CreateSession(p)
  BY <1>1, <1>4 DEF CreateSession, Statement, Database
<1>5. CASE RemoveUser(p)
  BY <1>1, <1>5 DEF RemoveUser, Statement, EndDelete, Goto, CallOK
<1>6. CASE Restore(p)
  BY <1>6 DEF Restore, Within
<1>7. CASE InsertConfigs(p)
  BY <1>1, <1>7 DEF InsertConfigs, Commit, Inserted, Rollback, Database
<1>8. CASE Console(p)
  <2>1. CASE \E t \in Types : DeleteConfig(p, t) \/ \E v \in Values \ {0} : SaveConfig(p, t, v)
    BY <1>1, <2>1 DEF DeleteConfig, SaveConfig, Simple, Statement, Database
  <2>2. CASE \/ \E r \in Roles : CreateUser(p, r)
             \/ \E u \in Ids, r \in Roles, e \in BOOLEAN : UpdateUser(p, u, r, e)
    <3>1. Noted(p) /\ pc[p] = "idle" /\ conn = None /\ UNCHANGED <<conn, pc>>
      BY <2>2 DEF CreateUser, UpdateUser, Simple, Request, Statement
    <3> QED
      BY <3>1
  <2> QED
    BY <1>8, <2>1, <2>2 DEF Console
<1> QED
  BY <1>2, <1>3, <1>4, <1>5, <1>6, <1>7, <1>8, HandleCases

LEMMA OtherUsers ==
  ASSUME TypeInv, StartUp \/ Crash \/ Lapse \/ (\E u \in Ids : EndSession(u)) \/ UNCHANGED vars
  PROVE  db'.users = db.users
<1>1. db \in Database /\ work \in Database /\ work.users = db.users
  BY TypeParts DEF TypeInv, Sound, Copied
<1>2. CASE Start \/ Migrate \/ RenameDelete \/ ImportStart
  BY <1>2 DEF Start, Migrate, RenameDelete, ImportStart, Within
<1>3. CASE Record \/ RenameUpdate
  BY <1>1, <1>3 DEF Record, RenameUpdate, Commit, Database
<1>4. CASE ImportSave \/ \E u \in Ids : EndSession(u)
  BY <1>1, <1>4 DEF ImportSave, EndSession, Statement, Database
<1>5. CASE Crash \/ Lapse \/ UNCHANGED vars
  BY <1>5 DEF Crash, Rollback, Lapse, vars
<1> QED
  BY <1>2, <1>3, <1>4, <1>5 DEF StartUp

\* The steps outside the handlers leave every handler alone, or end it.
LEMMA OtherPc ==
  ASSUME StartUp \/ Crash \/ Lapse \/ (\E u \in Ids : EndSession(u)) \/ UNCHANGED vars
  PROVE  UNCHANGED callVars \/ pc' = [p \in Procs |-> "idle"]
BY DEF StartUp, Start, Migrate, Record, RenameDelete, RenameUpdate, ImportStart, ImportSave,
   Crash, Lapse, EndSession, vars

LEMMA BootstrapStep == TypeInv /\ NoneYet /\ [Next]_vars => NoneYet'
<1> SUFFICES ASSUME TypeInv, NoneYet, [Next]_vars PROVE NoneYet'
  OBVIOUS
<1>0. CallOK /\ Alone /\ None \notin Procs
  BY TypeParts, FromAssumptions DEF TypeInv, Assumptions
<1>1. CASE StartUp \/ Crash \/ Lapse \/ (\E u \in Ids : EndSession(u)) \/ UNCHANGED vars
  BY <1>1, OtherUsers, OtherPc DEF NoneYet, callVars
<1>2. ASSUME NEW p \in Procs, Handle(p)
      PROVE  NoneYet'
  <2> SUFFICES ASSUME NEW q \in Procs, pc'[q] = "insert"
               PROVE  \A u \in Ids : db'.users[u] = None
    BY DEF NoneYet
  <2>1. conn' = q
    BY <1>2, HandleCalls DEF Alone
  <2>2. db'.users = db.users
    BY <1>0, <1>2, <2>1, UsersStep
  <2>3. CASE q # p
    BY <1>0, <1>2, <2>2, <2>3, Others DEF NoneYet
  <2>4. CASE q = p
    <3>1. ~ Console(p) \/ pc[p] = "insert"
      BY <1>0, <2>4, ConsoleCalls
    <3>2. ~ LoginStep(p)
      BY <1>0, <2>4, LoginCalls
    <3>3. ~ ((\E u \in Ids : DeleteUser(p, u)) \/ ReadRole(p) \/ RemoveUser(p))
      BY <1>0, <2>4, DeleteCalls
    <3>4. ~ (Restore(p) \/ InsertConfigs(p))
      BY <1>0, <2>4, RestoreCalls DEF TypeInv, TypeOK, Sound
    <3>5. ~ (InsertAdmin(p) \/ CreateSession(p))
      BY <1>0, <2>4 DEF InsertAdmin, CreateSession, Goto, CallOK
    <3>6. CASE Bootstrap(p)
      BY <1>0, <2>2, <2>4, <3>6 DEF Bootstrap, Request, Goto, CallOK
    <3> QED
      BY <1>2, <2>2, <2>4, <3>1, <3>2, <3>3, <3>4, <3>5, <3>6, HandleCases DEF NoneYet
  <2> QED
    BY <2>3, <2>4
<1> QED
  BY <1>1, <1>2 DEF Next

(* BootstrapFirstUser: a bootstrap adds a user to an empty table only, with *)
(* any number of them under way.                                            *)
THEOREM FirstUserIsFirst == Spec => OneBootstrap
<1> DEFINE A == \A p \in Procs : pc[p] = "insert" /\ pc'[p] = "session"
                                    => \A u \in Ids : db.users[u] = None
<1>1. Init => TypeInv /\ NoneYet
  BY TypeInit DEF Init, NoneYet
<1>2. TypeInv /\ NoneYet /\ [Next]_vars => (TypeInv /\ NoneYet)'
  BY TypeStep, BootstrapStep
<1>3. TypeInv /\ NoneYet /\ [Next]_vars => [A]_vars
  BY DEF NoneYet
<1> QED
  BY <1>1, <1>2, <1>3, PTL DEF Spec, OneBootstrap

-----------------------------------------------------------------------------
(***************************************************************************)
(* ImportBackup: the settings and the deletions are seen only in the       *)
(* transaction, which is committed with the configurations or not at all.  *)
(***************************************************************************)
LEMMA RestoreStep ==
  ASSUME TypeInv, [Next]_vars, NEW p \in Procs, pc'[p] # pc[p], "restore" \in {pc[p], pc'[p]}
  PROVE  \/ db'.configs = db.configs /\ db'.settings = db.settings
         \/ /\ file[p] # None /\ db'.settings = file[p].settings
            /\ \A t \in Types : db'.configs[t] = file[p].configs[t]
<1>0. /\ CallOK /\ Sound(db) /\ Copied /\ work \in Database /\ Quiet /\ Filed
  BY TypeParts DEF TypeInv
<1>1. CASE StartUp \/ Crash \/ Lapse \/ (\E u \in Ids : EndSession(u)) \/ UNCHANGED vars
  <2>1. Crash
    <3>1. CASE StartUp
      <4>1. UNCHANGED callVars
        BY <3>1 DEF StartUp, Start, Migrate, Record, RenameDelete, RenameUpdate, ImportStart,
           ImportSave
      <4> QED
        BY <4>1 DEF callVars
    <3>2. CASE Lapse \/ (\E u \in Ids : EndSession(u)) \/ UNCHANGED vars
      BY <3>2 DEF Lapse, EndSession, vars, callVars
    <3> QED
      BY <1>1, <3>1, <3>2
  <2> QED
    BY <2>1 DEF Crash, Rollback
<1>2. ASSUME NEW q \in Procs, Handle(q)
      PROVE  \/ db'.configs = db.configs /\ db'.settings = db.settings
             \/ /\ file[p] # None /\ db'.settings = file[p].settings
                /\ \A t \in Types : db'.configs[t] = file[p].configs[t]
  <2>1. p = q
    BY <1>0, <1>2, Others
  <2>2. CASE Console(q)
    BY <1>0, <2>1, <2>2, ConsoleCalls
  <2>3. CASE LoginStep(q)
    BY <1>0, <2>1, <2>3, LoginCalls
  <2>4. CASE (\E u \in Ids : DeleteUser(q, u)) \/ ReadRole(q) \/ RemoveUser(q)
    BY <1>0, <2>1, <2>4, DeleteCalls
  <2>5. CASE Bootstrap(q) \/ InsertAdmin(q) \/ CreateSession(q)
    BY <1>0, <2>1, <2>5, BootstrapCalls
  <2>6. CASE Restore(q)
    BY <2>6 DEF Restore, Within
  <2>7. CASE InsertConfigs(q) /\ Rollback
    BY <2>7 DEF Rollback
  <2>8. CASE InsertConfigs(q) /\ Commit(Inserted(file[q]))
    <3>1. /\ file[q] \in Backups /\ work.settings = file[q].settings
      BY <1>0, <2>8 DEF InsertConfigs, Filed
    <3>2. None \notin Backups
      BY FromAssumptions DEF Assumptions
    <3>3. /\ db'.settings = work.settings
          /\ db'.configs = [t \in AllTypes |->
                              IF t \in Types THEN file[q].configs[t] ELSE work.configs[t]]
      BY <1>0, <2>8 DEF Commit, Inserted, Database
    <3> QED
      BY <2>1, <3>1, <3>2, <3>3, Bounds
  <2> QED
    BY <1>2, <2>2, <2>3, <2>4, <2>5, <2>6, <2>7, <2>8, HandleCases DEF InsertConfigs
<1> QED
  BY <1>1, <1>2 DEF Next

(* ImportBackup: on the disk a restore has happened as a whole or not at    *)
(* all, whichever step the process stops at.                                *)
THEOREM RestoreIsAtomic == Spec => AllOrNothing
<1> DEFINE A == \A p \in Procs : pc'[p] # pc[p] /\ "restore" \in {pc[p], pc'[p]} =>
                  \/ db'.configs = db.configs /\ db'.settings = db.settings
                  \/ /\ file[p] # None /\ db'.settings = file[p].settings
                     /\ \A t \in Types : db'.configs[t] = file[p].configs[t]
<1>1. TypeInv /\ [Next]_vars => [A]_vars
  BY RestoreStep
<1> QED
  BY <1>1, TypeInit, TypeStep, PTL DEF Spec, AllOrNothing

-----------------------------------------------------------------------------
(***************************************************************************)
(* DeleteUser: what was counted is still so until a handler is overtaken,  *)
(* and so is the role that was read.                                       *)
(***************************************************************************)
CountHolds ==
  \A p \in Procs : pc[p] \in {"role", "delete"} /\ ~ overtaken[p] =>
    /\ counted[p] = Cardinality(Admins)
    /\ pc[p] = "delete" => \/ counted[p] > 1
                           \/ db.users[target[p]].role # "admin"

\* overtaken changes where a handler begins or ends its own deletion, or
\* where one has changed the users.
LEMMA OvertakenStep ==
  ASSUME CallOK, NEW p \in Procs, Handle(p)
  PROVE  \/ UNCHANGED overtaken
         \/ Noted(p)
         \/ (\E u \in Ids : DeleteUser(p, u)) /\ overtaken' = [overtaken EXCEPT ![p] = FALSE]
         \/ ReadRole(p) /\ pc'[p] = "idle" /\ overtaken' = [overtaken EXCEPT ![p] = FALSE]
<1>1. CASE Console(p)
  BY <1>1 DEF Console, SaveConfig, DeleteConfig, CreateUser, UpdateUser
<1>2. CASE LoginStep(p)
  BY <1>2 DEF LoginStep, Login, Authenticate, Failure, Success
<1>3. CASE \E u \in Ids : DeleteUser(p, u)
  BY <1>3 DEF DeleteUser
<1>4. CASE ReadRole(p)
  BY <1>4, EndCalls DEF ReadRole
<1>5. CASE RemoveUser(p) \/ Bootstrap(p) \/ InsertAdmin(p) \/ CreateSession(p)
  BY <1>5 DEF RemoveUser, Bootstrap, InsertAdmin, CreateSession
<1>6. CASE Restore(p) \/ InsertConfigs(p)
  BY <1>6 DEF Restore, InsertConfigs
<1> QED
  BY <1>1, <1>2, <1>3, <1>4, <1>5, <1>6, HandleCases

LEMMA SameAdmins ==
  ASSUME db'.users = db.users
  PROVE  Admins' = Admins
BY DEF Admins, Enabled

LEMMA CountStep == TypeInv /\ CountHolds /\ [Next]_vars => CountHolds'
<1> SUFFICES ASSUME TypeInv, CountHolds, [Next]_vars PROVE CountHolds'
  OBVIOUS
<1>0. CallOK /\ CallOK' /\ Sound(db)
  BY TypeStep, TypeParts DEF TypeInv, TypeOK, CallOK
<1>1. CASE StartUp \/ Crash \/ Lapse \/ (\E u \in Ids : EndSession(u)) \/ UNCHANGED vars
  <2>1. CASE UNCHANGED callVars
    BY <1>1, <2>1, OtherUsers, SameAdmins DEF CountHolds, callVars
  <2>2. CASE pc' = [p \in Procs |-> "idle"]
    BY <2>2 DEF CountHolds
  <2> QED
    BY <1>1, <2>1, <2>2, OtherPc
<1>2. ASSUME NEW p \in Procs, Handle(p)
      PROVE  CountHolds'
  <2> SUFFICES ASSUME NEW q \in Procs, pc'[q] \in {"role", "delete"}, ~ overtaken'[q]
               PROVE  /\ counted'[q] = Cardinality(Admins')
                      /\ pc'[q] = "delete" => \/ counted'[q] > 1
                                              \/ db'.users[target'[q]].role # "admin"
    BY DEF CountHolds
  <2>1. db'.users = db.users /\ Admins' = Admins
    <3>1. CASE Noted(p) /\ pc'[p] \notin {"role", "delete"}
      <4>1. q # p /\ pc[q] \in {"role", "delete"}
        BY <1>0, <1>2, <3>1, Others
      <4> QED
        BY <3>1, <4>1 DEF Noted
    <3> QED
      BY <1>2, <3>1, UsersStep, SameAdmins
  <2>2. CASE q # p
    <3>1. /\ pc'[q] = pc[q] /\ target'[q] = target[q] /\ counted'[q] = counted[q]
      BY <1>0, <1>2, <2>2, Others
    <3>2. ~ overtaken[q]
      BY <1>0, <1>2, <2>2, OvertakenStep DEF Noted, CallOK
    <3> QED
      BY <2>1, <3>1, <3>2 DEF CountHolds
  <2>3. CASE q = p /\ \E u \in Ids : DeleteUser(p, u)
    BY <1>0, <2>1, <2>3 DEF DeleteUser, Goto, CallOK
  <2>4. CASE q = p /\ ReadRole(p)
    <3>1. ~ EndDelete(p)
      BY <1>0, <2>4, EndCalls
    <3>2. /\ pc[p] = "role" /\ ~ Refused(p) /\ UNCHANGED <<target, counted, overtaken>>
      BY <2>4, <3>1 DEF ReadRole
    <3>3. counted[p] = Cardinality(Admins) /\ counted[p] \in Nat
      BY <1>0, <2>4, <3>2, FromAssumptions DEF CountHolds, CallOK, Assumptions
    <3>4. counted[p] > 1 \/ db.users[target[p]].role # "admin"
      BY <3>2, <3>3 DEF Refused
    <3> QED
      BY <2>1, <2>4, <3>2, <3>3, <3>4
  <2>5. CASE q = p /\ ~ ReadRole(p) /\ ~ \E u \in Ids : DeleteUser(p, u)
    <3>1. ~ RemoveUser(p)
      BY <1>0, <2>5, EndCalls DEF RemoveUser
    <3>2. ~ LoginStep(p) /\ ~ (Bootstrap(p) \/ InsertAdmin(p) \/ CreateSession(p))
      BY <1>0, <2>5, LoginCalls, BootstrapCalls DEF TypeInv
    <3>3. ~ (Restore(p) \/ InsertConfigs(p))
      BY <1>0, <2>5, RestoreCalls
    <3>4. Console(p)
      BY <1>2, <2>5, <3>1, <3>2, <3>3, HandleCases
    <3>5. pc[p] = "idle"
      BY <3>4 DEF Console, SaveConfig, DeleteConfig, CreateUser, UpdateUser, Simple, Request
    <3> QED
      BY <1>0, <2>5, <3>4, <3>5, ConsoleCalls
  <2> QED
    BY <2>2, <2>3, <2>4, <2>5
<1> QED
  BY <1>1, <1>2 DEF Next

LEMMA RemovalStep ==
  ASSUME TypeInv, CountHolds, [Next]_vars, NEW p \in Procs, pc[p] = "delete", pc'[p] = "idle",
         main' = "up", Admins # {}, Admins' = {}
  PROVE  overtaken[p]
<1>0. CallOK /\ Sound(db) /\ db \in Database /\ target[p] \in Ids
  BY TypeParts DEF TypeInv, Sound, Targets
<1> SUFFICES ASSUME ~ overtaken[p] PROVE FALSE
  OBVIOUS
<1>1. counted[p] = Cardinality(Admins)
      /\ (counted[p] > 1 \/ db.users[target[p]].role # "admin")
  BY DEF CountHolds
<1>2. ~ Crash /\ ~ StartUp /\ ~ Lapse /\ ~ (\E u \in Ids : EndSession(u)) /\ ~ UNCHANGED vars
  <2>1. ~ Crash
    BY DEF Crash
  <2>2. ~ (StartUp \/ Lapse \/ (\E u \in Ids : EndSession(u)) \/ UNCHANGED vars)
    <3> SUFFICES ASSUME StartUp \/ Lapse \/ (\E u \in Ids : EndSession(u)) \/ UNCHANGED vars
                 PROVE  FALSE
      OBVIOUS
    <3>1. db'.users = db.users
      BY OtherUsers
    <3> QED
      BY <3>1, SameAdmins
  <2> QED
    BY <2>1, <2>2
<1>3. PICK q \in Procs : Handle(q)
  BY <1>2 DEF Next
<1>4. q = p
  BY <1>0, <1>3, Others
<1>5. RemoveUser(p)
  <2>1. db'.users # db.users
    BY SameAdmins
  <2>2. ~ (LoginStep(p) \/ (\E u \in Ids : DeleteUser(p, u)) \/ Bootstrap(p) \/ ReadRole(p))
    BY <2>1 DEF LoginStep, Login, Authenticate, Failure, Success, DeleteUser, Bootstrap, ReadRole
  <2>3. ~ (InsertAdmin(p) \/ CreateSession(p) \/ Restore(p) \/ InsertConfigs(p))
    BY DEF InsertAdmin, CreateSession, Restore, Request, InsertConfigs
  <2>4. ~ Console(p)
    BY DEF Console, SaveConfig, DeleteConfig, CreateUser, UpdateUser, Simple, Request
  <2> QED
    BY <1>3, <1>4, <2>2, <2>3, <2>4, HandleCases
<1>6. \A u \in Ids : u # target[p] => db'.users[u] = db.users[u]
  BY <1>0, <1>5 DEF RemoveUser, Statement, Database
<1>7. Admins \subseteq {target[p]}
  <2> SUFFICES ASSUME NEW u \in Admins, u # target[p]
               PROVE  FALSE
    OBVIOUS
  <2>1. u \in Ids /\ db'.users[u] = db.users[u]
    BY <1>6 DEF Admins
  <2>2. u \in Admins'
    BY <2>1 DEF Admins, Enabled
  <2> QED
    BY <2>2
<1>8. target[p] \in Admins /\ db.users[target[p]].role = "admin"
  BY <1>7 DEF Admins
<1>9. Admins = {target[p]}
  BY <1>7, <1>8
<1>10. Cardinality(Admins) = 1
  BY <1>9, FS_Singleton
<1> QED
  BY <1>1, <1>8, <1>10

(* DeleteUser: a deletion takes the last enabled administrator only if      *)
(* another handler changed the users after it had counted them.             *)
THEOREM LastAdminIsKept == Spec => LastAdminStays
<1> DEFINE A == \A p \in Procs : pc[p] = "delete" /\ pc'[p] = "idle" /\ main' = "up"
                                    /\ Admins # {} /\ Admins' = {} => overtaken[p]
<1>1. Init => TypeInv /\ CountHolds
  BY TypeInit DEF Init, CountHolds
<1>2. TypeInv /\ CountHolds /\ [Next]_vars => (TypeInv /\ CountHolds)'
  BY TypeStep, CountStep
<1>3. TypeInv /\ CountHolds /\ [Next]_vars => [A]_vars
  BY RemovalStep
<1> QED
  BY <1>1, <1>2, <1>3, PTL DEF Spec, LastAdminStays

-----------------------------------------------------------------------------
(***************************************************************************)
(* loginLimiter: each wrong password that is not yet counted is that of a  *)
(* handler on its way to count it, and the lock stops new ones, so that    *)
(* what is past the threshold were under way with the one that locked.     *)
(***************************************************************************)
At(l) == {p \in Procs : pc[p] = l}
TriesHold ==
  IF locked THEN failures = Threshold /\ tries + Cardinality(At("auth")) < Threshold + Cardinality(Procs)
  ELSE tries <= Cardinality(At("failure")) + IF failures < Threshold THEN failures ELSE 0

LEMMA AtFinite ==
  ASSUME NEW l
  PROVE  IsFiniteSet(At(l)) /\ Cardinality(At(l)) \in Nat /\ Cardinality(Procs) \in Nat
<1>1. At(l) \subseteq Procs
  BY DEF At
<1> QED
  BY <1>1, FS_Subset, FS_CardinalityType, FromAssumptions DEF Assumptions

LEMMA AtDisjoint ==
  Cardinality(At("auth")) + Cardinality(At("failure")) <= Cardinality(Procs)
<1>1. At("auth") \cap At("failure") = {} /\ At("auth") \cup At("failure") \subseteq Procs
  BY DEF At
<1>2. /\ IsFiniteSet(At("auth") \cup At("failure"))
      /\ Cardinality(At("auth") \cup At("failure")) <= Cardinality(Procs)
  BY <1>1, FS_Subset, FromAssumptions DEF Assumptions
<1>3. Cardinality(At("auth") \cup At("failure")) = Cardinality(At("auth"))
        + Cardinality(At("failure")) - Cardinality(At("auth") \cap At("failure"))
  BY AtFinite, FS_Union
<1>4. Cardinality(At("auth") \cap At("failure")) = 0
  BY <1>1, FS_EmptySet
<1> QED
  BY <1>2, <1>3, <1>4, AtFinite

LEMMA Joins ==
  ASSUME CallOK, NEW p \in Procs, NEW l, pc[p] # l, Goto(p, l)
  PROVE  Cardinality(At(l)') = Cardinality(At(l)) + 1
<1>1. At(l)' = At(l) \cup {p} /\ p \notin At(l)
  BY DEF At, Goto, CallOK
<1> QED
  BY <1>1, AtFinite, FS_AddElement

LEMMA Leaves ==
  ASSUME CallOK, NEW p \in Procs, NEW l, NEW m, pc[p] = l, m # l, Goto(p, m)
  PROVE  Cardinality(At(l)') = Cardinality(At(l)) - 1
<1>1. At(l)' = At(l) \ {p} /\ p \in At(l)
  BY DEF At, Goto, CallOK
<1> QED
  BY <1>1, AtFinite, FS_RemoveElement

LEMMA Stays ==
  ASSUME CallOK, NEW p \in Procs, NEW l, NEW m, pc[p] # l, m # l, Goto(p, m)
  PROVE  At(l)' = At(l)
BY DEF At, Goto, CallOK

\* A step that is none of a login leaves both groups as they are.
LEMMA OtherHandlers ==
  ASSUME TypeInv, NEW p \in Procs, Handle(p), ~ LoginStep(p)
  PROVE  At("auth")' = At("auth") /\ At("failure")' = At("failure") /\ UNCHANGED loginVars
<1>0. CallOK /\ CallOK' /\ Sound(db) /\ Copied
  BY HandleCalls, TypeParts DEF TypeInv
<1>1. CASE Console(p)
  BY <1>0, <1>1, ConsoleCalls DEF At, Console, SaveConfig, DeleteConfig, CreateUser, UpdateUser, Simple
<1>2. CASE (\E u \in Ids : DeleteUser(p, u)) \/ ReadRole(p) \/ RemoveUser(p)
  <2>1. pc[p] \notin {"auth", "failure"} /\ pc'[p] \notin {"auth", "failure"}
    BY <1>0, <1>2, DeleteCalls
  <2>2. \A q \in Procs : q # p => pc'[q] = pc[q]
    BY <1>0, Others
  <2>3. UNCHANGED loginVars
    BY <1>2 DEF DeleteUser, ReadRole, RemoveUser
  <2> QED
    BY <2>1, <2>2, <2>3 DEF At
<1>3. CASE Bootstrap(p) \/ InsertAdmin(p) \/ CreateSession(p)
  <2>1. pc[p] \notin {"auth", "failure"} /\ pc'[p] \notin {"auth", "failure"}
    BY <1>0, <1>3, BootstrapCalls
  <2>2. \A q \in Procs : q # p => pc'[q] = pc[q]
    BY <1>0, Others
  <2>3. UNCHANGED loginVars
    BY <1>3 DEF Bootstrap, InsertAdmin, CreateSession
  <2> QED
    BY <2>1, <2>2, <2>3 DEF At
<1>4. CASE Restore(p) \/ InsertConfigs(p)
  <2>1. pc[p] \notin {"auth", "failure"} /\ pc'[p] \notin {"auth", "failure"}
    BY <1>0, <1>4, RestoreCalls
  <2>2. \A q \in Procs : q # p => pc'[q] = pc[q]
    BY <1>0, Others
  <2>3. UNCHANGED loginVars
    BY <1>4 DEF Restore, InsertConfigs
  <2> QED
    BY <2>1, <2>2, <2>3 DEF At
<1> QED
  BY <1>1, <1>2, <1>3, <1>4, HandleCases

LEMMA LoginTries ==
  ASSUME TypeInv, TriesHold, NEW p \in Procs, LoginStep(p)
  PROVE  TriesHold'
<1> DEFINE A == Cardinality(At("auth"))
           F == Cardinality(At("failure"))
           N == Cardinality(Procs)
<1>0. /\ CallOK /\ LoginOK /\ Threshold \in Nat \ {0} /\ failures \in 0 .. Threshold /\ tries \in Nat
      /\ A \in Nat /\ F \in Nat /\ N \in Nat /\ A + F <= N
  BY TypeParts, FromAssumptions, AtFinite, AtDisjoint DEF TypeInv, LoginOK, Assumptions
<1>1. IF locked THEN failures = Threshold /\ tries + A < Threshold + N
      ELSE tries <= F + IF failures < Threshold THEN failures ELSE 0
  BY DEF TriesHold
<1>2. ASSUME IF locked' THEN failures' = Threshold /\ tries' + A' < Threshold + N
             ELSE tries' <= F' + IF failures' < Threshold THEN failures' ELSE 0
      PROVE  TriesHold'
  BY <1>2 DEF TriesHold
<1>3. CASE Login(p)
  <2>1. UNCHANGED <<locked, failures, tries>>
    BY <1>3 DEF Login, loginVars
  <2>2. F' = F
    BY <1>0, <1>3, Stays DEF Login
  <2>3. CASE locked
    <3>1. A' = A
      BY <1>0, <1>3, <2>3, Stays DEF Login
    <3> QED
      BY <1>1, <1>2, <2>1, <2>3, <3>1
  <2>4. CASE ~ locked
    BY <1>1, <1>2, <2>1, <2>2, <2>4
  <2> QED
    BY <2>3, <2>4
<1>4. CASE Authenticate(p)
  <2>1. pc[p] = "auth" /\ UNCHANGED <<locked, failures>>
    BY <1>4 DEF Authenticate
  <2>2. CASE Goto(p, "success") /\ UNCHANGED tries
    <3>1. A' = A - 1 /\ F' = F
      BY <1>0, <2>1, <2>2, Leaves, Stays
    <3> HIDE DEF A, F, N
    <3>2. CASE locked
      BY <1>0, <1>1, <1>2, <2>1, <2>2, <3>1, <3>2
    <3>3. CASE ~ locked
      BY <1>0, <1>1, <1>2, <2>1, <2>2, <3>1, <3>3
    <3> QED
      BY <3>2, <3>3
  <2>3. CASE Goto(p, "failure") /\ tries' = tries + 1
    <3>1. A' = A - 1 /\ F' = F + 1
      BY <1>0, <2>1, <2>3, Leaves, Joins
    <3> HIDE DEF A, F, N
    <3>2. CASE locked
      BY <1>0, <1>1, <1>2, <2>1, <2>3, <3>1, <3>2
    <3>3. CASE ~ locked
      BY <1>0, <1>1, <1>2, <2>1, <2>3, <3>1, <3>3
    <3> QED
      BY <3>2, <3>3
  <2> QED
    BY <1>4, <2>2, <2>3 DEF Authenticate
<1>5. CASE Failure(p)
  <2>1. /\ pc[p] = "failure" /\ Goto(p, "idle") /\ tries' = tries
        /\ failures' = IF failures < Threshold THEN failures + 1 ELSE failures
        /\ locked' <=> failures' >= Threshold
    BY <1>5 DEF Failure
  <2>2. A' = A /\ F' = F - 1
    BY <1>0, <2>1, Leaves, Stays
  <2>3. locked => locked' /\ failures' = Threshold
    BY <1>0, <1>1, <2>1
  <2> HIDE DEF A, F, N
  <2>4. CASE locked
    BY <1>0, <1>1, <1>2, <2>1, <2>2, <2>3, <2>4
  <2>5. CASE ~ locked /\ failures' >= Threshold
    <3>1. tries <= F + (Threshold - 1) /\ failures' = Threshold /\ locked'
      BY <1>0, <1>1, <2>1, <2>5
    <3>2. tries' + A' < Threshold + N
      BY <1>0, <2>1, <2>2, <3>1
    <3> QED
      BY <1>2, <3>1, <3>2
  <2>6. CASE ~ locked /\ ~ failures' >= Threshold
    <3>1. tries <= F + failures /\ failures' = failures + 1 /\ failures' < Threshold /\ ~ locked'
      BY <1>0, <1>1, <2>1, <2>6
    <3> QED
      BY <1>0, <1>2, <2>1, <2>2, <3>1
  <2> QED
    BY <2>4, <2>5, <2>6
<1>6. CASE Success(p)
  <2>1. F' = F /\ failures' = 0 /\ ~ locked' /\ tries' = 0
    BY <1>0, <1>6, Stays DEF Success
  <2> HIDE DEF A, F, N
  <2> QED
    BY <1>0, <1>2, <2>1
<1> QED
  BY <1>3, <1>4, <1>5, <1>6 DEF LoginStep

LEMMA TriesStep == TypeInv /\ TriesHold /\ [Next]_vars => TriesHold'
<1> SUFFICES ASSUME TypeInv, TriesHold, [Next]_vars PROVE TriesHold'
  OBVIOUS
<1>0. CallOK /\ LoginOK /\ Threshold \in Nat \ {0}
  BY TypeParts, FromAssumptions DEF TypeInv, Assumptions
<1>1. ASSUME NEW p \in Procs, Handle(p)
      PROVE  TriesHold'
  <2>1. CASE LoginStep(p)
    BY <2>1, LoginTries
  <2>2. CASE ~ LoginStep(p)
    BY <1>1, <2>2, OtherHandlers DEF TriesHold, loginVars
  <2> QED
    BY <2>1, <2>2
<1>2. CASE UNCHANGED <<pc, loginVars>>
  BY <1>2 DEF TriesHold, loginVars, At
<1>3. CASE Crash
  <2>1. failures' = 0 /\ ~ locked' /\ tries' = 0 /\ At("failure")' = {}
    BY <1>3 DEF Crash, At
  <2> QED
    BY <1>0, <2>1, FS_EmptySet DEF TriesHold
<1>4. CASE Lapse
  <2>1. UNCHANGED <<pc, failures>> /\ ~ locked' /\ tries' = 0
    BY <1>4 DEF Lapse, callVars
  <2>2. At("failure")' = At("failure")
    BY <2>1 DEF At
  <2>3. Cardinality(At("failure")) \in Nat
    BY AtFinite
  <2>4. failures \in Nat
    BY <1>0 DEF LoginOK
  <2> QED
    BY <2>1, <2>2, <2>3, <2>4 DEF TriesHold
<1>5. CASE StartUp \/ (\E u \in Ids : EndSession(u)) \/ UNCHANGED vars
  <2>1. UNCHANGED <<pc, loginVars>>
    BY <1>5 DEF StartUp, Start, Migrate, Record, RenameDelete, RenameUpdate, ImportStart, ImportSave,
       EndSession, vars, callVars
  <2> QED
    BY <1>2, <2>1
<1> QED
  BY <1>1, <1>3, <1>4, <1>5 DEF Next

(* loginLimiter: at most one wrong password over the threshold for each     *)
(* other handler is looked at before a lock-out, with the look and the      *)
(* count of each login apart.                                               *)
THEOREM FewTries == Spec => []TriesBounded
<1>1. Init => TypeInv /\ TriesHold
  <2> SUFFICES ASSUME Init PROVE TriesHold
    BY TypeInit
  <2>1. At("failure") = {} /\ failures = 0 /\ ~ locked /\ tries = 0
    BY DEF Init, At
  <2> QED
    BY <2>1, FS_EmptySet, FromAssumptions DEF TriesHold, Assumptions
<1>2. TypeInv /\ TriesHold /\ [Next]_vars => (TypeInv /\ TriesHold)'
  BY TypeStep, TriesStep
<1>3. TypeInv /\ TriesHold => TriesBounded
  <2> SUFFICES ASSUME TypeInv, TriesHold PROVE TriesBounded
    OBVIOUS
  <2> DEFINE A == Cardinality(At("auth"))
             F == Cardinality(At("failure"))
             N == Cardinality(Procs)
  <2>1. /\ Threshold \in Nat \ {0} /\ failures \in 0 .. Threshold /\ tries \in Nat
        /\ A \in Nat /\ F \in Nat /\ N \in Nat /\ A + F <= N
    BY TypeParts, FromAssumptions, AtFinite, AtDisjoint DEF TypeInv, LoginOK, Assumptions
  <2>2. IF locked THEN failures = Threshold /\ tries + A < Threshold + N
        ELSE tries <= F + IF failures < Threshold THEN failures ELSE 0
    BY DEF TriesHold
  <2> HIDE DEF A, F, N
  <2>3. tries < Threshold + N
    BY <2>1, <2>2
  <2> QED
    BY <2>3 DEF TriesBounded, N
<1> QED
  BY <1>1, <1>2, <1>3, PTL DEF Spec
=============================================================================
