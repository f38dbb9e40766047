-------------------------------- MODULE Store --------------------------------
(***************************************************************************)
(* The SQLite store: the migrations of a start, the import of the legacy   *)
(* configuration file, and the handlers of the console for users, logins   *)
(* and restores.                                                           *)
(*                                                                         *)
(* There is one connection (MaxOpenConns 1): a transaction excludes every  *)
(* other statement, and what it has not committed is lost in a crash.      *)
(* AUTOINCREMENT never gives an id twice; a deleted user's sessions go     *)
(* with the row (ON DELETE CASCADE).                                       *)
(*                                                                         *)
(* Abstracted: passwords (a login has the right one or not), the number of *)
(* sessions of a user, the length of a lock-out, one client address, the   *)
(* role of viewers, who change nothing here.  A configuration, one of each *)
(* type, and the settings are versions; 0 is none.                         *)
(***************************************************************************)
EXTENDS Naturals, FiniteSets

CONSTANTS
  Procs, None,
  Migrations,     \* the versions of the schema are 1 .. Migrations
  ConfigsFrom, UsersFrom,  \* the versions that create these tables
  Types,          \* backupModuleTypes
  OldType, NewType,  \* what MigrateModuleType renames, and to what
  MaxVersion, MaxUsers,
  Legacy,         \* the types config.yaml has a configuration of
  Backups,        \* the files a user may restore
  WebToken,       \* a legacy web token is configured
  Threshold,      \* failures after which a login is locked out (5)
  MaxOps          \* bound on the requests of a behaviour

AllTypes == Types \cup {OldType}
Ids      == 1 .. MaxUsers
Roles    == {"admin", "operator"}
User     == [role : Roles, enabled : BOOLEAN]
Values   == 0 .. MaxVersion
Backup   == [settings : Values, configs : [Types -> Values]]

ASSUME ProcAssumption == IsFiniteSet(Procs) /\ None \notin Procs \cup User \cup Backups
ASSUME TypeAssumption == /\ NewType \in Types /\ OldType \notin Types
                         /\ Legacy \subseteq Types /\ Backups \subseteq Backup
ASSUME VersionAssumption == /\ Migrations \in Nat
                            /\ MaxUsers \in Nat \ {0} /\ MaxVersion \in Nat \ {0}
                            /\ ConfigsFrom \in 1 .. Migrations
                            /\ UsersFrom \in ConfigsFrom .. Migrations
ASSUME OtherAssumption == /\ WebToken \in BOOLEAN /\ Threshold \in Nat \ {0}
                          /\ MaxOps \in Nat

VARIABLES
  db,        \* what is committed
  work,      \* what the open transaction sees; db without one
  conn,      \* the handler that holds the connection in a transaction
  main,      \* the start of the process
  todo,      \* ImportLegacyYAML: the types still to be saved
  pc,
  file,      \* the backup a handler restores
  target,    \* the user a handler is about
  counted,   \* DeleteUser: the enabled administrators it counted
  overtaken, \* history: the users changed since then
  failures, locked,  \* loginLimiter
  tries,     \* history: wrong passwords since the last success or lapse
  ops

callVars  == <<pc, file, target, counted, overtaken>>
loginVars == <<failures, locked, tries>>
startVars == <<main, todo>>
vars == <<db, work, conn, startVars, callVars, loginVars, ops>>

-----------------------------------------------------------------------------
Database == [ran      : [1 .. Migrations -> Nat],  \* how often each script ran
             recorded : SUBSET (1 .. Migrations),
             configs  : [AllTypes -> Values], settings : Values,
             users    : [Ids -> User \cup {None}], lastId : 0 .. MaxUsers,
             sessions : SUBSET Ids]

Starting == {"down", "migrate", "record", "rename", "renamed", "count", "import"}
Calls    == {"idle", "insert", "session", "auth", "failure", "success", "role", "delete", "restore"}

TypeOK ==
  /\ db \in Database /\ work \in Database
  /\ conn \in Procs \cup {None}
  /\ main \in Starting \cup {"up"} /\ todo \subseteq Legacy
  /\ pc \in [Procs -> Calls]
  /\ file \in [Procs -> Backups \cup {None}] /\ target \in [Procs -> 0 .. MaxUsers]
  /\ counted \in [Procs -> 0 .. MaxUsers] /\ overtaken \in [Procs -> BOOLEAN]
  /\ failures \in 0 .. Threshold /\ locked \in BOOLEAN /\ tries \in Nat
  /\ ops \in 0 .. MaxOps
  /\ \A u \in Ids : u > db.lastId => db.users[u] = None
  /\ \A u \in db.sessions : db.users[u] # None

(* A new file, or one that an earlier version of the program left.          *)
Init ==
  /\ \E n \in 0 .. Migrations :
       /\ db \in [ran      : {[v \in 1 .. Migrations |-> IF v <= n THEN 1 ELSE 0]},
                  recorded : {1 .. n},
                  configs  : IF n < ConfigsFrom THEN {[t \in AllTypes |-> 0]}
                             ELSE [AllTypes -> Values],
                  settings : {0}, users : [Ids -> User \cup {None}],
                  lastId   : {0, 1}, sessions : {{}}]
       /\ \A u \in Ids : db.users[u] =
            IF u <= db.lastId THEN [role |-> "admin", enabled |-> TRUE] ELSE None
       /\ db.lastId = 1 => n >= UsersFrom
  /\ work = db /\ conn = None
  /\ main = "down" /\ todo = {}
  /\ pc = [p \in Procs |-> "idle"] /\ file = [p \in Procs |-> None]
  /\ target = [p \in Procs |-> 0] /\ counted = [p \in Procs |-> 0]
  /\ overtaken = [p \in Procs |-> FALSE]
  /\ failures = 0 /\ locked = FALSE /\ tries = 0 /\ ops = 0

(* A statement of its own, one inside a transaction, and the end of one.    *)
Statement(new) == conn = None /\ db' = new /\ work' = new /\ UNCHANGED conn
Within(new)    == work' = new /\ UNCHANGED db
Commit(new)    == db' = new /\ work' = new
Rollback       == work' = db /\ UNCHANGED db

-----------------------------------------------------------------------------
(***************************************************************************)
(* The start: RunMigrations, MigrateModuleType, ImportLegacyYAML.          *)
(***************************************************************************)
Missing == {v \in 1 .. Migrations : v \notin db.recorded}
Lowest(v) == \A w \in Missing : v <= w

Start ==
  /\ main = "down" /\ main' = "migrate"
  /\ UNCHANGED <<db, work, conn, todo, callVars, loginVars, ops>>

(* Mutant: the script is committed before its record.                       *)
MigrateApart ==
  /\ main = "migrate"
  /\ IF Missing = {} THEN main' = "rename" /\ UNCHANGED <<db, work>>
     ELSE \E v \in Missing :
            /\ Lowest(v) /\ Commit([db EXCEPT !.ran[v] = @ + 1]) /\ main' = "record"
  /\ UNCHANGED <<conn, todo, callVars, loginVars, ops>>

Migrate ==
  /\ main = "migrate"
  /\ IF Missing = {} THEN main' = "rename" /\ UNCHANGED <<db, work>>
     ELSE \E v \in Missing :
            /\ Lowest(v) /\ Within([db EXCEPT !.ran[v] = @ + 1]) /\ main' = "record"
  /\ UNCHANGED <<conn, todo, callVars, loginVars, ops>>

Record ==
  /\ main = "record"
  /\ \E v \in Missing : Lowest(v) /\ Commit([work EXCEPT !.recorded = @ \cup {v}])
  /\ main' = "migrate"
  /\ UNCHANGED <<conn, todo, callVars, loginVars, ops>>

(* A configuration of the new type gives way to one of the old type.        *)
RenameDelete ==
  /\ main = "rename" /\ main' = "renamed"
  /\ Within([db EXCEPT !.configs[NewType] = IF db.configs[OldType] # 0 THEN 0 ELSE @])
  /\ UNCHANGED <<conn, todo, callVars, loginVars, ops>>

RenameUpdate ==
  /\ main = "renamed" /\ main' = "count"
  /\ Commit([work EXCEPT !.configs[OldType] = 0,
                         !.configs[NewType] = IF @ = 0 THEN work.configs[OldType] ELSE @])
  /\ UNCHANGED <<conn, todo, callVars, loginVars, ops>>

Empty == \A t \in AllTypes : db.configs[t] = 0

ImportStart ==
  /\ main = "count"
  /\ IF Empty /\ Legacy # {}
     THEN main' = "import" /\ todo' = Legacy
     ELSE main' = "up" /\ UNCHANGED todo
  /\ UNCHANGED <<db, work, conn, callVars, loginVars, ops>>

(* One configuration is saved, or an error ends the import.                 *)
ImportSave ==
  /\ main = "import"
  /\ \/ \E t \in todo : /\ Statement([db EXCEPT !.configs[t] = 1])
                         /\ todo' = todo \ {t} /\ UNCHANGED main
     \/ main' = "up" /\ todo' = {} /\ UNCHANGED <<db, work, conn>>
  /\ UNCHANGED <<callVars, loginVars, ops>>

(* The process stops at any step; its memory and its transaction go.        *)
Crash ==
  /\ main # "down" /\ main' = "down" /\ todo' = {}
  /\ Rollback /\ conn' = None
  /\ pc' = [p \in Procs |-> "idle"] /\ file' = [p \in Procs |-> None]
  /\ target' = [p \in Procs |-> 0] /\ counted' = [p \in Procs |-> 0]
  /\ overtaken' = [p \in Procs |-> FALSE]
  /\ failures' = 0 /\ locked' = FALSE /\ tries' = 0
  /\ UNCHANGED ops

-----------------------------------------------------------------------------
(***************************************************************************)
(* Requests.  tokenAuth and requireRole look at the session once, before   *)
(* the handler.                                                            *)
(***************************************************************************)
Enabled(u) == u \in Ids /\ db.users[u] # None /\ db.users[u].enabled
Admins == {u \in Ids : Enabled(u) /\ db.users[u].role = "admin"}

(* Who may use the handlers that ask for one of these roles; 0 is the       *)
(* legacy token's user.                                                     *)
Actors(roles) == {u \in db.sessions : Enabled(u) /\ db.users[u].role \in roles}
                 \cup IF WebToken THEN {0} ELSE {}

Request(p) == main = "up" /\ pc[p] = "idle" /\ conn = None
              /\ ops < MaxOps /\ ops' = ops + 1
Goto(p, next) == pc' = [pc EXCEPT ![p] = next]

(* One that is a single statement, answered at once.                        *)
Simple(p, new) ==
  /\ Request(p) /\ Statement(new)
  /\ UNCHANGED <<startVars, pc, file, target, counted, loginVars>>

Noted(q) == overtaken' = [p \in Procs |-> p # q /\ (overtaken[p] \/ pc[p] \in {"role", "delete"})]

SaveConfig(p, t, v) ==
  /\ Actors(Roles) # {} /\ Simple(p, [db EXCEPT !.configs[t] = v])
  /\ UNCHANGED overtaken

DeleteConfig(p, t) ==
  /\ Actors(Roles) # {} /\ Simple(p, [db EXCEPT !.configs[t] = 0])
  /\ UNCHANGED overtaken

CreateUser(p, role) ==
  /\ Actors({"admin"}) # {} /\ db.lastId < MaxUsers
  /\ Simple(p, [db EXCEPT !.lastId = @ + 1,
                          !.users[db.lastId + 1] = [role |-> role, enabled |-> TRUE]])
  /\ Noted(p)

UpdateUser(p, u, role, enabled) ==
  /\ Actors({"admin"}) # {} /\ db.users[u] # None
  /\ Simple(p, [db EXCEPT !.users[u] = [role |-> role, enabled |-> enabled]])
  /\ Noted(p)

(* A session ends: a logout, or its day is over.                            *)
EndSession(u) ==
  /\ main = "up" /\ Statement([db EXCEPT !.sessions = @ \ {u}]) /\ u \in db.sessions
  /\ UNCHANGED <<startVars, callVars, loginVars, ops>>

-----------------------------------------------------------------------------
(***************************************************************************)
(* BootstrapFirstUser: count and insert in one transaction.                *)
(***************************************************************************)
(* Mutant: the count is a statement of its own.                             *)
BootstrapApart(p) ==
  /\ Request(p)
  /\ Goto(p, IF \A u \in Ids : db.users[u] = None THEN "insert" ELSE "idle")
  /\ UNCHANGED <<db, work, conn, startVars, file, target, counted, overtaken, loginVars>>

Bootstrap(p) ==
  /\ Request(p)
  /\ IF \A u \in Ids : db.users[u] = None
     THEN conn' = p /\ Goto(p, "insert")
     ELSE UNCHANGED <<conn, pc>>
  /\ UNCHANGED <<db, work, startVars, file, target, counted, overtaken, loginVars>>

InsertAdmin(p) ==
  /\ pc[p] = "insert" /\ db.lastId < MaxUsers
  /\ Commit([work EXCEPT !.lastId = @ + 1,
                         !.users[work.lastId + 1] = [role |-> "admin", enabled |-> TRUE]])
  /\ conn' = None /\ Goto(p, "session")
  /\ target' = [target EXCEPT ![p] = work.lastId + 1]
  /\ Noted(p)
  /\ UNCHANGED <<startVars, file, counted, loginVars, ops>>

(* CreateSession, refused by the foreign key if the user is gone.           *)
CreateSession(p) ==
  /\ pc[p] = "session"
  /\ Statement([db EXCEPT !.sessions = IF db.users[target[p]] = None THEN @
                                       ELSE @ \cup {target[p]}])
  /\ Goto(p, "idle") /\ target' = [target EXCEPT ![p] = 0]
  /\ UNCHANGED <<startVars, file, counted, overtaken, loginVars, ops>>

-----------------------------------------------------------------------------
(***************************************************************************)
(* handleLogin: allow, Authenticate, then failure or success.              *)
(***************************************************************************)
Login(p) ==
  /\ main = "up" /\ pc[p] = "idle" /\ ops < MaxOps /\ ops' = ops + 1
  /\ Goto(p, IF locked THEN "idle" ELSE "auth")
  /\ UNCHANGED <<db, work, conn, startVars, file, target, counted, overtaken, loginVars>>

Authenticate(p) ==
  /\ pc[p] = "auth" /\ conn = None
  /\ \/ /\ \E u \in Ids : Enabled(u) /\ target' = [target EXCEPT ![p] = u]
        /\ Goto(p, "success") /\ UNCHANGED tries
     \/ Goto(p, "failure") /\ tries' = tries + 1 /\ UNCHANGED target
  /\ UNCHANGED <<db, work, conn, startVars, file, counted, overtaken, failures, locked, ops>>

(* Mutant: the lock-out comes one failure late.                             *)
FailureLate(p) ==
  /\ pc[p] = "failure" /\ Goto(p, "idle")
  /\ failures' = IF failures < Threshold THEN failures + 1 ELSE failures
  /\ locked' = (failures >= Threshold)
  /\ UNCHANGED <<db, work, conn, startVars, file, target, counted, overtaken, tries, ops>>

Failure(p) ==
  /\ pc[p] = "failure" /\ Goto(p, "idle")
  /\ failures' = IF failures < Threshold THEN failures + 1 ELSE failures
  /\ locked' = (failures' >= Threshold)
  /\ UNCHANGED <<db, work, conn, startVars, file, target, counted, overtaken, tries, ops>>

Success(p) ==
  /\ pc[p] = "success" /\ Goto(p, "session")
  /\ failures' = 0 /\ locked' = FALSE /\ tries' = 0
  /\ UNCHANGED <<db, work, conn, startVars, file, target, counted, overtaken, ops>>

Lapse ==
  /\ locked /\ locked' = FALSE /\ tries' = 0
  /\ UNCHANGED <<db, work, conn, startVars, callVars, failures, ops>>

-----------------------------------------------------------------------------
(***************************************************************************)
(* DeleteUser: three statements.                                           *)
(***************************************************************************)
DeleteUser(p, u) ==
  /\ Request(p) /\ \E a \in Actors({"admin"}) : a # u
  /\ Goto(p, "role") /\ target' = [target EXCEPT ![p] = u]
  /\ counted' = [counted EXCEPT ![p] = Cardinality(Admins)]
  /\ overtaken' = [overtaken EXCEPT ![p] = FALSE]
  /\ UNCHANGED <<db, work, conn, startVars, file, loginVars>>

EndDelete(p) ==
  /\ Goto(p, "idle") /\ target' = [target EXCEPT ![p] = 0]
  /\ counted' = [counted EXCEPT ![p] = 0]

(* Mutant: the last one counts as one too many.                             *)
RefusedLate(p) == db.users[target[p]].role = "admin" /\ counted[p] < 1

Refused(p) == db.users[target[p]].role = "admin" /\ counted[p] <= 1

ReadRole(p) ==
  /\ pc[p] = "role" /\ conn = None
  /\ IF db.users[target[p]] = None \/ Refused(p)
     THEN EndDelete(p) /\ overtaken' = [overtaken EXCEPT ![p] = FALSE]
     ELSE Goto(p, "delete") /\ UNCHANGED <<target, counted, overtaken>>
  /\ UNCHANGED <<db, work, conn, startVars, file, loginVars, ops>>

(* Mutant: the sessions stay.                                               *)
RemoveUserOnly(p) ==
  /\ pc[p] = "delete"
  /\ Statement([db EXCEPT !.users[target[p]] = None])
  /\ EndDelete(p) /\ Noted(p)
  /\ UNCHANGED <<startVars, file, loginVars, ops>>

RemoveUser(p) ==
  /\ pc[p] = "delete"
  /\ Statement([db EXCEPT !.users[target[p]] = None, !.sessions = @ \ {target[p]}])
  /\ EndDelete(p) /\ Noted(p)
  /\ UNCHANGED <<startVars, file, loginVars, ops>>

-----------------------------------------------------------------------------
(***************************************************************************)
(* ImportBackup: one transaction.                                          *)
(***************************************************************************)
(* Mutant: settings and deletions are committed by themselves.              *)
RestoreApart(p) ==
  /\ Request(p) /\ Actors({"admin"}) # {}
  /\ conn' = p /\ Goto(p, "restore")
  /\ \E b \in Backups :
       /\ file' = [file EXCEPT ![p] = b]
       /\ Commit([db EXCEPT !.settings = b.settings,
                            !.configs = [t \in AllTypes |-> IF t \in Types THEN 0 ELSE @[t]]])
  /\ UNCHANGED <<startVars, target, counted, overtaken, loginVars>>

Restore(p) ==
  /\ Request(p) /\ Actors({"admin"}) # {}
  /\ conn' = p /\ Goto(p, "restore")
  /\ \E b \in Backups :
       /\ file' = [file EXCEPT ![p] = b]
       /\ Within([db EXCEPT !.settings = b.settings,
                            !.configs = [t \in AllTypes |-> IF t \in Types THEN 0 ELSE @[t]]])
  /\ UNCHANGED <<startVars, target, counted, overtaken, loginVars>>

Inserted(b) == [work EXCEPT !.configs =
                  [t \in AllTypes |-> IF t \in Types THEN b.configs[t] ELSE @[t]]]

(* An insert fails for instance if the file has an id twice.                *)
InsertConfigs(p) ==
  /\ pc[p] = "restore"
  /\ Commit(Inserted(file[p])) \/ Rollback
  /\ conn' = None /\ Goto(p, "idle") /\ file' = [file EXCEPT ![p] = None]
  /\ UNCHANGED <<startVars, target, counted, overtaken, loginVars, ops>>

-----------------------------------------------------------------------------
StartUp == \/ Start \/ Migrate \/ Record \/ RenameDelete \/ RenameUpdate
           \/ ImportStart \/ ImportSave

Handle(p) ==
  \/ \E t \in Types : DeleteConfig(p, t) \/ \E v \in Values \ {0} : SaveConfig(p, t, v)
  \/ \E r \in Roles : CreateUser(p, r)
  \/ \E u \in Ids : \/ DeleteUser(p, u)
                    \/ \E r \in Roles, e \in BOOLEAN : UpdateUser(p, u, r, e)
  \/ Bootstrap(p) \/ InsertAdmin(p) \/ CreateSession(p)
  \/ Login(p) \/ Authenticate(p) \/ Failure(p) \/ Success(p)
  \/ ReadRole(p) \/ RemoveUser(p)
  \/ Restore(p) \/ InsertConfigs(p)

Next == \/ StartUp \/ Crash \/ Lapse
        \/ \E p \in Procs : Handle(p)
        \/ \E u \in Ids : EndSession(u)

Spec == Init /\ [][Next]_vars

-----------------------------------------------------------------------------
(***************************************************************************)
(* Properties.                                                             *)
(***************************************************************************)
(* RunMigrations: a script runs exactly once, whatever crashes came between *)
(* it and its record; V004 cannot run a second time.                       *)
MigratedOnce ==
  /\ \A v \in 1 .. Migrations : db.ran[v] = IF v \in db.recorded THEN 1 ELSE 0
  /\ main \notin Starting => db.recorded = 1 .. Migrations

(* BootstrapFirstUser: a bootstrap adds a user only to an empty table, with *)
(* any number of them under way.                                           *)
OneBootstrap ==
  [][\A p \in Procs : pc[p] = "insert" /\ pc'[p] = "session"
                       => \A u \in Ids : db.users[u] = None]_vars

(* DeleteUser: a deletion takes the last enabled administrator only if     *)
(* another handler changed the users after it had counted them.            *)
LastAdminStays ==
  [][\A p \in Procs : pc[p] = "delete" /\ pc'[p] = "idle" /\ main' = "up"
                       /\ Admins # {} /\ Admins' = {} => overtaken[p]]_vars

(* ImportBackup: on the disk, a restore has happened as a whole or not at  *)
(* all.                                                                    *)
AllOrNothing ==
  [][\A p \in Procs : pc'[p] # pc[p] /\ "restore" \in {pc[p], pc'[p]} =>
       \/ db'.configs = db.configs /\ db'.settings = db.settings
       \/ /\ file[p] # None /\ db'.settings = file[p].settings
          /\ \A t \in Types : db'.configs[t] = file[p].configs[t]]_vars

(* loginLimiter: its look and its count are apart, so that logins at the   *)
(* same time may exceed the threshold, by one for each other handler.      *)
TriesBounded == tries < Threshold + Cardinality(Procs)
=============================================================================
