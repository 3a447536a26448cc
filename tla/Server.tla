-------------------------------- MODULE Server --------------------------------
(***************************************************************************)
(* The life of tido processes on one database file: main, store.New with   *)
(* Migrate, the two transports, the stop on a signal and the exit.         *)
(*                                                                         *)
(* Several processes may start, run and stop on the same file.  A process  *)
(* may be killed between any two statements, and a power loss stops all of *)
(* them and takes back commits not yet synced.  Of the file we keep what   *)
(* Migrate tests and changes: whether the tables exist, user_version, and  *)
(* the counter meta.version, which stands for the user's data.  A request  *)
(* writes in one step; its statements are the subject of WriteTx.          *)
(***************************************************************************)
EXTENDS Naturals

CONSTANTS Procs,       \* processes that use the same file
          NoProc,      \* the write lock is free
          Transport,   \* "stdio" or "http", for each process
          Requests,    \* tool calls a process may have in progress
          MaxCommits   \* bound on the writes of a behaviour

ASSUME ServerAssumption ==
    /\ NoProc \notin Procs
    /\ Transport \in [Procs -> {"stdio", "http"}]
    /\ MaxCommits \in Nat \ {0}   \* a file may come with data

VARIABLES file,      \* the database file, with its write-ahead log
          survivors, \* the states of the file a power loss may leave
          holder,    \* the process that has the write lock
          pc,        \* what each process is about to do
          open,      \* the requests it has taken and not answered: <<r, written>>
          exit,      \* how it last ended
          graceOver  \* Shutdown's 5 seconds have passed

serverVars == <<file, survivors, holder, pc, open, exit, graceOver>>

SchemaVersion == 1

NewFile == [tables |-> FALSE, userVersion |-> 0, commits |-> 0]

(* A file of this version, with data, and one a later version has upgraded. *)
OldFiles == [tables : {TRUE}, userVersion : {SchemaVersion, SchemaVersion + 1}, commits : {1}]

ServerInit ==
    /\ file \in {NewFile} \cup OldFiles
    /\ survivors = {file}
    /\ holder = NoProc
    /\ pc = [p \in Procs |-> "down"]
    /\ open = [p \in Procs |-> {}]
    /\ exit = [p \in Procs |-> "none"]
    /\ graceOver = [p \in Procs |-> FALSE]

Goto(p, label) == pc' = [pc EXCEPT ![p] = label]

(* A COMMIT, or a statement outside a transaction.  With synchronous=NORMAL it *)
(* is in the write-ahead log but not yet on the disk.                          *)
Publish(state) == file' = state /\ survivors' = survivors \cup {state}

(* The process ends; the operating system and SQLite free its lock. *)
End(p, how) ==
    /\ Goto(p, "down")
    /\ exit' = [exit EXCEPT ![p] = how]
    /\ holder' = IF holder = p THEN NoProc ELSE holder

-----------------------------------------------------------------------------
(* store.New and Migrate.                                                  *)

Start(p) ==
    /\ pc[p] = "down"
    /\ Goto(p, "version")
    /\ exit' = [exit EXCEPT ![p] = "none"]
    /\ open' = [open EXCEPT ![p] = {}]
    /\ graceOver' = [graceOver EXCEPT ![p] = FALSE]
    /\ UNCHANGED <<file, survivors, holder>>

(* Mutant: no refusal of a newer file. *)
ReadUserVersionLax(p) ==
    /\ pc[p] = "version"
    /\ Goto(p, IF file.userVersion >= SchemaVersion THEN "ready" ELSE "begin")
    /\ UNCHANGED <<file, survivors, holder, open, exit, graceOver>>

ReadUserVersion(p) ==
    /\ pc[p] = "version"
    /\ \/ /\ file.userVersion = SchemaVersion
          /\ Goto(p, "ready")
          /\ UNCHANGED <<holder, exit>>
       \/ /\ file.userVersion > SchemaVersion
          /\ End(p, "error")
       \/ /\ file.userVersion < SchemaVersion
          /\ Goto(p, "begin")
          /\ UNCHANGED <<holder, exit>>
    /\ UNCHANGED <<file, survivors, open, graceOver>>

(* applyMigration: BEGIN IMMEDIATE, the script, COMMIT. *)
BeginScript(p) ==
    /\ pc[p] = "begin"
    /\ holder = NoProc
    /\ holder' = p
    /\ Goto(p, "script")
    /\ UNCHANGED <<file, survivors, open, exit, graceOver>>

(* Mutants: the error of applyMigration is dropped; no busy_timeout. *)
BeginBusyIgnored(p) ==
    /\ pc[p] = "begin"
    /\ holder # NoProc
    /\ Goto(p, "stamp")
    /\ UNCHANGED <<file, survivors, holder, open, exit, graceOver>>

BeginBusyNever(p) == FALSE /\ UNCHANGED serverVars

BeginBusy(p) ==
    /\ pc[p] = "begin"
    /\ holder # NoProc
    /\ End(p, "error")
    /\ UNCHANGED <<file, survivors, open, graceOver>>

(* Mutant: CREATE TABLE IF NOT EXISTS. *)
RunScriptIfNotExists(p) ==
    /\ pc[p] = "script"
    /\ Goto(p, "commit")
    /\ UNCHANGED <<file, survivors, holder, open, exit, graceOver>>

(* CREATE TABLE fails when the table is there; the transaction is rolled back. *)
RunScript(p) ==
    /\ pc[p] = "script"
    /\ IF file.tables
         THEN End(p, "error")
         ELSE Goto(p, "commit") /\ UNCHANGED <<holder, exit>>
    /\ UNCHANGED <<file, survivors, open, graceOver>>

(* Mutant: the transaction stays open. *)
CommitScriptKeepingLock(p) ==
    /\ pc[p] = "commit"
    /\ Publish([file EXCEPT !.tables = TRUE, !.commits = 0])
    /\ Goto(p, "stamp")
    /\ UNCHANGED <<holder, open, exit, graceOver>>

CommitScript(p) ==
    /\ pc[p] = "commit"
    /\ Publish([file EXCEPT !.tables = TRUE, !.commits = 0])
    /\ holder' = NoProc
    /\ Goto(p, "stamp")
    /\ UNCHANGED <<open, exit, graceOver>>

(* setUserVersion: a statement of its own, outside the script's transaction. *)
SetUserVersion(p) ==
    /\ pc[p] = "stamp"
    /\ holder = NoProc
    /\ Publish([file EXCEPT !.userVersion = SchemaVersion])
    /\ Goto(p, "ready")
    /\ UNCHANGED <<holder, open, exit, graceOver>>

SetUserVersionBusy(p) ==
    /\ pc[p] = "stamp"
    /\ holder # NoProc
    /\ End(p, "error")
    /\ UNCHANGED <<file, survivors, open, graceOver>>

Starting(p) == pc[p] \in {"version", "begin", "script", "commit", "stamp", "ready"}

(* Any statement may fail, and a signal cancels the context of the start.  In *)
(* "ready": no token, or the address is taken.                                *)
StartFails(p) ==
    /\ Starting(p)
    /\ End(p, "error")
    /\ UNCHANGED <<file, survivors, open, graceOver>>

Listen(p) ==
    /\ pc[p] = "ready"
    /\ Goto(p, "serving")
    /\ UNCHANGED <<file, survivors, holder, open, exit, graceOver>>

-----------------------------------------------------------------------------
(* Requests.                                                               *)

Accept(p, r) ==
    /\ pc[p] = "serving"
    /\ \A w \in BOOLEAN : <<r, w>> \notin open[p]
    /\ open' = [open EXCEPT ![p] = @ \cup {<<r, FALSE>>}]
    /\ UNCHANGED <<file, survivors, holder, pc, exit, graceOver>>

(* The request's transaction commits; Close has not run yet. *)
WriteRequest(p, r) ==
    /\ pc[p] \in {"serving", "stopping"}
    /\ <<r, FALSE>> \in open[p]
    /\ holder = NoProc
    /\ file.tables
    /\ file.commits < MaxCommits
    /\ Publish([file EXCEPT !.commits = @ + 1])
    /\ open' = [open EXCEPT ![p] = (@ \ {<<r, FALSE>>}) \cup {<<r, TRUE>>}]
    /\ UNCHANGED <<holder, pc, exit, graceOver>>

(* After Close the answer can only be an error, "sql: database is closed". *)
Answer(p, r) ==
    /\ pc[p] \in {"serving", "stopping", "closed"}
    /\ \E w \in BOOLEAN :
          /\ <<r, w>> \in open[p]
          /\ open' = [open EXCEPT ![p] = @ \ {<<r, w>>}]
    /\ UNCHANGED <<file, survivors, holder, pc, exit, graceOver>>

-----------------------------------------------------------------------------
(* Stop.                                                                   *)

(* HTTP, on a signal: the goroutine calls Shutdown, which closes the listener *)
(* and then waits for the open requests; ListenAndServe returns at once, and  *)
(* runHTTPServer with it.  stdio, at the end of input: Run returns.           *)
Stop(p) ==
    /\ pc[p] = "serving"
    /\ Goto(p, "stopping")
    /\ UNCHANGED <<file, survivors, holder, open, exit, graceOver>>

(* stdio, on a signal: Run returns the context's error and main calls os.Exit. *)
StopStdio(p) ==
    /\ pc[p] = "serving"
    /\ Transport[p] = "stdio"
    /\ End(p, "error")
    /\ UNCHANGED <<file, survivors, open, graceOver>>

GraceOver(p) ==
    /\ pc[p] \in {"stopping", "closed"}
    /\ graceOver' = [graceOver EXCEPT ![p] = TRUE]
    /\ UNCHANGED <<file, survivors, holder, pc, open, exit>>

(* The deferred st.Close. *)
Close(p) ==
    /\ pc[p] = "stopping"
    /\ Goto(p, "closed")
    /\ UNCHANGED <<file, survivors, holder, open, exit, graceOver>>

(* main returns: the process ends with whatever it still has open. *)
Exit(p) ==
    /\ pc[p] = "closed"
    /\ End(p, "clean")
    /\ UNCHANGED <<file, survivors, open, graceOver>>

Kill(p) ==
    /\ pc[p] # "down"
    /\ End(p, "killed")
    /\ UNCHANGED <<file, survivors, open, graceOver>>

(* SQLite syncs the log and copies it into the database. *)
Checkpoint ==
    /\ survivors' = {file}
    /\ UNCHANGED <<file, holder, pc, open, exit, graceOver>>

(* The log is read up to where it was written: the file returns to one of the *)
(* states it has had since the last checkpoint.                               *)
PowerLoss ==
    /\ file' \in survivors
    /\ survivors' = {file'}
    /\ holder' = NoProc
    /\ pc' = [p \in Procs |-> "down"]
    /\ exit' = [p \in Procs |-> IF pc[p] = "down" THEN exit[p] ELSE "killed"]
    /\ UNCHANGED <<open, graceOver>>

StartStep(p) ==
    \/ ReadUserVersion(p)
    \/ BeginScript(p)
    \/ BeginBusy(p)
    \/ RunScript(p)
    \/ CommitScript(p)
    \/ SetUserVersion(p)
    \/ SetUserVersionBusy(p)
    \/ Listen(p)

ServerNext ==
    \/ Checkpoint
    \/ PowerLoss
    \/ \E p \in Procs :
           \/ Start(p)
           \/ StartStep(p)
           \/ StartFails(p)
           \/ \E r \in Requests : Accept(p, r) \/ WriteRequest(p, r) \/ Answer(p, r)
           \/ Stop(p)
           \/ StopStdio(p)
           \/ GraceOver(p)
           \/ Close(p)
           \/ Exit(p)
           \/ Kill(p)

(* A process that is starting goes on; a wait for the lock ends. *)
ServerSpec ==
    ServerInit /\ [][ServerNext]_serverVars /\ \A p \in Procs : WF_serverVars(StartStep(p))

-----------------------------------------------------------------------------
(* Properties.                                                             *)

(* Every variable has its type; the lock is held only in the script's        *)
(* transaction.                                                              *)
ServerTypeOK ==
    /\ file \in [tables : BOOLEAN, userVersion : 0 .. SchemaVersion + 1, commits : 0 .. MaxCommits]
    /\ survivors \in SUBSET [tables : BOOLEAN, userVersion : 0 .. SchemaVersion + 1,
                             commits : 0 .. MaxCommits]
    /\ file \in survivors
    /\ holder \in Procs \cup {NoProc}
    /\ pc \in [Procs -> {"down", "version", "begin", "script", "commit", "stamp", "ready",
                         "serving", "stopping", "closed"}]
    /\ open \in [Procs -> SUBSET (Requests \X BOOLEAN)]
    /\ exit \in [Procs -> {"none", "error", "clean", "killed"}]
    /\ graceOver \in [Procs -> BOOLEAN]
    /\ \A p \in Procs : holder = p <=> pc[p] \in {"script", "commit"}

(* A process that takes requests has a file with this version's tables, also *)
(* when another process was creating or stamping it meanwhile (Migrate).     *)
ServesCurrentSchema ==
    \A p \in Procs : pc[p] \in {"ready", "serving", "stopping", "closed"} =>
        file.tables /\ file.userVersion = SchemaVersion

(* user_version promises tables: it is never set before the script of the     *)
(* process that sets it, or of another one, has been committed; so no power   *)
(* loss leaves the stamp without the tables either.                           *)
StampFollowsScript ==
    \A state \in survivors : state.userVersion >= SchemaVersion => state.tables

(* A start never resets what was committed, however late a process that read  *)
(* user_version = 0 comes to run the script (store_test.go:102).  Only a power *)
(* loss takes commits back.                                                   *)
StartsKeepData == [][PowerLoss \/ file'.commits >= file.commits]_serverVars

(* Every start comes to an end: the process serves or exits. *)
StartsEnd == \A p \in Procs : pc[p] = "version" ~> pc[p] \in {"serving", "down"}

(* "v == 0 -> new database, initialise" (migration.go:91): whoever runs the    *)
(* script because of user_version 0 finds no tables.                          *)
VersionZeroIsNew == \A p \in Procs : pc[p] = "script" => ~ file.tables

(* "Graceful stop: on cancellation of ctx, Shutdown, so that the requests     *)
(* being handled finish" (http.go:39): an HTTP process that ends by itself    *)
(* has answered what it had taken, unless the 5 seconds were over.            *)
StopFinishesRequests ==
    \A p \in Procs : exit[p] = "clean" /\ Transport[p] = "http" =>
        open[p] = {} \/ graceOver[p]
=============================================================================
