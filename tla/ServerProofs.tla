---------------------------- MODULE ServerProofs -----------------------------
(***************************************************************************)
(* Proofs about Server, for any number of processes and requests.  The     *)
(* argument: whoever runs the script holds the lock, so the tables it has  *)
(* found missing are still missing at its COMMIT, and there is no data yet *)
(* to reset; and every state a power loss may bring back was a state of    *)
(* the file, in which a stamp followed the tables.                         *)
(***************************************************************************)
EXTENDS Server, TLAPS

FileStates == [tables : BOOLEAN, userVersion : 0 .. SchemaVersion + 1, commits : 0 .. MaxCommits]

Labels == {"down", "version", "begin", "script", "commit", "stamp", "ready",
           "serving", "stopping", "closed"}

Served == {"ready", "serving", "stopping", "closed"}

(* A stamp promises tables, and data needs them. *)
FileWhole(state) == /\ state.userVersion >= SchemaVersion => state.tables
                    /\ ~ state.tables => state.commits = 0

(* What a process knows of the file at each point of its start. *)
KnownAt(label, state) == /\ label = "commit" => ~ state.tables
                         /\ label = "stamp" => state.tables
                         /\ label \in Served => state.tables /\ state.userVersion = SchemaVersion

ServerIInv == /\ ServerTypeOK
              /\ \A state \in survivors : FileWhole(state)
              /\ \A p \in Procs : KnownAt(pc[p], file)

(* A file that is there when the processes start has tables and data. *)
LEMMA OldFile ==
  ASSUME NEW state \in OldFiles
  PROVE  state \in FileStates /\ FileWhole(state)
  <1>1. /\ {TRUE} \subseteq BOOLEAN
        /\ {SchemaVersion, SchemaVersion + 1} \subseteq 0 .. SchemaVersion + 1
        /\ {1} \subseteq 0 .. MaxCommits
    BY ServerAssumption DEF SchemaVersion
  <1>2. state \in FileStates
    BY <1>1, Zenon DEF OldFiles, FileStates
  <1>3. state.tables = TRUE
    BY Zenon DEF OldFiles
  <1> QED
    BY <1>2, <1>3 DEF FileWhole

(* What the script and a request make of the file. *)
LEMMA Changed ==
  ASSUME NEW state \in FileStates, NEW n \in 0 .. MaxCommits
  PROVE  /\ [state EXCEPT !.tables = TRUE, !.commits = n] \in FileStates
         /\ [state EXCEPT !.tables = TRUE, !.commits = n].tables
         /\ [state EXCEPT !.tables = TRUE, !.commits = n].userVersion = state.userVersion
         /\ [state EXCEPT !.commits = n] \in FileStates
         /\ [state EXCEPT !.commits = n].tables = state.tables
         /\ [state EXCEPT !.commits = n].userVersion = state.userVersion
  <1>1. [state EXCEPT !.tables = TRUE, !.commits = n] \in FileStates
    BY Zenon DEF FileStates
  <1>2. [state EXCEPT !.commits = n] \in FileStates
    BY Zenon DEF FileStates
  <1> QED
    BY <1>1, <1>2 DEF FileStates

(* Taking, writing or answering a request keeps the requests of a process typed. *)
LEMMA OpenRequests ==
  ASSUME NEW S \in SUBSET (Requests \X BOOLEAN), NEW r \in Requests
  PROVE  /\ S \cup {<<r, FALSE>>} \in SUBSET (Requests \X BOOLEAN)
         /\ (S \ {<<r, FALSE>>}) \cup {<<r, TRUE>>} \in SUBSET (Requests \X BOOLEAN)
         /\ \A w \in BOOLEAN : S \ {<<r, w>>} \in SUBSET (Requests \X BOOLEAN)
  <1>1. \A w \in BOOLEAN : <<r, w>> \in Requests \X BOOLEAN
    OBVIOUS
  <1> QED
    BY <1>1

(* The initial states satisfy the invariant: a new file, or one that was stamped. *)
LEMMA ServerInitInv == ServerInit => ServerIInv
  <1> SUFFICES ASSUME ServerInit PROVE ServerIInv
    OBVIOUS
  <1> USE ServerAssumption
  <1>1. file \in FileStates /\ FileWhole(file)
    <2>1. CASE file = NewFile
      BY <2>1 DEF NewFile, FileStates, FileWhole, SchemaVersion
    <2>2. CASE file \in OldFiles
      BY <2>2, OldFile
    <2> QED
      BY <2>1, <2>2 DEF ServerInit
  <1>2. ServerTypeOK
    BY <1>1 DEF ServerInit, ServerTypeOK, FileStates
  <1>3. \A p \in Procs : KnownAt(pc[p], file)
    BY DEF ServerInit, KnownAt, Served
  <1> QED
    BY <1>1, <1>2, <1>3 DEF ServerIInv, ServerInit

(* A process that ends, for whatever reason, gives up its lock and nothing else *)
(* changes.                                                                     *)
LEMMA EndInv ==
  ASSUME ServerIInv, NEW p \in Procs, NEW how \in {"error", "clean", "killed"}, End(p, how),
         UNCHANGED <<file, survivors, open, graceOver>>
  PROVE  ServerIInv'
  <1> USE ServerAssumption
  <1>1. pc' = [pc EXCEPT ![p] = "down"] /\ pc' \in [Procs -> Labels]
    BY DEF End, Goto, ServerIInv, ServerTypeOK, Labels
  <1>2. exit' \in [Procs -> {"none", "error", "clean", "killed"}]
    BY DEF End, ServerIInv, ServerTypeOK
  <1>3. holder' \in Procs \cup {NoProc}
    BY DEF End, ServerIInv, ServerTypeOK
  <1>4. \A q \in Procs : holder' = q <=> pc'[q] \in {"script", "commit"}
    BY <1>1 DEF End, ServerIInv, ServerTypeOK
  <1>5. ServerTypeOK'
    BY <1>1, <1>2, <1>3, <1>4 DEF ServerIInv, ServerTypeOK, Labels
  <1>6. \A q \in Procs : KnownAt(pc[q], file)'
    BY <1>1 DEF ServerIInv, ServerTypeOK, KnownAt, Served
  <1> QED
    BY <1>5, <1>6 DEF ServerIInv

(* A process goes on without the lock to a point whose knowledge the file bears out. *)
LEMMA GotoInv ==
  ASSUME ServerIInv, NEW p \in Procs, NEW label \in Labels \ {"script", "commit"},
         pc[p] \notin {"script", "commit"}, Goto(p, label), KnownAt(label, file),
         UNCHANGED <<file, survivors, holder>>,
         open' \in [Procs -> SUBSET (Requests \X BOOLEAN)],
         exit' \in [Procs -> {"none", "error", "clean", "killed"}],
         graceOver' \in [Procs -> BOOLEAN]
  PROVE  ServerIInv'
  <1>1. pc' = [pc EXCEPT ![p] = label] /\ pc' \in [Procs -> Labels]
    BY DEF Goto, ServerIInv, ServerTypeOK, Labels
  <1>2. \A q \in Procs : holder' = q <=> pc'[q] \in {"script", "commit"}
    BY <1>1 DEF ServerIInv, ServerTypeOK
  <1>3. ServerTypeOK'
    BY <1>1, <1>2 DEF ServerIInv, ServerTypeOK, Labels
  <1>4. \A q \in Procs : KnownAt(pc[q], file)'
    BY <1>1 DEF ServerIInv, ServerTypeOK, KnownAt, Served
  <1> QED
    BY <1>3, <1>4 DEF ServerIInv

(* A step that changes neither the file nor the lock nor any process's point. *)
LEMMA RequestInv ==
  ASSUME ServerIInv, UNCHANGED <<file, survivors, holder, pc, exit>>,
         open' \in [Procs -> SUBSET (Requests \X BOOLEAN)],
         graceOver' \in [Procs -> BOOLEAN]
  PROVE  ServerIInv'
  BY DEF ServerIInv, ServerTypeOK

(* The statements of the script's transaction, under the lock. *)
LEMMA ScriptInv ==
  ASSUME ServerIInv, NEW p \in Procs, BeginScript(p) \/ RunScript(p) \/ CommitScript(p)
  PROVE  ServerIInv'
  <1> USE ServerAssumption
  <1>1. CASE BeginScript(p)
    <2>1. pc' = [pc EXCEPT ![p] = "script"] /\ pc' \in [Procs -> Labels]
      BY <1>1 DEF BeginScript, Goto, ServerIInv, ServerTypeOK, Labels
    <2>2. \A q \in Procs : holder' = q <=> pc'[q] \in {"script", "commit"}
      BY <1>1, <2>1 DEF BeginScript, ServerIInv, ServerTypeOK
    <2>3. ServerTypeOK'
      BY <1>1, <2>1, <2>2 DEF BeginScript, ServerIInv, ServerTypeOK, Labels
    <2>4. \A q \in Procs : KnownAt(pc[q], file)'
      BY <1>1, <2>1 DEF BeginScript, ServerIInv, ServerTypeOK, KnownAt, Served
    <2> QED
      BY <1>1, <2>3, <2>4 DEF BeginScript, ServerIInv
  <1>2. CASE RunScript(p)
    <2>1. CASE file.tables
      BY <1>2, <2>1, EndInv DEF RunScript
    <2>2. CASE ~ file.tables
      <3>1. pc' = [pc EXCEPT ![p] = "commit"] /\ pc' \in [Procs -> Labels]
        BY <1>2, <2>2 DEF RunScript, Goto, ServerIInv, ServerTypeOK, Labels
      <3>2. \A q \in Procs : holder' = q <=> pc'[q] \in {"script", "commit"}
        BY <1>2, <2>2, <3>1 DEF RunScript, ServerIInv, ServerTypeOK
      <3>3. ServerTypeOK'
        BY <1>2, <2>2, <3>1, <3>2 DEF RunScript, ServerIInv, ServerTypeOK, Labels
      <3>4. \A q \in Procs : KnownAt(pc[q], file)'
        BY <1>2, <2>2, <3>1 DEF RunScript, ServerIInv, ServerTypeOK, KnownAt, Served
      <3> QED
        BY <1>2, <2>2, <3>3, <3>4 DEF RunScript, ServerIInv
    <2> QED
      BY <2>1, <2>2
  <1>3. CASE CommitScript(p)
    <2> DEFINE made == [file EXCEPT !.tables = TRUE, !.commits = 0]
    <2>1. file' = made /\ survivors' = survivors \cup {made}
      BY <1>3 DEF CommitScript, Publish
    <2>2. file \in FileStates
      BY DEF ServerIInv, ServerTypeOK, FileStates
    <2>3. made \in FileStates /\ made.tables /\ made.userVersion = file.userVersion
      BY <2>2, 0 \in 0 .. MaxCommits, Changed
    <2>4. FileWhole(made)
      BY <2>3 DEF FileWhole
    <2>5. pc' = [pc EXCEPT ![p] = "stamp"] /\ pc' \in [Procs -> Labels]
      BY <1>3 DEF CommitScript, Goto, ServerIInv, ServerTypeOK, Labels
    <2>6. \A q \in Procs : holder' = q <=> pc'[q] \in {"script", "commit"}
      BY <1>3, <2>5 DEF CommitScript, ServerIInv, ServerTypeOK
    <2>7. ServerTypeOK'
      BY <1>3, <2>1, <2>3, <2>5, <2>6 DEF CommitScript, ServerIInv, ServerTypeOK, Labels, FileStates
    <2>8. ASSUME NEW q \in Procs PROVE KnownAt(pc'[q], made)
      BY <1>3, <2>3, <2>5 DEF CommitScript, ServerIInv, ServerTypeOK, KnownAt, Served
    <2> QED
      BY <2>1, <2>4, <2>7, <2>8 DEF ServerIInv
  <1> QED
    BY <1>1, <1>2, <1>3

(* The stamp, and a request's write, on a file that has the tables. *)
LEMMA PublishInv ==
  ASSUME ServerIInv, NEW p \in Procs, SetUserVersion(p) \/ \E r \in Requests : WriteRequest(p, r)
  PROVE  ServerIInv'
  <1> USE ServerAssumption
  <1>1. CASE SetUserVersion(p)
    <2> DEFINE stamped == [file EXCEPT !.userVersion = SchemaVersion]
    <2>1. file' = stamped /\ survivors' = survivors \cup {stamped}
      BY <1>1 DEF SetUserVersion, Publish
    <2>2. file.tables
      BY <1>1 DEF SetUserVersion, ServerIInv, KnownAt
    <2>3. stamped \in FileStates /\ stamped.tables /\ stamped.userVersion = SchemaVersion
      BY <2>2 DEF ServerIInv, ServerTypeOK, FileStates, SchemaVersion
    <2>4. pc' = [pc EXCEPT ![p] = "ready"] /\ pc' \in [Procs -> Labels]
      BY <1>1 DEF SetUserVersion, Goto, ServerIInv, ServerTypeOK, Labels
    <2>5. \A q \in Procs : holder' = q <=> pc'[q] \in {"script", "commit"}
      BY <1>1, <2>4 DEF SetUserVersion, ServerIInv, ServerTypeOK
    <2>6. ServerTypeOK'
      BY <1>1, <2>1, <2>3, <2>4, <2>5 DEF SetUserVersion, ServerIInv, ServerTypeOK, Labels, FileStates
    <2>7. ASSUME NEW q \in Procs PROVE KnownAt(pc'[q], stamped)
      BY <1>1, <2>3, <2>4, <2>5 DEF SetUserVersion, ServerIInv, ServerTypeOK, KnownAt, Served
    <2> QED
      BY <2>1, <2>3, <2>6, <2>7 DEF ServerIInv, FileWhole
  <1>2. ASSUME NEW r \in Requests, WriteRequest(p, r) PROVE ServerIInv'
    <2> DEFINE written == [file EXCEPT !.commits = @ + 1]
    <2>1. file' = written /\ survivors' = survivors \cup {written}
      BY <1>2 DEF WriteRequest, Publish
    <2>2. file \in FileStates /\ file.tables /\ file.commits < MaxCommits
      BY <1>2 DEF WriteRequest, ServerIInv, ServerTypeOK, FileStates
    <2>3. written = [file EXCEPT !.commits = file.commits + 1] /\ file.commits + 1 \in 0 .. MaxCommits
      BY <2>2 DEF FileStates
    <2>4. /\ written \in FileStates /\ written.tables
          /\ written.tables = file.tables /\ written.userVersion = file.userVersion
      BY <2>2, <2>3, Changed
    <2>5. FileWhole(written)
      BY <2>4 DEF FileWhole
    <2>6. open' \in [Procs -> SUBSET (Requests \X BOOLEAN)]
      <3>1. open' = [open EXCEPT ![p] = (@ \ {<<r, FALSE>>}) \cup {<<r, TRUE>>}]
        BY <1>2 DEF WriteRequest
      <3>2. open[p] \in SUBSET (Requests \X BOOLEAN)
        BY DEF ServerIInv, ServerTypeOK
      <3>3. (open[p] \ {<<r, FALSE>>}) \cup {<<r, TRUE>>} \in SUBSET (Requests \X BOOLEAN)
        BY <3>2, OpenRequests
      <3> QED
        BY <3>1, <3>3, Zenon DEF ServerIInv, ServerTypeOK
    <2>7. ServerTypeOK'
      BY <1>2, <2>1, <2>4, <2>6 DEF WriteRequest, ServerIInv, ServerTypeOK, FileStates
    <2>8. ASSUME NEW q \in Procs PROVE KnownAt(pc'[q], written)
      BY <1>2, <2>4 DEF WriteRequest, ServerIInv, KnownAt, Served
    <2> QED
      BY <2>1, <2>5, <2>7, <2>8 DEF ServerIInv
  <1> QED
    BY <1>1, <1>2

(* A checkpoint or a power loss leaves a state the file has had, and nobody in a *)
(* start that could know more of it.                                            *)
LEMMA PowerInv ==
  ASSUME ServerIInv, Checkpoint \/ PowerLoss
  PROVE  ServerIInv'
  <1> USE ServerAssumption
  <1>1. CASE Checkpoint
    BY <1>1 DEF Checkpoint, ServerIInv, ServerTypeOK
  <1>2. CASE PowerLoss
    <2>1. ServerTypeOK'
      BY <1>2 DEF PowerLoss, ServerIInv, ServerTypeOK
    <2>2. \A state \in survivors' : FileWhole(state)
      BY <1>2 DEF PowerLoss, ServerIInv
    <2>3. \A p \in Procs : KnownAt(pc[p], file)'
      BY <1>2 DEF PowerLoss, KnownAt, Served
    <2> QED
      BY <2>1, <2>2, <2>3 DEF ServerIInv
  <1> QED
    BY <1>1, <1>2

(* Every step preserves the invariant. *)
LEMMA ServerNextInv == ServerIInv /\ [ServerNext]_serverVars => ServerIInv'
  <1> SUFFICES ASSUME ServerIInv, [ServerNext]_serverVars PROVE ServerIInv'
    OBVIOUS
  <1> USE DEF Labels
  <1>0. /\ open \in [Procs -> SUBSET (Requests \X BOOLEAN)]
        /\ exit \in [Procs -> {"none", "error", "clean", "killed"}]
        /\ graceOver \in [Procs -> BOOLEAN]
        /\ \A p \in Procs : KnownAt(pc[p], file)
    BY DEF ServerIInv, ServerTypeOK
  <1>1. CASE UNCHANGED serverVars
    BY <1>1, <1>0, RequestInv DEF serverVars
  <1>2. CASE Checkpoint \/ PowerLoss
    BY <1>2, PowerInv
  <1>3. ASSUME NEW p \in Procs, Start(p) PROVE ServerIInv'
    <2>1. open' \in [Procs -> SUBSET (Requests \X BOOLEAN)]
      BY <1>0, <1>3 DEF Start
    <2>2. exit' \in [Procs -> {"none", "error", "clean", "killed"}]
      BY <1>0, <1>3 DEF Start
    <2>3. graceOver' \in [Procs -> BOOLEAN]
      BY <1>0, <1>3 DEF Start
    <2>4. KnownAt("version", file)
      BY DEF KnownAt, Served
    <2> QED
      BY <1>3, <2>1, <2>2, <2>3, <2>4, GotoInv DEF Start
  <1>4. ASSUME NEW p \in Procs, ReadUserVersion(p) PROVE ServerIInv'
    <2>1. file \in FileStates /\ file.userVersion \in Nat
      BY DEF ServerIInv, ServerTypeOK, FileStates, SchemaVersion
    <2>2. CASE file.userVersion = SchemaVersion
      <3>1. file.tables
        BY <2>2 DEF ServerIInv, ServerTypeOK, FileWhole, SchemaVersion
      <3>2. KnownAt("ready", file)
        BY <2>2, <3>1 DEF KnownAt, Served
      <3>3. /\ pc[p] = "version" /\ Goto(p, "ready")
            /\ UNCHANGED <<file, survivors, holder, open, exit, graceOver>>
        BY <2>1, <1>4, <2>2 DEF ReadUserVersion, SchemaVersion
      <3> QED
        BY <1>0, <3>2, <3>3, GotoInv
    <2>3. CASE file.userVersion > SchemaVersion
      <3>1. End(p, "error") /\ UNCHANGED <<file, survivors, open, graceOver>>
        BY <2>1, <1>4, <2>3 DEF ReadUserVersion, SchemaVersion
      <3> QED
        BY <3>1, EndInv
    <2>4. CASE file.userVersion < SchemaVersion
      <3>1. KnownAt("begin", file)
        BY DEF KnownAt, Served
      <3>2. /\ pc[p] = "version" /\ Goto(p, "begin")
            /\ UNCHANGED <<file, survivors, holder, open, exit, graceOver>>
        BY <2>1, <1>4, <2>4 DEF ReadUserVersion, SchemaVersion
      <3> QED
        BY <1>0, <3>1, <3>2, GotoInv
    <2> QED
      BY <1>4, <2>2, <2>3, <2>4 DEF ReadUserVersion
  <1>5. ASSUME NEW p \in Procs, BeginScript(p) \/ RunScript(p) \/ CommitScript(p) PROVE ServerIInv'
    BY <1>5, ScriptInv
  <1>6. ASSUME NEW p \in Procs,
               BeginBusy(p) \/ SetUserVersionBusy(p) \/ StartFails(p) \/ StopStdio(p) \/ Exit(p) \/ Kill(p)
        PROVE  ServerIInv'
    BY <1>6, EndInv DEF BeginBusy, SetUserVersionBusy, StartFails, StopStdio, Exit, Kill
  <1>7. ASSUME NEW p \in Procs, SetUserVersion(p) \/ \E r \in Requests : WriteRequest(p, r)
        PROVE  ServerIInv'
    BY <1>7, PublishInv
  <1>8. ASSUME NEW p \in Procs, Listen(p) \/ Stop(p) \/ Close(p) PROVE ServerIInv'
    <2>1. KnownAt(pc[p], file) /\ pc[p] \in Served
      BY <1>0, <1>8 DEF Listen, Stop, Close, Served
    <2>2. \A label \in Served : KnownAt(label, file)
      BY <2>1 DEF KnownAt, Served
    <2>3. pc[p] \notin {"script", "commit"} /\ UNCHANGED <<file, survivors, holder, open, exit, graceOver>>
      BY <1>8 DEF Listen, Stop, Close
    <2>4. \E label \in Served : Goto(p, label)
      BY <1>8 DEF Listen, Stop, Close, Served
    <2> QED
      BY <1>0, <2>2, <2>3, <2>4, GotoInv DEF Served
  <1>9. ASSUME NEW p \in Procs, NEW r \in Requests, Accept(p, r) \/ Answer(p, r) PROVE ServerIInv'
    <2>1. open' \in [Procs -> SUBSET (Requests \X BOOLEAN)]
      <3>1. open[p] \in SUBSET (Requests \X BOOLEAN)
        BY <1>0
      <3>2. \E S \in SUBSET (Requests \X BOOLEAN) : open' = [open EXCEPT ![p] = S]
        BY <1>9, <3>1, OpenRequests DEF Accept, Answer
      <3> QED
        BY <1>0, <3>2, Zenon
    <2> QED
      BY <1>0, <1>9, <2>1, RequestInv DEF Accept, Answer
  <1>10. ASSUME NEW p \in Procs, GraceOver(p) PROVE ServerIInv'
    BY <1>0, <1>10, RequestInv DEF GraceOver
  <1> QED
    BY <1>1, <1>2, <1>3, <1>4, <1>5, <1>6, <1>7, <1>8, <1>9, <1>10 DEF ServerNext, StartStep

(* The inductive invariant of the life of the processes. *)
THEOREM ServerInvariant == ServerSpec => []ServerIInv
  <1>1. ServerInit => ServerIInv
    BY ServerInitInv
  <1>2. ServerIInv /\ [ServerNext]_serverVars => ServerIInv'
    BY ServerNextInv
  <1> QED
    BY <1>1, <1>2, PTL DEF ServerSpec

(* Variables keep their types, and the lock is held inside the script's transaction *)
(* only, whatever fails, is killed or loses power.                                  *)
THEOREM ServerTypeCorrect == ServerSpec => []ServerTypeOK
  <1>1. ServerIInv => ServerTypeOK
    BY DEF ServerIInv
  <1> QED
    BY <1>1, ServerInvariant, PTL

(* No process ever serves a file whose tables are missing or of another version. *)
THEOREM SchemaServed == ServerSpec => []ServesCurrentSchema
  <1>1. ServerIInv => ServesCurrentSchema
    BY DEF ServerIInv, KnownAt, Served, ServesCurrentSchema
  <1> QED
    BY <1>1, ServerInvariant, PTL

(* user_version never promises tables that are not there, after a power loss neither. *)
THEOREM StampCorrect == ServerSpec => []StampFollowsScript
  <1>1. ServerIInv => StampFollowsScript
    BY DEF ServerIInv, FileWhole, StampFollowsScript
  <1> QED
    BY <1>1, ServerInvariant, PTL

(* No start takes back what was committed: the script commits only on a file *)
(* without tables, which has no data.                                        *)
THEOREM DataKept == ServerSpec => StartsKeepData
  <1>1. ASSUME ServerIInv, [ServerNext]_serverVars
        PROVE  [PowerLoss \/ file'.commits >= file.commits]_serverVars
    <2>1. file \in FileStates /\ FileWhole(file)
      BY <1>1 DEF ServerIInv, ServerTypeOK, FileStates
    <2>2. file.commits \in Nat
      BY <2>1, ServerAssumption DEF FileStates
    <2>3. CASE UNCHANGED file
      BY <2>2, <2>3
    <2>4. ASSUME NEW p \in Procs, CommitScript(p) PROVE file'.commits >= file.commits
      <3>1. file.commits = 0
        BY <1>1, <2>1, <2>4 DEF CommitScript, ServerIInv, KnownAt, FileWhole
      <3>2. file'.commits = 0
        BY <2>1, <2>4 DEF CommitScript, Publish, FileStates
      <3> QED
        BY <3>1, <3>2
    <2>5. ASSUME NEW p \in Procs, SetUserVersion(p) PROVE file'.commits >= file.commits
      <3>1. file'.commits = file.commits
        BY <2>1, <2>5 DEF SetUserVersion, Publish, FileStates
      <3> QED
        BY <2>2, <3>1
    <2>6. ASSUME NEW p \in Procs, NEW r \in Requests, WriteRequest(p, r)
          PROVE  file'.commits >= file.commits
      <3>1. file'.commits = file.commits + 1
        BY <2>1, <2>6 DEF WriteRequest, Publish, FileStates
      <3> QED
        BY <2>2, <3>1
    <2>7. \/ UNCHANGED file \/ PowerLoss
          \/ \E p \in Procs : \/ CommitScript(p) \/ SetUserVersion(p)
                              \/ \E r \in Requests : WriteRequest(p, r)
      BY <1>1, Zenon DEF ServerNext, StartStep, serverVars, Start, ReadUserVersion, BeginScript, BeginBusy,
         RunScript, SetUserVersionBusy, StartFails, Listen, Accept, Answer, Stop, StopStdio,
         GraceOver, Close, Exit, Kill, Checkpoint
    <2> QED
      BY <2>3, <2>4, <2>5, <2>6, <2>7
  <1> QED
    BY <1>1, ServerInvariant, PTL DEF ServerSpec, StartsKeepData
=============================================================================
