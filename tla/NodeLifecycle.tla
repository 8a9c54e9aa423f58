---------------------------- MODULE NodeLifecycle ---------------------------
(***************************************************************************)
(* The life of the node process: the controller from start to shutdown,    *)
(* the files it opens the database in, and whoever drives it.  That is     *)
(* either runServer, which answers an error with a shutdown and a new      *)
(* controller a second later, or an application that embeds the node and   *)
(* calls shutdown, resetDatabase and warpSync when it likes.               *)
(*                                                                         *)
(* A session is one controller.  The process can be killed at any time and *)
(* be launched again; only the files outlive it.                           *)
(***************************************************************************)
EXTENDS Integers, Sequences, FiniteSets

CONSTANTS
  Owners,              \* who may drive the controllers: "runServer", "app"
  MaxSystemRetries,    \* retries the process is launched with
  MaxSessions,         \* bound on the controllers of one process
  MaxLaunches,         \* bound on the launches of the process
  MaxMonitorFailures,  \* bound on the failures of the health monitor
  MaxCalls,            \* bound on the application's calls
  MaxFiles,            \* bound on the database files ever created
  MaxUpload            \* bound on the uploads of the contracts, numbered from 1

ASSUME LifecycleAssumption ==
  /\ Owners \subseteq {"runServer", "app"}
  /\ MaxSystemRetries \in Nat /\ MaxSessions \in Nat \ {0} /\ MaxLaunches \in Nat \ {0}
  /\ MaxMonitorFailures \in Nat /\ MaxCalls \in Nat
  /\ MaxFiles \in Nat \ {0} /\ MaxUpload \in Nat \ {0}

VARIABLES
  owner,         \* "runServer" or "app"
  alive,         \* the process runs
  sessions,      \* the controllers of the process, in the order of their start
  files,         \* the database files ever created; their numbers are their identity
  path,          \* the file at the database's path, or None
  uploadFile,    \* the number in the file "upload-block-<network>", or None
  upload,        \* the upload block of the contracts this version knows
  launches, monitorFailures, calls,
  disturbed      \* the monitor made runServer restart, or the application called a session that
                 \* opens or closes its database, or imported one before it ever started the
                 \* node: only the properties read it

vars == <<owner, alive, sessions, files, path, uploadFile, upload,
          launches, monitorFailures, calls, disturbed>>
fileVars == <<files, path, uploadFile, upload>>
\* What most steps leave alone.
restVars == <<owner, upload, launches, monitorFailures, calls, disturbed>>

None == 0
Torn == -1    \* "upload-block-<network>" while it is written: no upload block
File == 1..MaxFiles

(***************************************************************************)
(* A session.  pc: how far start() is.  running: the flag.  db: this.db is *)
(* assigned.  handle, file: the connection and the file it is on.  server: *)
(* it listens on the port for new clients; the sockets it has accepted go  *)
(* on being served after it stops, and are not part of this module         *)
(* (BlockEffects has them).  queue, block: the queue of blocks and logs    *)
(* and what its worker does.  monitor: the next poll is scheduled.  rpc:   *)
(* connected to the Ethereum node.  then: what the call that waits for the *)
(* database to close goes on with.  retries: the variable errorCatch       *)
(* counts down.  restarts: timers that will start a new session.           *)
(***************************************************************************)
Fresh(retries) ==
  [pc |-> "connecting", running |-> TRUE, db |-> FALSE, handle |-> "none", file |-> None,
   server |-> FALSE, queue |-> "none", block |-> "idle", monitor |-> FALSE, rpc |-> FALSE,
   then |-> "nothing", retries |-> retries, restarts |-> 0]

IsRunning(r) == r.running /\ r.db

\* Mutant: the database stays open.
StoppedWithDatabase(r) == [r EXCEPT !.running = FALSE, !.server = FALSE]

\* _shutdown up to its await: shutdownServers only stops listening, and without a
\* database there is nothing to wait for.
Stopped(r) ==
  IF ~r.running THEN r
  ELSE [r EXCEPT !.running = FALSE, !.queue = IF @ = "on" THEN "paused" ELSE @,
                 !.server = FALSE, !.handle = IF r.db THEN "closing" ELSE @,
                 !.rpc = r.db /\ @]

\* Mutants: no new session; the retries are not counted.
CaughtOnly(r) == [Stopped(r) EXCEPT !.retries = r.retries - 1]
CaughtAgain(r) == [Stopped(r) EXCEPT !.restarts = @ + 1]

\* errorCatch with retries left.
Caught(r) == [Stopped(r) EXCEPT !.retries = r.retries - 1, !.restarts = @ + 1]

\* Opening its database, or closing it.
Unready(r) == (r.running /\ ~r.db /\ r.pc # "ended") \/ r.handle = "closing"

Exit == alive' = FALSE /\ sessions' = <<>>

\* Session s is in state r after the step.
Goes(s, r) == sessions' = [sessions EXCEPT ![s] = r] /\ UNCHANGED alive

\* The error callback of session s, in the state r it is in then.
Fail(s, r) ==
  \/ owner = "app" /\ Goes(s, r)
  \/ owner = "runServer" /\ r.retries = 0 /\ Exit
  \/ owner = "runServer" /\ r.retries > 0 /\ Goes(s, Caught(r))

-----------------------------------------------------------------------------
(***************************************************************************)
(* start(): connect, open the database, synchronise, check, listen.        *)
(***************************************************************************)
At(s, pc) == s \in DOMAIN sessions /\ sessions[s].pc = pc

\* The health monitor runs once before the database is looked for, and an error
\* of it goes to the error callback: start() goes on.
Connect(s) ==
  /\ At(s, "connecting")
  /\ LET r == [sessions[s] EXCEPT !.pc = "checking upload", !.rpc = TRUE]
     IN \/ Goes(s, [r EXCEPT !.monitor = TRUE]) /\ UNCHANGED <<monitorFailures, disturbed>>
        \/ /\ monitorFailures < MaxMonitorFailures
           /\ Fail(s, r) /\ monitorFailures' = monitorFailures + 1
           /\ disturbed' = (disturbed \/ owner = "runServer")
  /\ UNCHANGED <<owner, fileVars, launches, calls>>

StartFails(s) ==
  /\ s \in DOMAIN sessions
  /\ sessions[s].pc \in {"connecting", "checking upload", "writing upload", "migrated", "bulk",
                         "synced", "checks"}
  /\ Fail(s, [sessions[s] EXCEPT !.pc = "ended"])
  /\ files' = IF At(s, "migrated") THEN [files EXCEPT ![sessions[s].file].state = "empty"] ELSE files
  /\ UNCHANGED <<restVars, path, uploadFile>>

\* Mutant: the upload block is only written.
NeverOutdated == FALSE
IsOutdated == path # None /\ uploadFile # None /\ uploadFile # upload

\* checkAndUpdateContractUploadBlock: a database of other contracts is moved
\* away, and then the number of the present ones is written.
CheckUploadBlock(s) ==
  /\ At(s, "checking upload")
  /\ path' = IF IsOutdated THEN None ELSE path
  /\ Goes(s, [sessions[s] EXCEPT !.pc = "writing upload"])
  /\ UNCHANGED <<restVars, files, uploadFile>>

WriteUploadBlock(s) ==
  /\ At(s, "writing upload")
  /\ uploadFile' = upload
  /\ Goes(s, [sessions[s] EXCEPT !.pc = "opening"])
  /\ UNCHANGED <<restVars, files, path>>

\* A connection opens the file at the path with its first query, or creates it.
Opened == IF path = None THEN Len(files) + 1 ELSE path
OpenPath ==
  /\ path' = Opened /\ Opened \in File
  /\ files' = IF path = None THEN Append(files, [state |-> "empty", upload |-> upload]) ELSE files

\* Mutant: the lock is not looked at.
NeverDamaged(file) == FALSE

\* isDatabaseDamaged: the lock of a migration is still set.  (Nothing in the code
\* writes the error row of network_id that it looks for as well.)
IsDamaged(file) == file.state = "locked"

OpenDatabase(s) ==
  /\ At(s, "opening") /\ OpenPath
  /\ Goes(s, [sessions[s] EXCEPT !.handle = "open", !.file = Opened,
                !.pc = IF IsDamaged(files'[Opened]) THEN "replacing" ELSE "migrating"])
  /\ UNCHANGED <<restVars, uploadFile>>

\* getFreshDatabase: the file that is at the path now is moved away.
ReplaceDatabase(s) ==
  /\ At(s, "replacing")
  /\ IF path = None THEN Fail(s, [sessions[s] EXCEPT !.pc = "ended", !.handle = "closed"])
     ELSE Goes(s, [sessions[s] EXCEPT !.pc = "migrating", !.file = None])
  /\ path' = None
  /\ UNCHANGED <<restVars, files, uploadFile>>

\* db.migrate.latest takes the lock of the migrations, or fails.
Migrate(s) ==
  LET file == IF sessions[s].file = None THEN Opened ELSE sessions[s].file
      r == [sessions[s] EXCEPT !.file = file]
  IN /\ At(s, "migrating")
     /\ IF sessions[s].file = None THEN path' = Opened /\ Opened \in File ELSE UNCHANGED path
     /\ LET found == IF file \in DOMAIN files THEN files
                     ELSE Append(files, [state |-> "empty", upload |-> upload])
        IN IF found[file].state \in {"locked", "torn"}
           THEN files' = found /\ Fail(s, [r EXCEPT !.pc = "ended"])
           ELSE /\ files' = [found EXCEPT ![file].state = "locked"]
                /\ Goes(s, [r EXCEPT !.pc = "migrated"])
     /\ UNCHANGED <<restVars, uploadFile>>

\* The lock is released, the connection becomes this.db and the server starts;
\* when another session's has the port it only logs that.
StartSync(s) ==
  /\ At(s, "migrated")
  /\ files' = [files EXCEPT ![sessions[s].file].state = "ready"]
  /\ Goes(s, [sessions[s] EXCEPT !.pc = "bulk", !.db = TRUE,
                !.server = \A t \in DOMAIN sessions : ~sessions[t].server])
  /\ UNCHANGED <<restVars, path, uploadFile>>

\* Synchronising needs the Ethereum node, and may have nothing to write.
FinishBulkSync(s) ==
  /\ At(s, "bulk") /\ sessions[s].rpc
  /\ Goes(s, [sessions[s] EXCEPT !.pc = "synced"])
  /\ UNCHANGED <<restVars, files, path, uploadFile>>

\* Mutant: the controller does not look whether it was shut down.
GoesOnAnyway(r, pc) == [r EXCEPT !.pc = pc]

\* "We received a shutdown so just return."
GoesOn(r, pc) == [r EXCEPT !.pc = IF IsRunning(r) THEN pc ELSE "ended"]

StartChecks(s) ==
  /\ At(s, "synced")
  /\ Goes(s, GoesOn(sessions[s], "checks"))
  /\ UNCHANGED <<restVars, files, path, uploadFile>>

StartListening(s) ==
  /\ At(s, "checks")
  /\ LET r == GoesOn(sessions[s], "listening")
     IN Goes(s, [r EXCEPT !.queue = IF r.pc = "listening" THEN "on" ELSE @])
  /\ UNCHANGED <<restVars, files, path, uploadFile>>

-----------------------------------------------------------------------------
(***************************************************************************)
(* The listeners, the health monitor, the timers and the shutdown.         *)
(***************************************************************************)
\* The worker of the queue: the transaction of a block, then the checks, which
\* need the database again.
BeginBlock(s) ==
  /\ At(s, "listening") /\ sessions[s].queue = "on" /\ sessions[s].block = "idle" /\ sessions[s].rpc
  /\ Goes(s, [sessions[s] EXCEPT !.block = "writing"])
  /\ UNCHANGED <<restVars, files, path, uploadFile>>

CommitBlock(s) ==
  /\ At(s, "listening") /\ sessions[s].block = "writing"
  /\ Goes(s, [sessions[s] EXCEPT !.block = "checking"])
  /\ UNCHANGED <<restVars, files, path, uploadFile>>

FinishBlock(s) ==
  /\ At(s, "listening") /\ sessions[s].block = "checking" /\ sessions[s].handle = "open"
  /\ Goes(s, [sessions[s] EXCEPT !.block = "idle"])
  /\ UNCHANGED <<restVars, files, path, uploadFile>>

\* _shutdownCallback: the error callback, and then the process exits.
BlockFails(s) ==
  /\ At(s, "listening") /\ sessions[s].block # "idle"
  /\ Exit
  /\ UNCHANGED <<restVars, files, path, uploadFile>>

\* The network has no contracts, at a later poll of the monitor.
MonitorFails(s) ==
  /\ s \in DOMAIN sessions /\ sessions[s].monitor /\ monitorFailures < MaxMonitorFailures
  /\ monitorFailures' = monitorFailures + 1
  /\ disturbed' = (disturbed \/ owner = "runServer")
  /\ Fail(s, [sessions[s] EXCEPT !.monitor = FALSE])
  /\ UNCHANGED <<owner, fileVars, launches, calls>>

\* setTimeout of errorCatch, with the retries left by then.
Restart(s) ==
  /\ s \in DOMAIN sessions /\ sessions[s].restarts > 0 /\ Len(sessions) < MaxSessions
  /\ sessions' = Append([sessions EXCEPT ![s].restarts = @ - 1], Fresh(sessions[s].retries))
  /\ UNCHANGED <<restVars, alive, files, path, uploadFile>>

\* db.destroy() waits for the transaction of a block.  The rest of _shutdown
\* and of the call that waits for it follow.
DatabaseCloses(s) ==
  /\ s \in DOMAIN sessions
  /\ LET r == sessions[s]
     IN /\ r.handle = "closing" /\ r.block # "writing"
        /\ Goes(s, [r EXCEPT !.handle = "closed", !.db = FALSE, !.rpc = FALSE])
  /\ UNCHANGED <<restVars, files, path, uploadFile>>

-----------------------------------------------------------------------------
(***************************************************************************)
(* An application with the node in it.                                     *)
(***************************************************************************)
\* It starts a controller when it has shut down those before.
AppStart ==
  /\ owner = "app" /\ alive /\ Len(sessions) < MaxSessions
  /\ \A s \in DOMAIN sessions :
       ~sessions[s].running /\ sessions[s].handle # "closing" /\ sessions[s].then = "nothing"
  /\ sessions' = Append(sessions, Fresh(0))
  /\ UNCHANGED <<restVars, alive, files, path, uploadFile>>

\* shutdown, and resetDatabase and warpSync, which shut a running node down first
\* and then move the database away, to import another one or not.
AppStops(s, then) ==
  /\ owner = "app" /\ s \in DOMAIN sessions /\ s = Len(sessions) /\ sessions[s].then = "nothing"
  /\ calls < MaxCalls /\ calls' = calls + 1
  /\ disturbed' = (disturbed \/ Unready(sessions[s]))
  /\ LET r == sessions[s]
     IN Goes(s, [(IF then = "nothing" \/ IsRunning(r) THEN Stopped(r) ELSE r) EXCEPT !.then = then])
  /\ UNCHANGED <<owner, fileVars, launches, monitorFailures>>

\* renameBulkSyncDatabaseFile.
MoveDatabase(s) ==
  /\ s \in DOMAIN sessions /\ sessions[s].then \in {"reset", "import"}
  /\ sessions[s].handle # "closing" \/ sessions[s].running
  /\ path' = None
  /\ Goes(s, [sessions[s] EXCEPT !.then = IF @ = "import" THEN "importing" ELSE "nothing"])
  /\ UNCHANGED <<restVars, files, uploadFile>>

\* restoreWarpSyncFile writes the file piece by piece.  The upload block is not
\* written with it: without one from an earlier start, a later version takes
\* the imported database for one of its own contracts.
BeginImport(s) ==
  /\ s \in DOMAIN sessions /\ sessions[s].then = "importing" /\ path = None /\ Len(files) < MaxFiles
  /\ files' = Append(files, [state |-> "torn", upload |-> upload]) /\ path' = Len(files')
  /\ Goes(s, [sessions[s] EXCEPT !.then = "writing"])
  /\ disturbed' = (disturbed \/ uploadFile = None)
  /\ UNCHANGED <<owner, upload, launches, monitorFailures, calls, uploadFile>>

FinishImport(s) ==
  /\ s \in DOMAIN sessions /\ sessions[s].then = "writing" /\ path # None
  /\ files' = [files EXCEPT ![path].state = IF @ = "torn" THEN "ready" ELSE @]
  /\ Goes(s, [sessions[s] EXCEPT !.then = "nothing"])
  /\ UNCHANGED <<restVars, path, uploadFile>>

-----------------------------------------------------------------------------
(***************************************************************************)
(* The process.                                                            *)
(***************************************************************************)
Kill ==
  /\ alive /\ Exit
  /\ uploadFile' \in IF \E s \in DOMAIN sessions : At(s, "writing upload")
                     THEN {uploadFile, Torn} ELSE {uploadFile}
  /\ UNCHANGED <<restVars, files, path>>

\* The new version may know other contracts.
Launch ==
  /\ ~alive /\ launches < MaxLaunches
  /\ alive' = TRUE /\ launches' = launches + 1
  /\ upload' \in {u \in 1..MaxUpload : u >= upload}
  /\ sessions' = IF owner = "runServer" THEN <<Fresh(MaxSystemRetries)>> ELSE <<>>
  /\ UNCHANGED <<owner, files, path, uploadFile, monitorFailures, calls, disturbed>>

Init ==
  /\ owner \in Owners /\ alive = FALSE /\ sessions = <<>>
  /\ files = <<>> /\ path = None /\ uploadFile = None /\ upload = 1
  /\ launches = 0 /\ monitorFailures = 0 /\ calls = 0 /\ disturbed = FALSE

StartStep(s) ==
  \/ Connect(s) \/ StartFails(s) \/ CheckUploadBlock(s) \/ WriteUploadBlock(s) \/ OpenDatabase(s)
  \/ ReplaceDatabase(s) \/ Migrate(s) \/ StartSync(s) \/ FinishBulkSync(s) \/ StartChecks(s)
  \/ StartListening(s)
AppStep(s) ==
  \/ \E then \in {"nothing", "reset", "import"} : AppStops(s, then)
  \/ MoveDatabase(s) \/ BeginImport(s) \/ FinishImport(s)
Next ==
  \/ \E s \in 1..MaxSessions :
       \/ StartStep(s) \/ BeginBlock(s) \/ CommitBlock(s) \/ FinishBlock(s) \/ BlockFails(s)
       \/ MonitorFails(s) \/ Restart(s) \/ DatabaseCloses(s) \/ AppStep(s)
  \/ AppStart \/ Kill \/ Launch

Spec == Init /\ [][Next]_vars

\* Promises settle and timers fire.
Fairness ==
  \A s \in 1..MaxSessions : WF_vars(StartStep(s)) /\ WF_vars(Restart(s)) /\ WF_vars(DatabaseCloses(s))
FairSpec == Spec /\ Fairness
-----------------------------------------------------------------------------
Writes(s) ==
  /\ sessions[s].handle \in {"open", "closing"}
  /\ \/ sessions[s].pc = "bulk" /\ sessions[s].rpc
     \/ sessions[s].pc = "checks" \/ sessions[s].block # "idle"

Session ==
  [pc : {"connecting", "checking upload", "writing upload", "opening", "replacing", "migrating",
         "migrated", "bulk", "synced", "checks", "listening", "ended"},
   running : BOOLEAN, db : BOOLEAN, handle : {"none", "open", "closing", "closed"},
   file : File \cup {None}, server : BOOLEAN, queue : {"none", "on", "paused"},
   block : {"idle", "writing", "checking"}, monitor : BOOLEAN, rpc : BOOLEAN,
   then : {"nothing", "reset", "import", "importing", "writing"},
   retries : 0..MaxSystemRetries, restarts : 0..MaxSystemRetries]

DatabaseFile == [state : {"empty", "locked", "ready", "torn"}, upload : 1..MaxUpload]

\* The controllers and the files have their types, no retry is counted below zero.
TypeOK ==
  /\ sessions \in Seq(Session)
  /\ files \in Seq(DatabaseFile)
  /\ path \in DOMAIN files \cup {None}

\* createKnex (check-and-initialize-augur-db.ts:29) expects the database to be
\* written "serially, in block order": no two sessions write at a time, while
\* nothing cut across a session that opens or closes its database.
OneWriter ==
  ~disturbed => \A s, t \in DOMAIN sessions : Writes(s) /\ Writes(t) => s = t

\* A session writes to the file at the database's path, which is migrated and
\* of the present contracts, whatever was moved away, imported, cut short by a
\* kill or synchronised by an earlier version.
WritesTheDatabase ==
  ~disturbed => \A s \in DOMAIN sessions :
    Writes(s) => /\ sessions[s].file = path
                 /\ files[path] = [state |-> "ready", upload |-> upload]

\* A session that was shut down takes up no block any more, and accepts new clients
\* only with its database open: shut down while the database was being opened it
\* found nothing to close, and start() goes on to open the port.  While nothing cut
\* across a session that opens or closes its database, it accepts no new client
\* at all, and once the call has returned it has left the Ethereum node, and its
\* database unless start() failed before the controller knew it.  (Clients that are
\* connected stay so: shutdownServers only stops listening.)
StoppedIsClosed ==
  \A s \in DOMAIN sessions :
    LET r == sessions[s]
    IN ~r.running =>
         /\ r.queue # "on"
         /\ r.server => r.db /\ r.handle = "open"
         /\ ~disturbed => /\ ~r.server
                          /\ r.handle # "closing" => ~r.rpc
                          /\ r.handle = "open" => ~r.db /\ r.pc = "ended"

\* Under runServer one error costs one retry and brings one session, so that there
\* are never more of them than retries and one, and none is counted below zero.
\* (An error of the health monitor does not stop the start() it interrupts, which
\* may fail later and take a second retry: with one the retries are still not
\* counted below zero, but the sessions may be more.)
RetriesBounded ==
  TypeOK /\ (owner = "runServer" /\ ~disturbed => Len(sessions) <= MaxSystemRetries + 1)

\* A migration cut short by a kill does not keep a later session from its own:
\* the database it left locked is replaced.  (One that was cut short while it
\* was imported is not.)
MigrationIsFree ==
  ~disturbed => \A s \in DOMAIN sessions :
    At(s, "migrating") /\ sessions[s].file # None => files[sessions[s].file].state # "locked"

\* Whatever fails and whenever it does, the process started by runServer comes
\* to listen for blocks, or exits for its supervisor to see.
UpOrExits ==
  (owner = "runServer" /\ alive) ~> (~alive \/ \E s \in DOMAIN sessions : sessions[s].pc = "listening")
=============================================================================
