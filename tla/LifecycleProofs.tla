--------------------------- MODULE LifecycleProofs --------------------------
(***************************************************************************)
(* Proofs about NodeLifecycle, for any number of retries, controllers,     *)
(* launches, calls of the application, files and uploads.                  *)
(*                                                                         *)
(* The inductive invariant: undisturbed, all controllers but the newest    *)
(* are over; how far the newest is in start() decides its connection, its  *)
(* file and what the path and the upload file hold; and what is left of    *)
(* the retries is what the controllers started so far have not used up.    *)
(***************************************************************************)
EXTENDS NodeLifecycle, TLAPS

Early == {"connecting", "checking upload", "writing upload", "opening", "replacing",
          "migrating", "migrated"}
Late  == {"bulk", "synced", "checks", "listening"}

\* A retry is either left or turned into a timer; an application has neither,
\* and runServer makes no calls.
Budget(r) == /\ r.retries + r.restarts <= MaxSystemRetries
             /\ owner = "app" => r.restarts = 0
             /\ owner = "runServer" => r.then = "nothing"

\* What holds also of a controller that was shut down while it opened its database:
\* its port is open only with its database, and a queue that was stopped stays so.
Port(r) ==
  /\ r.pc \in Early => ~r.db
  /\ r.pc \in {"replacing", "migrating", "migrated"} => r.handle = "open"
  /\ r.server => r.db /\ r.handle = "open"
  /\ ~r.running => r.queue # "on"

\* A controller while there are n files.
Legal(r, n) == /\ r \in Session /\ Budget(r) /\ Port(r) /\ r.file \in 0..n
               /\ r.pc = "migrated" => r.file # None

FilesInv ==
  /\ files \in Seq(DatabaseFile) /\ Len(files) <= MaxFiles /\ path \in 0..Len(files)
  /\ upload \in 1..MaxUpload /\ uploadFile \in -1..upload
  /\ \A f \in DOMAIN files : files[f].upload <= upload

Ground ==
  /\ owner \in {"runServer", "app"} /\ FilesInv
  /\ sessions \in Seq(Session) /\ (~alive => sessions = <<>>)
  /\ \A s \in DOMAIN sessions : Legal(sessions[s], Len(files))

\* What a controller's flags, connection and calls have to do with one another.
Orderly(r) ==
  /\ r.pc \in Early => /\ r.running /\ ~r.db /\ r.then = "nothing" /\ r.restarts = 0
                       /\ r.handle = IF r.pc \in {"replacing", "migrating", "migrated"}
                                     THEN "open" ELSE "none"
  /\ r.pc \in Late => r.restarts = 0 /\ (r.running => r.db)
  /\ r.db => r.handle = IF r.running THEN "open" ELSE "closing"
  /\ ~r.db => r.handle # "closing" /\ (r.pc \in Late => r.handle = "closed")
  /\ ~r.running => ~r.server /\ r.queue # "on" /\ (r.handle # "closing" => ~r.rpc)
  /\ r.block # "idle" => r.pc = "listening"
  /\ r.then # "nothing" => ~r.running \/ (r.pc = "ended" /\ ~r.db)
  /\ r.then \in {"importing", "writing"} => r.handle # "closing"

\* A controller that is not the newest.
Over(r) == IF owner = "runServer" THEN r.pc = "ended" /\ r.restarts = 0
           ELSE ~r.running /\ r.handle # "closing" /\ r.then = "nothing"

PathIs(states) == path # None /\ files[path].upload = upload /\ files[path].state \in states

\* The newest controller and the files.
InPlace(r) ==
  /\ r.pc = "writing upload" => (path # None => files[path].upload = upload)
  /\ r.pc = "opening" => uploadFile = upload /\ (path # None => files[path].upload = upload)
  /\ r.pc = "replacing" => uploadFile = upload /\ path # None
  /\ r.pc = "migrating" => /\ uploadFile = upload /\ r.file = path
                           /\ path # None => PathIs({"empty", "ready", "torn"})
  /\ r.pc = "migrated" => uploadFile = upload /\ r.file = path /\ PathIs({"locked"})
  /\ r.pc \in Late /\ r.handle # "closed" => r.file = path /\ PathIs({"ready"})

\* The retries that the newest controller has left, or will hand on.
Tally(r) == owner = "runServer" => /\ r.retries + r.restarts = MaxSystemRetries - Len(sessions) + 1
                                   /\ r.restarts <= 1

\* A database at the path comes with an upload file, never of later contracts.
UploadKnown == path # None => uploadFile # None /\ uploadFile <= files[path].upload

Calm ==
  /\ \A s \in DOMAIN sessions : Orderly(sessions[s]) /\ (s < Len(sessions) => Over(sessions[s]))
  /\ sessions # <<>> => InPlace(sessions[Len(sessions)]) /\ Tally(sessions[Len(sessions)])
  /\ UploadKnown

IInv == Ground /\ (~disturbed => Calm)
-----------------------------------------------------------------------------
(* Sessions and files one at a time. *)

USE LifecycleAssumption

LEMMA GroundTypes == Ground => TypeOK
BY DEF Ground, FilesInv, Legal, TypeOK, None

LEMMA GroundInit == Init => Ground
BY DEF Init, Ground, FilesInv, None

\* A session replaced by another, and perhaps files added.
LEMMA GroundGoes ==
  ASSUME Ground, FilesInv', Len(files)' >= Len(files), owner' = owner,
         NEW s \in DOMAIN sessions, NEW r, Legal(r, Len(files))', Goes(s, r)
  PROVE  Ground'
<1>1. /\ sessions' = [sessions EXCEPT ![s] = r] /\ alive' = alive /\ r \in Session
      /\ sessions \in Seq(Session)
  BY DEF Goes, Legal, Ground
<1>2. sessions' \in Seq(Session) /\ DOMAIN sessions' = DOMAIN sessions
  BY <1>1
<1>3. ASSUME NEW t \in DOMAIN sessions' PROVE Legal(sessions[t], Len(files))'
  <2>1. CASE t = s
    BY <1>1, <2>1
  <2>2. CASE t # s
    <3>1. Legal(sessions[t], Len(files)) /\ sessions'[t] = sessions[t]
      BY <1>1, <1>2, <2>2 DEF Ground
    <3>2. Len(files) \in Nat /\ Len(files)' \in Nat
      BY DEF Ground, FilesInv
    <3> QED
      BY <3>1, <3>2 DEF Legal, Budget
  <2> QED
    BY <2>1, <2>2
<1>4. ~alive' => sessions' = <<>>
  BY <1>1 DEF Ground
<1> QED
  BY <1>2, <1>3, <1>4 DEF Ground

LEMMA GroundExit ==
  ASSUME Ground, FilesInv', owner' = owner, Exit
  PROVE  Ground'
BY DEF Ground, Exit

LEMMA Counters ==
  ASSUME NEW r \in Session
  PROVE  /\ r.retries \in 0..MaxSystemRetries /\ r.restarts \in 0..MaxSystemRetries
         /\ r.retries \in Nat /\ r.restarts \in Nat /\ MaxSystemRetries \in Nat
<1>1. r.retries \in 0..MaxSystemRetries /\ r.restarts \in 0..MaxSystemRetries
  BY DEF Session
<1> QED
  BY <1>1

\* Stopping a running session, field by field.
LEMMA StoppedFields ==
  ASSUME NEW r \in Session
  PROVE  /\ Stopped(r) \in Session
         /\ ~r.running => Stopped(r) = r
         /\ Stopped(r).pc = r.pc /\ Stopped(r).db = r.db /\ Stopped(r).file = r.file
         /\ Stopped(r).block = r.block /\ Stopped(r).then = r.then
         /\ Stopped(r).retries = r.retries /\ Stopped(r).restarts = r.restarts
         /\ ~Stopped(r).running
         /\ r.running => /\ ~Stopped(r).server /\ Stopped(r).queue # "on"
                         /\ Stopped(r).handle = IF r.db THEN "closing" ELSE r.handle
                         /\ ~r.db => ~Stopped(r).rpc
<1>1. CASE ~r.running
  BY <1>1 DEF Stopped
<1>2. CASE r.running
  <2>1. PICK h \in {"none", "open", "closing", "closed"} : h = IF r.db THEN "closing" ELSE r.handle
    BY DEF Session
  <2>2. PICK q \in {"none", "paused"} : q = IF r.queue = "on" THEN "paused" ELSE r.queue
    BY DEF Session
  <2>3. PICK b \in BOOLEAN : b = (r.db /\ r.rpc)
    OBVIOUS
  <2>4. Stopped(r) = [r EXCEPT !.running = FALSE, !.queue = q, !.server = FALSE, !.handle = h, !.rpc = b]
    BY <1>2, <2>1, <2>2, <2>3 DEF Stopped
  <2>5. Stopped(r) \in Session
    <3>1. [r EXCEPT !.running = FALSE, !.queue = q] \in Session
      BY DEF Session
    <3>2. PICK s \in Session : s = [r EXCEPT !.running = FALSE, !.queue = q]
      BY <3>1
    <3>3. [s EXCEPT !.server = FALSE, !.handle = h] \in Session
      BY ZenonT(40) DEF Session
    <3>4. PICK u \in Session : u = [s EXCEPT !.server = FALSE, !.handle = h]
      BY <3>3
    <3>5. [u EXCEPT !.rpc = b] \in Session
      BY DEF Session
    <3>6. Stopped(r) = [u EXCEPT !.rpc = b]
      BY <2>4, <3>2, <3>4 DEF Session
    <3> QED
      BY <3>5, <3>6
  <2>6. /\ Stopped(r).pc = r.pc /\ Stopped(r).db = r.db /\ Stopped(r).file = r.file
        /\ Stopped(r).block = r.block /\ Stopped(r).then = r.then
        /\ Stopped(r).retries = r.retries /\ Stopped(r).restarts = r.restarts
        /\ Stopped(r).running = FALSE /\ Stopped(r).server = FALSE /\ Stopped(r).queue = q
        /\ Stopped(r).handle = h /\ Stopped(r).rpc = b
    BY <2>4 DEF Session
  <2>7. ~r.db => ~Stopped(r).rpc
    BY <2>3, <2>6
  <2> QED
    BY <1>2, <2>1, <2>2, <2>5, <2>6, <2>7
<1> QED
  BY <1>1, <1>2

LEMMA StoppedLegal ==
  ASSUME NEW r, NEW n \in Nat, Legal(r, n)
  PROVE  Legal(Stopped(r), n)
<1>1. PICK q : q = Stopped(r)
  OBVIOUS
<1>2. r \in Session /\ Port(r)
  BY DEF Legal
<1>3. /\ q \in Session /\ q.pc = r.pc /\ q.db = r.db /\ q.file = r.file /\ q.then = r.then
      /\ q.retries = r.retries /\ q.restarts = r.restarts /\ (~r.running => q = r)
      /\ r.running => ~q.server /\ q.queue # "on" /\ q.handle = IF r.db THEN "closing" ELSE r.handle
  BY <1>1, <1>2, StoppedFields
<1>4. Port(q)
  BY <1>2, <1>3 DEF Port, Early
<1> QED
  BY <1>1, <1>3, <1>4 DEF Legal, Budget

\* An error caught with a retry left: Stopped, and a retry turned into a timer.
LEMMA CaughtFields ==
  ASSUME NEW r \in Session, r.retries > 0, r.retries + r.restarts <= MaxSystemRetries
  PROVE  /\ Caught(r) \in Session
         /\ Caught(r).retries = r.retries - 1 /\ Caught(r).restarts = r.restarts + 1
         /\ Caught(r) = [Stopped(r) EXCEPT !.retries = r.retries - 1, !.restarts = r.restarts + 1]
         /\ Caught(r).pc = r.pc /\ Caught(r).file = r.file /\ Caught(r).then = r.then
         /\ \A n \in Nat : Legal(r, n) => Port(Caught(r))
<1>1. PICK q \in Session : q = Stopped(r)
  BY StoppedFields
<1>2. /\ q.retries = r.retries /\ q.restarts = r.restarts
      /\ q.pc = r.pc /\ q.file = r.file /\ q.then = r.then
  BY <1>1, StoppedFields
<1>3. Caught(r) = [q EXCEPT !.retries = r.retries - 1, !.restarts = r.restarts + 1]
  BY <1>1, <1>2 DEF Caught
<1>4. r.retries - 1 \in 0..MaxSystemRetries /\ r.restarts + 1 \in 0..MaxSystemRetries
  BY Counters
<1>5. Caught(r) \in Session
  BY <1>3, <1>4 DEF Session
<1>6. /\ Caught(r).retries = r.retries - 1 /\ Caught(r).restarts = r.restarts + 1
      /\ Caught(r).pc = q.pc /\ Caught(r).file = q.file /\ Caught(r).then = q.then
      /\ Caught(r).db = q.db /\ Caught(r).handle = q.handle /\ Caught(r).server = q.server
      /\ Caught(r).running = q.running /\ Caught(r).queue = q.queue
  BY <1>3, <1>4 DEF Session
<1>7. ASSUME NEW n \in Nat, Legal(r, n) PROVE Port(Caught(r))
  <2>1. Port(q)
    BY <1>1, <1>7, StoppedLegal DEF Legal
  <2> QED
    BY <1>6, <2>1 DEF Port
<1> QED
  BY <1>1, <1>2, <1>3, <1>5, <1>6, <1>7

LEMMA CaughtLegal ==
  ASSUME NEW r, NEW n \in Nat, Legal(r, n), r.retries > 0, owner = "runServer"
  PROVE  Legal(Caught(r), n)
<1>1. r \in Session /\ r.retries + r.restarts <= MaxSystemRetries
  BY DEF Legal, Budget
<1>2. /\ Caught(r) \in Session /\ Caught(r).pc = r.pc
      /\ Caught(r).file = r.file /\ Caught(r).then = r.then /\ Port(Caught(r))
      /\ Caught(r).retries = r.retries - 1 /\ Caught(r).restarts = r.restarts + 1
  BY <1>1, CaughtFields
<1>3. Caught(r).retries + Caught(r).restarts = r.retries + r.restarts
  BY <1>1, <1>2, Counters
<1> QED
  BY <1>1, <1>2, <1>3 DEF Legal, Budget

LEMMA GroundFail ==
  ASSUME Ground, FilesInv', Len(files)' >= Len(files), owner' = owner,
         NEW s \in DOMAIN sessions, NEW r, Legal(r, Len(files))', Fail(s, r)
  PROVE  Ground'
<1>1. CASE Goes(s, r)
  BY <1>1, GroundGoes
<1>2. CASE Exit
  BY <1>2, GroundExit
<1>3. CASE owner = "runServer" /\ r.retries > 0 /\ Goes(s, Caught(r))
  <2>1. PICK q : q = Caught(r)
    OBVIOUS
  <2>2. Legal(r, Len(files)') /\ Len(files)' \in Nat
    BY DEF Legal, Budget, FilesInv
  <2>3. Legal(q, Len(files)')
    BY <1>3, <2>1, <2>2, CaughtLegal
  <2> QED
    BY <1>3, <2>1, <2>3, GroundGoes DEF Legal, Budget
<1> QED
  BY <1>1, <1>2, <1>3 DEF Fail

-----------------------------------------------------------------------------
(* The same for an undisturbed process. *)

LEMMA SessionAt ==
  ASSUME Ground, NEW s \in DOMAIN sessions
  PROVE  /\ sessions[s] \in Session /\ Legal(sessions[s], Len(files))
         /\ s \in 1..Len(sessions) /\ Len(sessions) \in Nat /\ Len(files) \in Nat
BY DEF Ground, Legal, FilesInv

\* Only the newest controller opens a database; an older one has done with its own.
LEMMA Newest ==
  ASSUME Ground, Calm, NEW s \in DOMAIN sessions
  PROVE  /\ sessions[s].pc \in Early => s = Len(sessions)
         /\ s # Len(sessions) => Over(sessions[s])
         /\ s # Len(sessions) /\ sessions[s].pc \in Late =>
              owner = "app" /\ ~sessions[s].running /\ ~sessions[s].db
<1>1. s # Len(sessions) => Over(sessions[s])
  BY SessionAt DEF Calm
<1>2. Orderly(sessions[s]) /\ owner \in {"runServer", "app"}
  BY DEF Calm, Ground
<1> QED
  BY <1>1, <1>2 DEF Over, Orderly, Early, Late

LEMMA CalmGoes ==
  ASSUME Ground, Calm, owner' = owner,
         NEW s \in DOMAIN sessions, NEW r \in Session, Goes(s, r), Orderly(r),
         s # Len(sessions) => Over(r) /\ UNCHANGED fileVars,
         s = Len(sessions) => InPlace(r)' /\ Tally(r),
         UploadKnown'
  PROVE  Calm'
<1>1. /\ sessions' = [sessions EXCEPT ![s] = r] /\ sessions \in Seq(Session)
      /\ Len(sessions) \in Nat /\ s \in 1..Len(sessions)
  BY SessionAt DEF Goes, Ground
<1>2. DOMAIN sessions' = DOMAIN sessions /\ Len(sessions)' = Len(sessions)
  BY <1>1
<1>3. ASSUME NEW t \in DOMAIN sessions'
      PROVE  Orderly(sessions[t])' /\ (t < Len(sessions)' => Over(sessions[t])')
  <2>1. CASE t = s
    BY <1>1, <1>2, <2>1 DEF Orderly, Over
  <2>2. CASE t # s
    <3>1. sessions'[t] = sessions[t] /\ t \in DOMAIN sessions
      BY <1>1, <1>2, <2>2
    <3> QED
      BY <1>2, <3>1 DEF Calm, Orderly, Over
  <2> QED
    BY <2>1, <2>2
<1>4. (InPlace(sessions[Len(sessions)]) /\ Tally(sessions[Len(sessions)]))'
  <2>1. CASE s = Len(sessions)
    BY <1>1, <1>2, <2>1 DEF InPlace, PathIs, Tally
  <2>2. CASE s # Len(sessions)
    <3>1. sessions'[Len(sessions)'] = sessions[Len(sessions)] /\ sessions # <<>>
      BY <1>1, <1>2, <2>2
    <3> QED
      <4>1. PICK q : q = sessions[Len(sessions)]
        OBVIOUS
      <4>2. InPlace(q) /\ Tally(q)
        BY <3>1, <4>1 DEF Calm
      <4>3. InPlace(q)' /\ Tally(q)'
        BY <1>2, <2>2, <4>2 DEF InPlace, PathIs, Tally, fileVars
      <4> QED
        BY <3>1, <4>1, <4>3 DEF InPlace, PathIs, Tally
  <2> QED
    BY <2>1, <2>2
<1> QED
  BY <1>3, <1>4 DEF Calm

LEMMA CalmExit == ASSUME Exit, UploadKnown' PROVE Calm'
BY DEF Exit, Calm

\* The error callback of a controller whose start() has ended.
LEMMA CalmFail ==
  ASSUME Ground, Calm, owner' = owner, NEW s \in DOMAIN sessions, NEW r \in Session, Fail(s, r),
         sessions[s].pc # "ended", r.pc = "ended", r.restarts = 0, Orderly(r),
         r.retries + r.restarts <= MaxSystemRetries,
         s # Len(sessions) => Over(r) /\ UNCHANGED fileVars,
         s = Len(sessions) => Tally(r),
         UploadKnown'
  PROVE  Calm'
<1>1. InPlace(r)'
  BY DEF InPlace, Late
<1>2. CASE Goes(s, r)
  BY <1>1, <1>2, CalmGoes
<1>3. CASE Exit
  BY <1>3, CalmExit
<1>4. CASE owner = "runServer" /\ r.retries > 0 /\ Goes(s, Caught(r))
  <2>1. s = Len(sessions)
    BY <1>4, Newest DEF Over
  <2>2. PICK q : q = Caught(r)
    OBVIOUS
  <2>3. PICK h \in Session : h = Stopped(r)
    BY StoppedFields
  <2>4. /\ q.retries = r.retries - 1 /\ q.restarts = r.restarts + 1 /\ q.pc = "ended"
        /\ q = [h EXCEPT !.retries = r.retries - 1, !.restarts = r.restarts + 1]
    BY <1>4, <2>2, <2>3, CaughtFields
  <2>5. /\ q.running = h.running /\ q.db = h.db /\ q.handle = h.handle /\ q.server = h.server
        /\ q.queue = h.queue /\ q.rpc = h.rpc /\ q.block = h.block /\ q.then = h.then
    <3>1. PICK m, n : m = r.retries - 1 /\ n = r.restarts + 1
      OBVIOUS
    <3>2. q = [h EXCEPT !.retries = m, !.restarts = n]
      BY ONLY <2>4, <3>1
    <3>3. q.running = h.running /\ q.db = h.db /\ q.server = h.server /\ q.rpc = h.rpc
      BY <3>2 DEF Session
    <3>4. q.handle = h.handle /\ q.queue = h.queue /\ q.block = h.block /\ q.then = h.then
      BY <3>2 DEF Session
    <3> QED
      BY <3>3, <3>4
  <2>6. Orderly(q)
    BY <2>3, <2>4, <2>5, StoppedFields DEF Orderly, Early, Late
  <2>7. Tally(q)
    BY <2>1, <2>4, Counters DEF Tally
  <2>8. InPlace(q)'
    BY <2>4 DEF InPlace, Late
  <2>9. q \in Session
    BY <1>4, <2>2, CaughtFields
  <2> QED
    BY <1>4, <2>1, <2>2, <2>6, <2>7, <2>8, <2>9, CalmGoes
<1> QED
  BY <1>2, <1>3, <1>4 DEF Fail
-----------------------------------------------------------------------------
(* One action at a time. *)

LEMMA FilesStay ==
  ASSUME Ground, UNCHANGED fileVars
  PROVE  FilesInv' /\ Len(files)' >= Len(files) /\ (UploadKnown => UploadKnown')
BY DEF Ground, FilesInv, fileVars, UploadKnown

LEMMA FilesBefore ==
  ASSUME IInv
  PROVE  /\ Ground /\ FilesInv /\ Len(files) \in Nat
         /\ upload \in 1..MaxUpload /\ upload \in Nat /\ upload # None
         /\ path # None => /\ path \in DOMAIN files /\ files[path] \in DatabaseFile
                           /\ files[path].upload \in Nat /\ files[path].upload <= upload
<1>1. FilesInv /\ Ground
  BY DEF IInv, Ground
<1>2. Len(files) \in Nat /\ upload \in 1..MaxUpload /\ upload \in Nat /\ upload # None
  BY <1>1 DEF FilesInv, None
<1>3. ASSUME path # None
      PROVE  /\ path \in DOMAIN files /\ files[path] \in DatabaseFile
             /\ files[path].upload <= upload
  BY <1>1, <1>3 DEF FilesInv, None
<1>4. \A f \in DatabaseFile : f.upload \in Nat
  BY DEF DatabaseFile
<1> QED
  BY <1>1, <1>2, <1>3, <1>4

LEMMA GoesStep ==
  ASSUME IInv, FilesInv', Len(files)' >= Len(files), owner' = owner,
         NEW s \in DOMAIN sessions, NEW r, Goes(s, r), Legal(r, Len(files))',
         ~disturbed' =>
           /\ ~disturbed /\ Orderly(r) /\ UploadKnown'
           /\ s # Len(sessions) => Over(r) /\ UNCHANGED fileVars
           /\ s = Len(sessions) => InPlace(r)' /\ Tally(r)
  PROVE  IInv'
<1>1. Ground'
  BY GroundGoes DEF IInv
<1>2. r \in Session
  BY DEF Legal
<1>3. ASSUME ~disturbed' PROVE Calm'
  BY <1>2, <1>3, CalmGoes DEF IInv
<1> QED
  BY <1>1, <1>3 DEF IInv

LEMMA FailStep ==
  ASSUME IInv, FilesInv', Len(files)' >= Len(files), owner' = owner,
         NEW s \in DOMAIN sessions, NEW r, Fail(s, r), Legal(r, Len(files))',
         ~disturbed' =>
           /\ ~disturbed /\ Orderly(r) /\ UploadKnown'
           /\ sessions[s].pc # "ended" /\ r.pc = "ended" /\ r.restarts = 0
           /\ s # Len(sessions) => Over(r) /\ UNCHANGED fileVars
           /\ s = Len(sessions) => Tally(r)
  PROVE  IInv'
<1>1. Ground'
  BY GroundFail DEF IInv
<1>2. r \in Session /\ r.retries + r.restarts <= MaxSystemRetries
  BY DEF Legal, Budget
<1>3. ASSUME ~disturbed' PROVE Calm'
  BY <1>2, <1>3, CalmFail DEF IInv
<1> QED
  BY <1>1, <1>3 DEF IInv

LEMMA ExitStep ==
  ASSUME IInv, Exit, FilesInv', owner' = owner, ~disturbed' => UploadKnown'
  PROVE  IInv'
BY GroundExit, CalmExit DEF IInv

\* What is known of a controller before its step.
LEMMA Before ==
  ASSUME IInv, NEW s \in DOMAIN sessions
  PROVE  /\ sessions[s] \in Session /\ Legal(sessions[s], Len(files))
         /\ s \in 1..Len(sessions) /\ Len(sessions) \in Nat
         /\ ~disturbed =>
              /\ Orderly(sessions[s]) /\ UploadKnown
              /\ s # Len(sessions) => Over(sessions[s])
              /\ s = Len(sessions) => InPlace(sessions[s]) /\ Tally(sessions[s])
              /\ sessions[s].pc \in Early => s = Len(sessions)
<1>1. Ground /\ (~disturbed => Calm)
  BY DEF IInv
<1>2. /\ sessions[s] \in Session /\ Legal(sessions[s], Len(files))
      /\ s \in 1..Len(sessions) /\ Len(sessions) \in Nat
  BY <1>1, SessionAt
<1>3. ASSUME ~disturbed
      PROVE  /\ Orderly(sessions[s]) /\ UploadKnown
             /\ s # Len(sessions) => Over(sessions[s])
             /\ s = Len(sessions) => InPlace(sessions[s]) /\ Tally(sessions[s])
             /\ sessions[s].pc \in Early => s = Len(sessions)
  <2>1. sessions # <<>>
    BY <1>2
  <2> QED
    BY <1>1, <1>3, <2>1, Newest DEF Calm
<1> QED
  BY <1>2, <1>3

LEMMA QuietSteps ==
  ASSUME IInv, NEW s \in 1..MaxSessions,
         FinishBulkSync(s) \/ StartChecks(s) \/ StartListening(s) \/ BeginBlock(s)
           \/ CommitBlock(s) \/ FinishBlock(s)
  PROVE  IInv'
<1>1. s \in DOMAIN sessions /\ UNCHANGED <<restVars, files, path, uploadFile>>
  BY DEF FinishBulkSync, StartChecks, StartListening, BeginBlock, CommitBlock, FinishBlock, At
<1>2. PICK q : q = sessions[s]
  OBVIOUS
<1>3. q \in Session /\ Legal(q, Len(files))
  BY <1>1, <1>2, Before
<1>4. PICK pc, block, queue :
        /\ Goes(s, [q EXCEPT !.pc = pc, !.block = block, !.queue = queue])
        /\ pc \in {"synced", "checks", "listening", "ended"} /\ q.pc \in Late
        /\ block \in {"idle", "writing", "checking"} /\ queue \in {"none", "on", "paused"}
        /\ queue = q.queue \/ q.running
        /\ q.pc = "listening" => pc = "listening"
        /\ q.pc # "listening" => block = q.block
  <2> q.block \in {"idle", "writing", "checking"} /\ q.queue \in {"none", "on", "paused"}
    BY <1>3 DEF Session
  <2>1. CASE FinishBulkSync(s)
    <3>1. Goes(s, [q EXCEPT !.pc = "synced", !.block = q.block, !.queue = q.queue])
      BY <2>1, <1>2, <1>3 DEF FinishBulkSync, Session
    <3>2. q.pc = "bulk" /\ q.pc \in Late
      BY <2>1, <1>2 DEF FinishBulkSync, At, Late
    <3> QED
      BY <3>1, <3>2
  <2>2. CASE StartChecks(s)
    <3>1. PICK pc : pc = IF IsRunning(q) THEN "checks" ELSE "ended"
      OBVIOUS
    <3>2. Goes(s, [q EXCEPT !.pc = pc, !.block = q.block, !.queue = q.queue])
      BY <2>2, <3>1, <1>2, <1>3 DEF StartChecks, GoesOn, Session
    <3>3. q.pc = "synced" /\ q.pc \in Late
      BY <2>2, <1>2 DEF StartChecks, At, Late
    <3> QED
      BY <3>1, <3>2, <3>3
  <2>3. CASE StartListening(s)
    <3>1. PICK pc : pc = IF IsRunning(q) THEN "listening" ELSE "ended"
      OBVIOUS
    <3>2. PICK queue : queue = IF pc = "listening" THEN "on" ELSE q.queue
      OBVIOUS
    <3>3. Goes(s, [q EXCEPT !.pc = pc, !.block = q.block, !.queue = queue])
      BY <2>3, <3>1, <3>2, <1>2, <1>3 DEF StartListening, GoesOn, Session
    <3>4. q.pc = "checks" /\ q.pc \in Late /\ (queue # q.queue => q.running)
      BY <2>3, <1>2, <3>1, <3>2 DEF StartListening, At, Late, IsRunning
    <3>5. queue \in {"none", "on", "paused"}
      BY <3>2
    <3> QED
      BY <3>1, <3>3, <3>4, <3>5
  <2>4. CASE BeginBlock(s) \/ CommitBlock(s) \/ FinishBlock(s)
    <3>1. PICK block : /\ block \in {"idle", "writing", "checking"}
                       /\ Goes(s, [q EXCEPT !.block = block])
      BY <2>4, <1>2 DEF BeginBlock, CommitBlock, FinishBlock
    <3>2. q.pc = "listening"
      BY <2>4, <1>2 DEF BeginBlock, CommitBlock, FinishBlock, At
    <3>3. Goes(s, [q EXCEPT !.pc = q.pc, !.block = block, !.queue = q.queue])
      BY <3>1, <1>3 DEF Session
    <3>4. q.pc \in Late
      BY <3>2 DEF Late
    <3> QED
      BY <3>1, <3>2, <3>3, <3>4
  <2> QED
    BY <2>1, <2>2, <2>3, <2>4
<1>5. PICK r : r = [q EXCEPT !.pc = pc, !.block = block, !.queue = queue]
  OBVIOUS
<1>6. /\ r.pc = pc /\ r.block = block /\ r.queue = queue /\ r.running = q.running /\ r.db = q.db
      /\ r.handle = q.handle /\ r.file = q.file /\ r.server = q.server
      /\ r.rpc = q.rpc /\ r.then = q.then /\ r.retries = q.retries /\ r.restarts = q.restarts
  <2>1. /\ r.pc = pc /\ r.block = block /\ r.queue = queue /\ r.running = q.running /\ r.db = q.db
        /\ r.handle = q.handle /\ r.file = q.file /\ r.server = q.server
    BY <1>3, <1>5 DEF Session
  <2>2. r.rpc = q.rpc /\ r.then = q.then /\ r.retries = q.retries /\ r.restarts = q.restarts
    BY <1>3, <1>5 DEF Session
  <2> QED
    BY <2>1, <2>2
<1>7. r \in Session
  <2>1. PICK u \in Session : u = [q EXCEPT !.pc = pc]
    <3>1. [q EXCEPT !.pc = pc] \in Session
      BY <1>3, <1>4 DEF Session
    <3> QED
      BY <3>1
  <2>2. PICK v \in Session : v = [u EXCEPT !.block = block]
    <3>1. [u EXCEPT !.block = block] \in Session
      BY <1>4, ZenonT(40) DEF Session
    <3> QED
      BY <3>1
  <2>3. [v EXCEPT !.queue = queue] \in Session
    BY <1>4, ZenonT(40) DEF Session
  <2>4. r = [v EXCEPT !.queue = queue]
    BY <1>3, <1>5, <2>1, <2>2 DEF Session
  <2> QED
    BY <2>3, <2>4
<1>8. Legal(r, Len(files))'
  BY <1>1, <1>3, <1>4, <1>6, <1>7 DEF Legal, Budget, Port, Early, restVars
<1>9. ASSUME ~disturbed
      PROVE  /\ Orderly(r)
             /\ s # Len(sessions) => Over(r)
             /\ s = Len(sessions) => InPlace(r)' /\ Tally(r)
  <2>1. /\ Orderly(q)
        /\ s # Len(sessions) => Over(q)
        /\ s = Len(sessions) => InPlace(q) /\ Tally(q)
    BY <1>1, <1>2, <1>9, Before
  <2>2. Orderly(r)
    BY <2>1, <1>4, <1>6, <1>7 DEF Orderly, Early, Late
  <2>3. s # Len(sessions) => Over(r)
    BY <2>1, <1>4, <1>6, <1>7 DEF Over, Late
  <2>4. s = Len(sessions) => InPlace(r)' /\ Tally(r)
    BY <2>1, <1>1, <1>4, <1>6, <1>7 DEF InPlace, Tally, PathIs, Late, restVars
  <2> QED
    BY <2>2, <2>3, <2>4
<1>10. FilesInv' /\ Len(files)' >= Len(files) /\ (~disturbed => UploadKnown')
  BY <1>1, FilesStay, Before DEF IInv, restVars, fileVars
<1>11. Goes(s, r) /\ owner' = owner /\ disturbed' = disturbed /\ UNCHANGED fileVars
  BY <1>1, <1>4, <1>5 DEF restVars, fileVars
<1>12. ~disturbed' =>
         /\ ~disturbed /\ Orderly(r) /\ UploadKnown'
         /\ s # Len(sessions) => Over(r) /\ UNCHANGED fileVars
         /\ s = Len(sessions) => InPlace(r)' /\ Tally(r)
  BY <1>9, <1>10, <1>11
<1> QED
  BY <1>1, <1>8, <1>10, <1>11, <1>12, GoesStep

\* An error of the health monitor reaches a controller that goes on: the runs
\* of runServer that meet one are disturbed.
LEMMA MonitorStep ==
  ASSUME IInv, NEW s \in DOMAIN sessions, NEW r, Legal(r, Len(files)),
         UNCHANGED <<owner, fileVars>>,
         \/ Goes(s, r) /\ UNCHANGED disturbed
         \/ Fail(s, r) /\ disturbed' = (disturbed \/ owner = "runServer"),
         ~disturbed => /\ Orderly(r)
                       /\ s # Len(sessions) => Over(r)
                       /\ s = Len(sessions) => InPlace(r) /\ Tally(r)
  PROVE  IInv'
<1>1. /\ FilesInv' /\ Len(files)' >= Len(files) /\ UNCHANGED fileVars
      /\ ~disturbed => UploadKnown'
  BY FilesStay, Before DEF IInv
<1>2. Legal(r, Len(files))'
  BY DEF Legal, Budget, fileVars
<1>3. s = Len(sessions) /\ InPlace(r) => InPlace(r)'
  BY DEF InPlace, PathIs, fileVars
<1>4. CASE Goes(s, r) /\ (~disturbed' => ~disturbed)
  BY <1>1, <1>2, <1>3, <1>4, GoesStep
<1>5. CASE Fail(s, r) /\ disturbed' = (disturbed \/ owner = "runServer") /\ owner = "runServer"
  BY <1>1, <1>2, <1>5, FailStep
<1>6. CASE Fail(s, r) /\ disturbed' = (disturbed \/ owner = "runServer") /\ owner # "runServer"
  <2>1. Goes(s, r)
    BY <1>6 DEF Fail
  <2> QED
    BY <2>1, <1>4, <1>6
<1> QED
  BY <1>4, <1>5, <1>6

LEMMA ConnectStep == ASSUME IInv, NEW s \in 1..MaxSessions, Connect(s) PROVE IInv'
<1>1. s \in DOMAIN sessions /\ UNCHANGED <<owner, fileVars>>
  BY DEF Connect, At
<1>2. PICK q : q = sessions[s]
  OBVIOUS
<1>3. q \in Session /\ Legal(q, Len(files)) /\ q.pc = "connecting"
  BY <1>1, <1>2, Before DEF Connect, At
<1>4. PICK m \in BOOLEAN :
        \/ /\ Goes(s, [q EXCEPT !.pc = "checking upload", !.rpc = TRUE, !.monitor = m])
           /\ UNCHANGED disturbed
        \/ /\ Fail(s, [q EXCEPT !.pc = "checking upload", !.rpc = TRUE, !.monitor = m])
           /\ disturbed' = (disturbed \/ owner = "runServer")
  <2>1. q.monitor \in BOOLEAN
    BY <1>3 DEF Session
  <2>2. [q EXCEPT !.pc = "checking upload", !.rpc = TRUE]
          = [q EXCEPT !.pc = "checking upload", !.rpc = TRUE, !.monitor = q.monitor]
    BY <1>3 DEF Session
  <2>3. [[q EXCEPT !.pc = "checking upload", !.rpc = TRUE] EXCEPT !.monitor = TRUE]
          = [q EXCEPT !.pc = "checking upload", !.rpc = TRUE, !.monitor = TRUE]
    BY <1>3 DEF Session
  <2> QED
    BY <1>2, <2>1, <2>2, <2>3 DEF Connect
<1>5. PICK r : r = [q EXCEPT !.pc = "checking upload", !.rpc = TRUE, !.monitor = m]
  OBVIOUS
<1>6. /\ r.pc = "checking upload" /\ r.block = q.block /\ r.queue = q.queue
      /\ r.running = q.running /\ r.db = q.db
      /\ r.handle = q.handle /\ r.file = q.file /\ r.server = q.server
  BY <1>3, <1>5 DEF Session
<1>7. /\ r.then = q.then /\ r.retries = q.retries /\ r.restarts = q.restarts /\ r \in Session
  BY <1>3, <1>5 DEF Session
<1>8. Legal(r, Len(files))
  BY <1>3, <1>6, <1>7 DEF Legal, Budget, Port, Early
<1>9. ASSUME ~disturbed
      PROVE  Orderly(r) /\ s = Len(sessions) /\ InPlace(r) /\ Tally(r)
  <2>1. Orderly(q) /\ s = Len(sessions) /\ Tally(q)
    BY <1>1, <1>2, <1>3, <1>9, Before DEF Early
  <2> QED
    BY <2>1, <1>3, <1>6, <1>7 DEF Orderly, InPlace, Tally, Early, Late
<1> QED
  BY <1>1, <1>4, <1>5, <1>8, <1>9, MonitorStep

LEMMA MonitorFailsStep == ASSUME IInv, NEW s \in 1..MaxSessions, MonitorFails(s) PROVE IInv'
<1>1. /\ s \in DOMAIN sessions /\ UNCHANGED <<owner, fileVars>>
      /\ disturbed' = (disturbed \/ owner = "runServer")
  BY DEF MonitorFails
<1>2. PICK q : q = sessions[s]
  OBVIOUS
<1>3. q \in Session /\ Legal(q, Len(files))
  BY <1>1, <1>2, Before
<1>4. PICK r : r = [q EXCEPT !.monitor = FALSE]
  OBVIOUS
<1>5. Fail(s, r)
  BY <1>2, <1>4 DEF MonitorFails
<1>6. /\ r.pc = q.pc /\ r.block = q.block /\ r.queue = q.queue /\ r.running = q.running
      /\ r.db = q.db /\ r.handle = q.handle /\ r.file = q.file /\ r.server = q.server
  BY <1>3, <1>4 DEF Session
<1>7. /\ r.rpc = q.rpc /\ r.then = q.then /\ r.retries = q.retries /\ r.restarts = q.restarts
      /\ r \in Session
  BY <1>3, <1>4 DEF Session
<1>8. Legal(r, Len(files))
  BY <1>3, <1>6, <1>7 DEF Legal, Budget, Port, Early
<1>9. ASSUME ~disturbed
      PROVE  /\ Orderly(r)
             /\ s # Len(sessions) => Over(r)
             /\ s = Len(sessions) => InPlace(r) /\ Tally(r)
  <2>1. /\ Orderly(q)
        /\ s # Len(sessions) => Over(q)
        /\ s = Len(sessions) => InPlace(q) /\ Tally(q)
    BY <1>1, <1>2, <1>9, Before
  <2>2. Orderly(r)
    BY <2>1, <1>6, <1>7 DEF Orderly
  <2>3. s # Len(sessions) => Over(r)
    BY <2>1, <1>6, <1>7 DEF Over
  <2>4. s = Len(sessions) => InPlace(r) /\ Tally(r)
    BY <2>1, <1>6, <1>7 DEF InPlace, Tally
  <2> QED
    BY <2>2, <2>3, <2>4
<1> QED
  BY <1>1, <1>5, <1>8, <1>9, MonitorStep

LEMMA CheckUploadStep == ASSUME IInv, NEW s \in 1..MaxSessions, CheckUploadBlock(s) PROVE IInv'
<1>1. s \in DOMAIN sessions /\ UNCHANGED <<restVars, files, uploadFile>>
  BY DEF CheckUploadBlock, At
<1>2. PICK q : q = sessions[s]
  OBVIOUS
<1>3. q \in Session /\ Legal(q, Len(files)) /\ q.pc = "checking upload"
  BY <1>1, <1>2, Before DEF CheckUploadBlock, At
<1>4. PICK r : r = [q EXCEPT !.pc = "writing upload"]
  OBVIOUS
<1>5. Goes(s, r) /\ path' = IF IsOutdated THEN None ELSE path
  BY <1>2, <1>4 DEF CheckUploadBlock
<1>6. /\ r.pc = "writing upload" /\ r.block = q.block /\ r.queue = q.queue
      /\ r.running = q.running /\ r.db = q.db
      /\ r.handle = q.handle /\ r.file = q.file /\ r.server = q.server
  BY <1>3, <1>4 DEF Session
<1>7. /\ r.rpc = q.rpc /\ r.then = q.then /\ r.retries = q.retries /\ r.restarts = q.restarts
      /\ r \in Session
  BY <1>3, <1>4 DEF Session
<1>8. FilesInv' /\ Len(files)' >= Len(files)
  BY <1>1, <1>5, FilesBefore DEF FilesInv, restVars, None
<1>9. Legal(r, Len(files))'
  BY <1>1, <1>3, <1>6, <1>7 DEF Legal, Budget, Port, Early, restVars
<1>10. ASSUME ~disturbed
      PROVE  Orderly(r) /\ s = Len(sessions) /\ InPlace(r)' /\ Tally(r) /\ UploadKnown'
  <2>1. Orderly(q) /\ s = Len(sessions) /\ Tally(q) /\ UploadKnown
    BY <1>1, <1>2, <1>3, <1>10, Before DEF Early
  <2>2. Orderly(r) /\ Tally(r)
    BY <2>1, <1>3, <1>6, <1>7 DEF Orderly, Tally, Early, Late
  <2>3. path' # None => path' = path /\ files[path].upload = upload
    BY <2>1, <1>5, FilesBefore DEF IsOutdated, UploadKnown
  <2> QED
    BY <2>1, <2>2, <2>3, <1>1, <1>6 DEF InPlace, UploadKnown, Late, restVars
<1> QED
  BY <1>1, <1>5, <1>8, <1>10, <1>9, GoesStep DEF restVars

LEMMA WriteUploadStep == ASSUME IInv, NEW s \in 1..MaxSessions, WriteUploadBlock(s) PROVE IInv'
<1>1. s \in DOMAIN sessions /\ UNCHANGED <<restVars, files, path>>
  BY DEF WriteUploadBlock, At
<1>2. PICK q : q = sessions[s]
  OBVIOUS
<1>3. q \in Session /\ Legal(q, Len(files)) /\ q.pc = "writing upload"
  BY <1>1, <1>2, Before DEF WriteUploadBlock, At
<1>4. PICK r : r = [q EXCEPT !.pc = "opening"]
  OBVIOUS
<1>5. Goes(s, r) /\ uploadFile' = upload
  BY <1>2, <1>4 DEF WriteUploadBlock
<1>6. /\ r.pc = "opening" /\ r.block = q.block /\ r.queue = q.queue
      /\ r.running = q.running /\ r.db = q.db
      /\ r.handle = q.handle /\ r.file = q.file /\ r.server = q.server
  BY <1>3, <1>4 DEF Session
<1>7. /\ r.rpc = q.rpc /\ r.then = q.then /\ r.retries = q.retries /\ r.restarts = q.restarts
      /\ r \in Session
  BY <1>3, <1>4 DEF Session
<1>8. FilesInv' /\ Len(files)' >= Len(files)
  BY <1>1, <1>5, FilesBefore DEF FilesInv, restVars
<1>9. Legal(r, Len(files))'
  BY <1>1, <1>3, <1>6, <1>7 DEF Legal, Budget, Port, Early, restVars
<1>10. ASSUME ~disturbed
      PROVE  Orderly(r) /\ s = Len(sessions) /\ InPlace(r)' /\ Tally(r) /\ UploadKnown'
  <2>1. Orderly(q) /\ s = Len(sessions) /\ Tally(q) /\ InPlace(q)
    BY <1>1, <1>2, <1>3, <1>10, Before DEF Early
  <2>2. Orderly(r) /\ Tally(r)
    BY <2>1, <1>3, <1>6, <1>7 DEF Orderly, Tally, Early, Late
  <2>3. path # None => files[path].upload = upload
    BY <2>1, <1>3 DEF InPlace
  <2>4. UploadKnown'
    BY <2>3, <1>1, <1>5, FilesBefore DEF UploadKnown, restVars
  <2>5. InPlace(r)'
    BY <2>3, <1>1, <1>5, <1>6 DEF InPlace, Late, restVars
  <2> QED
    BY <2>1, <2>2, <2>4, <2>5
<1> QED
  BY <1>1, <1>5, <1>8, <1>10, <1>9, GoesStep DEF restVars

LEMMA StartFailsStep == ASSUME IInv, NEW s \in 1..MaxSessions, StartFails(s) PROVE IInv'
<1>1. s \in DOMAIN sessions /\ UNCHANGED <<restVars, path, uploadFile>>
  BY DEF StartFails
<1>2. PICK q : q = sessions[s]
  OBVIOUS
<1>3. /\ q \in Session /\ Legal(q, Len(files)) /\ q.pc \in Early \cup Late
      /\ q.pc \notin {"ended", "listening", "opening", "replacing", "migrating"}
  BY <1>1, <1>2, Before DEF StartFails, Early, Late
<1>4. PICK r : r = [q EXCEPT !.pc = "ended"]
  OBVIOUS
<1>5. /\ Fail(s, r)
      /\ files' = IF q.pc = "migrated" THEN [files EXCEPT ![q.file].state = "empty"] ELSE files
  BY <1>1, <1>2, <1>4 DEF StartFails, At
<1>6. /\ r.pc = "ended" /\ r.block = q.block /\ r.queue = q.queue
      /\ r.running = q.running /\ r.db = q.db
      /\ r.handle = q.handle /\ r.file = q.file /\ r.server = q.server
  BY <1>3, <1>4 DEF Session
<1>7. /\ r.rpc = q.rpc /\ r.then = q.then /\ r.retries = q.retries /\ r.restarts = q.restarts
      /\ r \in Session
  BY <1>3, <1>4 DEF Session
<1>8. /\ FilesInv' /\ Len(files)' = Len(files)
      /\ \A f \in DOMAIN files : files'[f].upload = files[f].upload
  <2>1. CASE q.pc = "migrated"
    <3>1. q.file \in DOMAIN files /\ files[q.file] \in DatabaseFile
      BY <1>3, <2>1, FilesBefore DEF Legal, FilesInv, None
    <3>2. PICK d : d = [files[q.file] EXCEPT !.state = "empty"]
      OBVIOUS
    <3>3. d \in DatabaseFile /\ d.upload = files[q.file].upload
      BY <3>1, <3>2 DEF DatabaseFile
    <3>4. files' = [files EXCEPT ![q.file] = d]
      BY <1>5, <2>1, <3>2
    <3> QED
      BY <1>1, <3>1, <3>3, <3>4, FilesBefore DEF FilesInv, restVars
  <2>2. CASE q.pc # "migrated"
    BY <2>2, <1>1, <1>5, FilesBefore DEF FilesInv, restVars
  <2> QED
    BY <2>1, <2>2
<1>9. Legal(r, Len(files))'
  BY <1>1, <1>3, <1>6, <1>7, <1>8 DEF Legal, Budget, Port, Early, restVars
<1>10. ASSUME ~disturbed
       PROVE  /\ Orderly(r) /\ UploadKnown' /\ r.restarts = 0
              /\ s # Len(sessions) => Over(r) /\ UNCHANGED fileVars
              /\ s = Len(sessions) => Tally(r)
  <2>1. /\ Orderly(q) /\ UploadKnown
        /\ s # Len(sessions) => Over(q)
        /\ s = Len(sessions) => Tally(q)
        /\ q.pc \in Early => s = Len(sessions)
    BY <1>1, <1>2, <1>10, Before
  <2>2. Orderly(r) /\ r.restarts = 0
    BY <2>1, <1>3, <1>6, <1>7 DEF Orderly, Early, Late
  <2>3. s # Len(sessions) => Over(r) /\ UNCHANGED fileVars
    BY <2>1, <1>1, <1>5, <1>6, <1>7 DEF Over, Early, fileVars, restVars
  <2>4. s = Len(sessions) => Tally(r)
    BY <2>1, <1>7 DEF Tally
  <2>5. UploadKnown'
    BY <2>1, <1>1, <1>8, FilesBefore DEF UploadKnown
  <2> QED
    BY <2>2, <2>3, <2>4, <2>5
<1>11. Len(files)' >= Len(files)
  BY <1>8, FilesBefore
<1>12. ~disturbed' =>
         /\ ~disturbed /\ Orderly(r) /\ UploadKnown'
         /\ sessions[s].pc # "ended" /\ r.pc = "ended" /\ r.restarts = 0
         /\ s # Len(sessions) => Over(r) /\ UNCHANGED fileVars
         /\ s = Len(sessions) => Tally(r)
  BY <1>1, <1>2, <1>3, <1>6, <1>10 DEF restVars
<1>13. owner' = owner
  BY <1>1 DEF restVars
<1> QED
  BY <1>1, <1>5, <1>8, <1>9, <1>11, <1>12, <1>13, FailStep

\* A file more, at the path or not, for the present contracts.
LEMMA FileAdded ==
  ASSUME IInv, NEW state \in {"empty", "torn"},
         files' = Append(files, [state |-> state, upload |-> upload]), Len(files) + 1 \in File,
         path' \in {path, Len(files) + 1}, UNCHANGED <<upload, uploadFile>>
  PROVE  /\ FilesInv' /\ Len(files)' = Len(files) + 1 /\ Len(files)' >= Len(files)
         /\ files'[Len(files) + 1] = [state |-> state, upload |-> upload]
         /\ \A f \in DOMAIN files : files'[f] = files[f]
<1>1. PICK d : d = [state |-> state, upload |-> upload]
  OBVIOUS
<1>2. d \in DatabaseFile /\ d.upload = upload
  BY <1>1, FilesBefore DEF DatabaseFile
<1>3. files' = Append(files, d) /\ files \in Seq(DatabaseFile)
  BY <1>1, FilesBefore DEF FilesInv
<1>4. /\ files' \in Seq(DatabaseFile) /\ Len(files)' = Len(files) + 1
      /\ files'[Len(files) + 1] = d /\ \A f \in DOMAIN files : files'[f] = files[f]
  BY <1>2, <1>3
<1>5. Len(files)' <= MaxFiles
  BY <1>4 DEF File
<1>6. \A f \in DOMAIN files' : files'[f].upload <= upload
  BY <1>2, <1>3, <1>4, FilesBefore DEF FilesInv
<1>7. path' \in 0..Len(files)'
  BY <1>4, FilesBefore DEF FilesInv
<1> QED
  BY <1>1, <1>4, <1>5, <1>6, <1>7, FilesBefore DEF FilesInv

LEMMA OpenStep == ASSUME IInv, NEW s \in 1..MaxSessions, OpenDatabase(s) PROVE IInv'
<1>1. s \in DOMAIN sessions /\ UNCHANGED <<restVars, uploadFile>> /\ OpenPath
  BY DEF OpenDatabase, At
<1>2. PICK q : q = sessions[s]
  OBVIOUS
<1>3. q \in Session /\ Legal(q, Len(files)) /\ q.pc = "opening"
  BY <1>1, <1>2, Before DEF OpenDatabase, At
<1>4. PICK pc : pc = IF IsDamaged(files'[Opened]) THEN "replacing" ELSE "migrating"
  OBVIOUS
<1>5. PICK r : r = [q EXCEPT !.handle = "open", !.file = Opened, !.pc = pc]
  OBVIOUS
<1>6. Goes(s, r)
  BY <1>2, <1>4, <1>5 DEF OpenDatabase
<1>7. Opened \in File \cup {None} /\ Opened \in File
  BY <1>1 DEF OpenPath
<1>8. /\ r.pc = pc /\ r.block = q.block /\ r.queue = q.queue /\ r.running = q.running
      /\ r.db = q.db /\ r.handle = "open" /\ r.file = Opened /\ r.server = q.server
  BY <1>3, <1>5 DEF Session
<1>9. /\ r.rpc = q.rpc /\ r.then = q.then /\ r.retries = q.retries /\ r.restarts = q.restarts
      /\ r \in Session
  BY <1>3, <1>4, <1>5, <1>7 DEF Session
<1>10. /\ FilesInv' /\ Len(files)' >= Len(files) /\ Opened \in DOMAIN files'
       /\ path' = Opened /\ path' # None
       /\ (path # None => files[path].upload = upload) => files'[Opened].upload = upload
  <2>1. CASE path = None
    <3>1. /\ files' = Append(files, [state |-> "empty", upload |-> upload])
          /\ Len(files) + 1 \in File /\ path' = Len(files) + 1 /\ Opened = Len(files) + 1
      BY <2>1, <1>1 DEF OpenPath, Opened
    <3> QED
      BY <3>1, <1>1, FileAdded, FilesBefore DEF restVars, FilesInv, None
  <2>2. CASE path # None
    BY <2>2, <1>1, FilesBefore DEF OpenPath, Opened, FilesInv, restVars
  <2> QED
    BY <2>1, <2>2
<1>11. Legal(r, Len(files))'
  BY <1>1, <1>3, <1>4, <1>8, <1>9, <1>10, FilesBefore DEF Legal, Budget, Port, Early, restVars, FilesInv
<1>12. ASSUME ~disturbed
       PROVE  Orderly(r) /\ UploadKnown' /\ s = Len(sessions) /\ InPlace(r)' /\ Tally(r)
  <2>1. Orderly(q) /\ UploadKnown /\ s = Len(sessions) /\ InPlace(q) /\ Tally(q)
    BY <1>1, <1>2, <1>3, <1>12, Before DEF Early
  <2>2. Orderly(r)
    BY <2>1, <1>3, <1>4, <1>8, <1>9 DEF Orderly, Early, Late
  <2>3. Tally(r)
    BY <2>1, <1>9 DEF Tally
  <2>4. uploadFile' = upload' /\ files'[path'].upload = upload'
    BY <2>1, <1>1, <1>3, <1>10 DEF InPlace, restVars
  <2>5. UploadKnown'
    BY <2>4, <1>1, FilesBefore DEF UploadKnown, restVars
  <2>6. InPlace(r)'
    <3>1. files'[path'] \in DatabaseFile
      BY <1>10 DEF FilesInv
    <3>2. pc = "migrating" => files'[path'].state \in {"empty", "ready", "torn"}
      BY <3>1, <1>4, <1>10 DEF IsDamaged, DatabaseFile
    <3> QED
      BY <3>2, <2>4, <1>4, <1>8, <1>10 DEF InPlace, PathIs, Late
  <2> QED
    BY <2>1, <2>2, <2>3, <2>5, <2>6
<1> QED
  BY <1>1, <1>6, <1>10, <1>11, <1>12, GoesStep DEF restVars

LEMMA ReplaceStep == ASSUME IInv, NEW s \in 1..MaxSessions, ReplaceDatabase(s) PROVE IInv'
<1>1. s \in DOMAIN sessions /\ UNCHANGED <<restVars, files, uploadFile>> /\ path' = None
  BY DEF ReplaceDatabase, At
<1>2. PICK q : q = sessions[s]
  OBVIOUS
<1>3. q \in Session /\ Legal(q, Len(files)) /\ q.pc = "replacing"
  BY <1>1, <1>2, Before DEF ReplaceDatabase, At
<1>4. /\ FilesInv' /\ Len(files)' >= Len(files) /\ UploadKnown'
      /\ owner' = owner /\ upload' = upload /\ (~disturbed' => ~disturbed)
  BY <1>1, FilesBefore DEF FilesInv, restVars, None, UploadKnown
<1>5. CASE path = None
  <2>1. PICK r : r = [q EXCEPT !.pc = "ended", !.handle = "closed"]
    OBVIOUS
  <2>2. Fail(s, r)
    BY <2>1, <1>2, <1>5 DEF ReplaceDatabase
  <2>3. /\ r.pc = "ended" /\ r.retries = q.retries /\ r.restarts = q.restarts
        /\ r.file = q.file /\ r.then = q.then /\ r \in Session
        /\ r.db = q.db /\ r.server = q.server /\ r.running = q.running /\ r.queue = q.queue
    BY <2>1, <1>3 DEF Session
  <2>4. Legal(r, Len(files))'
    BY <2>3, <1>1, <1>3, <1>4 DEF Legal, Budget, Port, Early
  <2>5. disturbed
    BY <1>1, <1>2, <1>3, <1>5, Before DEF InPlace, Early
  <2> QED
    BY <2>2, <2>4, <2>5, <1>1, <1>4, FailStep
<1>6. CASE path # None
  <2>1. PICK r : r = [q EXCEPT !.pc = "migrating", !.file = None]
    OBVIOUS
  <2>2. Goes(s, r)
    BY <2>1, <1>2, <1>6 DEF ReplaceDatabase
  <2>3. /\ r.pc = "migrating" /\ r.block = q.block /\ r.queue = q.queue /\ r.running = q.running
        /\ r.db = q.db /\ r.handle = q.handle /\ r.file = None /\ r.server = q.server
    BY <2>1, <1>3 DEF Session
  <2>4. /\ r.rpc = q.rpc /\ r.then = q.then /\ r.retries = q.retries /\ r.restarts = q.restarts
        /\ r \in Session
    BY <2>1, <1>3 DEF Session
  <2>5. Legal(r, Len(files))'
    BY <2>3, <2>4, <1>1, <1>3, <1>4, FilesBefore DEF Legal, Budget, Port, Early, None
  <2>6. ASSUME ~disturbed
        PROVE  Orderly(r) /\ s = Len(sessions) /\ InPlace(r)' /\ Tally(r)
    <3>1. Orderly(q) /\ s = Len(sessions) /\ InPlace(q) /\ Tally(q)
      BY <1>1, <1>2, <1>3, <2>6, Before DEF Early
    <3>2. Orderly(r)
      BY <3>1, <1>3, <2>3, <2>4 DEF Orderly, Early, Late
    <3>3. InPlace(r)'
      BY <3>1, <1>1, <1>3, <1>4, <2>3 DEF InPlace, Late
    <3> QED
      BY <3>1, <3>2, <3>3, <2>4 DEF Tally
  <2> QED
    BY <2>2, <2>5, <2>6, <1>1, <1>4, GoesStep
<1> QED
  BY <1>5, <1>6

\* The state of one file changed.
LEMMA FileChanged ==
  ASSUME IInv, NEW f \in DOMAIN files, NEW state \in {"empty", "locked", "ready", "torn"},
         files' = [files EXCEPT ![f].state = state],
         path' \in 0..Len(files), UNCHANGED <<upload, uploadFile>>
  PROVE  /\ FilesInv' /\ Len(files)' = Len(files) /\ Len(files)' >= Len(files)
         /\ \A g \in DOMAIN files : files'[g].upload = files[g].upload
         /\ files'[f].state = state
<1>1. PICK d : d = [files[f] EXCEPT !.state = state]
  OBVIOUS
<1>2. files[f] \in DatabaseFile /\ files \in Seq(DatabaseFile)
  BY FilesBefore DEF FilesInv
<1>3. d \in DatabaseFile /\ d.upload = files[f].upload /\ d.state = state
  BY <1>1, <1>2 DEF DatabaseFile
<1>4. files' = [files EXCEPT ![f] = d]
  BY <1>1
<1>5. /\ files' \in Seq(DatabaseFile) /\ Len(files)' = Len(files)
      /\ DOMAIN files' = DOMAIN files /\ files'[f] = d
      /\ \A g \in DOMAIN files : files'[g].upload = files[g].upload
  BY <1>2, <1>3, <1>4
<1> QED
  BY <1>3, <1>5, FilesBefore, SMTT(20) DEF FilesInv

LEMMA MigrateStep == ASSUME IInv, NEW s \in 1..MaxSessions, Migrate(s) PROVE IInv'
<1>1. s \in DOMAIN sessions /\ UNCHANGED <<restVars, uploadFile>>
  BY DEF Migrate, At
<1>2. PICK q : q = sessions[s]
  OBVIOUS
<1>3. q \in Session /\ Legal(q, Len(files)) /\ q.pc = "migrating"
  BY <1>1, <1>2, Before DEF Migrate, At
<1>4. PICK file : file = IF q.file = None THEN Opened ELSE q.file
  OBVIOUS
<1>5. PICK found : found = IF file \in DOMAIN files THEN files
                           ELSE Append(files, [state |-> "empty", upload |-> upload])
  OBVIOUS
<1>6. /\ IF q.file = None THEN path' = Opened /\ Opened \in File ELSE UNCHANGED path
      /\ \/ /\ files' = found /\ Fail(s, [[q EXCEPT !.file = file] EXCEPT !.pc = "ended"])
            /\ found[file].state \in {"locked", "torn"}
         \/ /\ files' = [found EXCEPT ![file].state = "locked"]
            /\ Goes(s, [[q EXCEPT !.file = file] EXCEPT !.pc = "migrated"])
            /\ found[file].state \notin {"locked", "torn"}
  BY <1>2, <1>4, <1>5 DEF Migrate
<1>7. /\ found \in Seq(DatabaseFile) /\ Len(found) \in Len(files)..MaxFiles
      /\ file \in DOMAIN found /\ file \in File /\ path' \in 0..Len(found)
      /\ \A f \in DOMAIN found : found[f].upload <= upload
      /\ \A f \in DOMAIN files : found[f] = files[f]
      /\ path = None /\ q.file = None => found[file].upload = upload
  <2>1. CASE q.file = None /\ path = None
    <3>1. PICK d : d = [state |-> "empty", upload |-> upload]
      OBVIOUS
    <3>2. d \in DatabaseFile /\ d.upload = upload
      BY <3>1, FilesBefore DEF DatabaseFile
    <3>3. file = Len(files) + 1 /\ file \in File /\ path' = file /\ found = Append(files, d)
      BY <2>1, <3>1, <1>4, <1>5, <1>6, FilesBefore DEF Opened
    <3>4. /\ found \in Seq(DatabaseFile) /\ Len(found) = Len(files) + 1 /\ found[file] = d
          /\ \A f \in DOMAIN files : found[f] = files[f]
      BY <3>2, <3>3, FilesBefore DEF FilesInv
    <3> QED
      BY <3>2, <3>3, <3>4, FilesBefore DEF FilesInv, File
  <2>2. CASE q.file = None /\ path # None
    BY <2>2, <1>4, <1>5, <1>6, FilesBefore DEF Opened, FilesInv, File
  <2>3. CASE q.file # None
    <3>1. file = q.file /\ file \in DOMAIN files
      BY <2>3, <1>3, <1>4, FilesBefore DEF Legal, None, FilesInv
    <3> QED
      BY <2>3, <3>1, <1>5, <1>6, FilesBefore DEF FilesInv, File
  <2> QED
    BY <2>1, <2>2, <2>3
<1>8. ASSUME ~disturbed
      PROVE  /\ Orderly(q) /\ UploadKnown /\ s = Len(sessions) /\ Tally(q)
             /\ uploadFile = upload /\ path' = file /\ found[file].upload = upload
  <2>1. Orderly(q) /\ UploadKnown /\ s = Len(sessions) /\ InPlace(q) /\ Tally(q)
    BY <1>1, <1>2, <1>3, <1>8, Before DEF Early
  <2>2. uploadFile = upload /\ q.file = path /\ (path # None => files[path].upload = upload)
    BY <2>1, <1>3 DEF InPlace, PathIs
  <2> QED
    BY <2>1, <2>2, <1>4, <1>6, <1>7, FilesBefore DEF Opened
<1>9. PICK d \in DatabaseFile : /\ d = [found[file] EXCEPT !.state = "locked"]
                                /\ d.state = "locked" /\ d.upload = found[file].upload
  <2>1. PICK d : d = [found[file] EXCEPT !.state = "locked"]
    OBVIOUS
  <2>2. found[file] \in DatabaseFile
    BY <1>7
  <2>3. d \in DatabaseFile /\ d.state = "locked" /\ d.upload = found[file].upload
    BY <2>1, <2>2 DEF DatabaseFile
  <2> QED
    BY <2>1, <2>3
<1>10. files' = found \/ files' = [found EXCEPT ![file] = d]
  BY <1>6, <1>9
<1>11. /\ files' \in Seq(DatabaseFile) /\ Len(files)' = Len(found)
       /\ \A f \in DOMAIN found : f \in DOMAIN files' /\ files'[f].upload = found[f].upload
  <2>1. CASE files' = found
    BY <2>1, <1>7
  <2>2. CASE files' = [found EXCEPT ![file] = d]
    BY <2>2, <1>7, <1>9
  <2> QED
    BY <2>1, <2>2, <1>10
<1>12. /\ FilesInv' /\ Len(files)' >= Len(files) /\ file <= Len(files)'
      /\ \A f \in DOMAIN found : f \in DOMAIN files' /\ files'[f].upload = found[f].upload
  <2>1. DOMAIN files' = DOMAIN found /\ Len(found) \in Nat /\ file \in 1..Len(found)
    BY <1>7, <1>11
  <2>2. \A f \in DOMAIN files' : files'[f].upload <= upload
    BY <2>1, <1>7, <1>11
  <2> QED
    BY <2>1, <2>2, <1>1, <1>7, <1>11, FilesBefore DEF FilesInv, restVars
<1>13. owner' = owner /\ upload' = upload /\ disturbed' = disturbed /\ uploadFile' = uploadFile
  BY <1>1 DEF restVars
<1>14. ~disturbed => UploadKnown' /\ uploadFile' = upload' /\ path' = file /\ path' # None
                     /\ files'[path'].upload = upload'
  BY <1>7, <1>8, <1>12, <1>13, FilesBefore DEF UploadKnown, File, None
<1>15. CASE /\ files' = found /\ Fail(s, [[q EXCEPT !.file = file] EXCEPT !.pc = "ended"])
  <2>1. PICK r : r = [[q EXCEPT !.file = file] EXCEPT !.pc = "ended"]
    OBVIOUS
  <2>2. /\ r.pc = "ended" /\ r.block = q.block /\ r.queue = q.queue /\ r.running = q.running
        /\ r.db = q.db /\ r.handle = q.handle /\ r.file = file /\ r.server = q.server
    BY <2>1, <1>3 DEF Session
  <2>3. /\ r.rpc = q.rpc /\ r.then = q.then /\ r.retries = q.retries /\ r.restarts = q.restarts
        /\ r \in Session
    BY <2>1, <1>3, <1>7 DEF Session
  <2>4. Legal(r, Len(files))'
    BY <2>2, <2>3, <1>3, <1>12, <1>13, <1>7 DEF Legal, Budget, Port, Early, FilesInv, File
  <2>5. ~disturbed => Orderly(r) /\ r.restarts = 0 /\ Tally(r)
    BY <2>2, <2>3, <1>3, <1>8 DEF Orderly, Early, Late, Tally
  <2>6. ~disturbed' =>
          /\ ~disturbed /\ Orderly(r) /\ UploadKnown'
          /\ sessions[s].pc # "ended" /\ r.pc = "ended" /\ r.restarts = 0
          /\ s # Len(sessions) => Over(r) /\ UNCHANGED fileVars
          /\ s = Len(sessions) => Tally(r)
    BY <2>2, <2>5, <1>2, <1>3, <1>8, <1>13, <1>14
  <2> QED
    BY <2>1, <2>4, <2>6, <1>1, <1>12, <1>13, <1>15, FailStep
<1>16. CASE /\ files' = [found EXCEPT ![file].state = "locked"]
            /\ Goes(s, [[q EXCEPT !.file = file] EXCEPT !.pc = "migrated"])
  <2>1. PICK r : r = [[q EXCEPT !.file = file] EXCEPT !.pc = "migrated"]
    OBVIOUS
  <2>2. /\ r.pc = "migrated" /\ r.block = q.block /\ r.queue = q.queue /\ r.running = q.running
        /\ r.db = q.db /\ r.handle = q.handle /\ r.file = file /\ r.server = q.server
    BY <2>1, <1>3 DEF Session
  <2>3. /\ r.rpc = q.rpc /\ r.then = q.then /\ r.retries = q.retries /\ r.restarts = q.restarts
        /\ r \in Session
    BY <2>1, <1>3, <1>7 DEF Session
  <2>4. Legal(r, Len(files))'
    BY <2>2, <2>3, <1>3, <1>12, <1>13, <1>7 DEF Legal, Budget, Port, Early, FilesInv, File, None
  <2>5. ~disturbed => Orderly(r) /\ Tally(r)
    BY <2>2, <2>3, <1>3, <1>8 DEF Orderly, Early, Late, Tally
  <2>6. files'[file].state = "locked"
    BY <1>7, <1>16, <1>9
  <2>7. ~disturbed => InPlace(r)'
    BY <2>2, <2>6, <1>14 DEF InPlace, PathIs, Late
  <2>8. ~disturbed' =>
          /\ ~disturbed /\ Orderly(r) /\ UploadKnown'
          /\ s # Len(sessions) => Over(r) /\ UNCHANGED fileVars
          /\ s = Len(sessions) => InPlace(r)' /\ Tally(r)
    BY <2>5, <2>7, <1>8, <1>13, <1>14
  <2> QED
    BY <2>1, <2>4, <2>8, <1>1, <1>12, <1>13, <1>16, GoesStep
<1> QED
  BY <1>6, <1>15, <1>16

LEMMA StartSyncStep == ASSUME IInv, NEW s \in 1..MaxSessions, StartSync(s) PROVE IInv'
<1>1. s \in DOMAIN sessions /\ UNCHANGED <<restVars, path, uploadFile>>
  BY DEF StartSync, At
<1>2. PICK q : q = sessions[s]
  OBVIOUS
<1>3. q \in Session /\ Legal(q, Len(files)) /\ q.pc = "migrated"
  BY <1>1, <1>2, Before DEF StartSync, At
<1>4. PICK b \in BOOLEAN : b = (\A t \in DOMAIN sessions : ~sessions[t].server)
  OBVIOUS
<1>5. PICK r : r = [q EXCEPT !.pc = "bulk", !.db = TRUE, !.server = b]
  OBVIOUS
<1>6. Goes(s, r) /\ files' = [files EXCEPT ![q.file].state = "ready"]
  BY <1>2, <1>4, <1>5 DEF StartSync
<1>7. /\ r.pc = "bulk" /\ r.block = q.block /\ r.queue = q.queue /\ r.running = q.running
      /\ r.db = TRUE /\ r.handle = q.handle /\ r.file = q.file
  BY <1>3, <1>5 DEF Session
<1>8. /\ r.rpc = q.rpc /\ r.then = q.then /\ r.retries = q.retries /\ r.restarts = q.restarts
      /\ r \in Session
  BY <1>3, <1>5 DEF Session
<1>9. q.file \in DOMAIN files
  BY <1>3, FilesBefore DEF Legal, FilesInv, None
<1>10. /\ FilesInv' /\ Len(files)' = Len(files) /\ Len(files)' >= Len(files)
       /\ \A g \in DOMAIN files : files'[g].upload = files[g].upload
       /\ files'[q.file].state = "ready"
  BY <1>1, <1>6, <1>9, FileChanged, FilesBefore DEF FilesInv, restVars
<1>11. Legal(r, Len(files))'
  BY <1>1, <1>3, <1>7, <1>8, <1>10 DEF Legal, Budget, Port, Early, restVars
<1>12. ASSUME ~disturbed
       PROVE  Orderly(r) /\ UploadKnown' /\ s = Len(sessions) /\ InPlace(r)' /\ Tally(r)
  <2>1. Orderly(q) /\ UploadKnown /\ s = Len(sessions) /\ InPlace(q) /\ Tally(q)
    BY <1>1, <1>2, <1>3, <1>12, Before DEF Early
  <2>2. Orderly(r) /\ Tally(r)
    BY <2>1, <1>3, <1>7, <1>8 DEF Orderly, Early, Late, Tally
  <2>3. q.file = path /\ path # None /\ files[path].upload = upload
    BY <2>1, <1>3 DEF InPlace, PathIs
  <2>4. InPlace(r)'
    BY <2>3, <1>1, <1>7, <1>9, <1>10 DEF InPlace, PathIs, Late, restVars
  <2>5. UploadKnown'
    BY <2>1, <2>3, <1>1, <1>9, <1>10 DEF UploadKnown
  <2> QED
    BY <2>1, <2>2, <2>4, <2>5
<1>13. owner' = owner /\ disturbed' = disturbed
  BY <1>1 DEF restVars
<1> QED
  BY <1>1, <1>6, <1>10, <1>11, <1>12, <1>13, GoesStep

LEMMA ClosesStep == ASSUME IInv, NEW s \in 1..MaxSessions, DatabaseCloses(s) PROVE IInv'
<1>1. s \in DOMAIN sessions /\ UNCHANGED <<restVars, files, path, uploadFile>>
  BY DEF DatabaseCloses
<1>2. PICK q : q = sessions[s]
  OBVIOUS
<1>3. q \in Session /\ Legal(q, Len(files)) /\ q.handle = "closing"
  BY <1>1, <1>2, Before DEF DatabaseCloses
<1>4. PICK r : r = [q EXCEPT !.handle = "closed", !.db = FALSE, !.rpc = FALSE]
  OBVIOUS
<1>5. Goes(s, r)
  BY <1>2, <1>4 DEF DatabaseCloses
<1>6. /\ r.pc = q.pc /\ r.block = q.block /\ r.queue = q.queue /\ r.running = q.running
      /\ r.db = FALSE /\ r.handle = "closed" /\ r.file = q.file /\ r.server = q.server
  BY <1>3, <1>4 DEF Session
<1>7. /\ r.rpc = FALSE /\ r.then = q.then /\ r.retries = q.retries /\ r.restarts = q.restarts
      /\ r \in Session
  BY <1>3, <1>4 DEF Session
<1>8. /\ FilesInv' /\ Len(files)' >= Len(files) /\ (UploadKnown => UploadKnown')
      /\ owner' = owner /\ disturbed' = disturbed /\ UNCHANGED fileVars
  BY <1>1, FilesStay, FilesBefore DEF restVars, fileVars
<1>9. Legal(r, Len(files))'
  BY <1>1, <1>3, <1>6, <1>7, <1>8 DEF Legal, Budget, Port, Early
<1>10. ASSUME ~disturbed
       PROVE  /\ Orderly(r) /\ UploadKnown'
              /\ s # Len(sessions) => Over(r)
              /\ s = Len(sessions) => InPlace(r)' /\ Tally(r)
  <2>1. /\ Orderly(q) /\ UploadKnown
        /\ s # Len(sessions) => Over(q)
        /\ s = Len(sessions) => Tally(q)
    BY <1>1, <1>2, <1>10, Before
  <2>2. q.db /\ ~q.running /\ q.pc \notin Early
    BY <2>1, <1>3 DEF Orderly
  <2>3. Orderly(r)
    BY <2>1, <2>2, <1>6, <1>7 DEF Orderly, Early, Late
  <2>4. s # Len(sessions) => Over(r)
    BY <2>1, <1>6, <1>7 DEF Over
  <2>5. InPlace(r)'
    BY <2>2, <1>6 DEF InPlace, Early, Late
  <2>6. s = Len(sessions) => Tally(r)
    BY <2>1, <1>7 DEF Tally
  <2> QED
    BY <2>1, <2>3, <2>4, <2>5, <2>6, <1>8
<1> QED
  BY <1>1, <1>5, <1>8, <1>9, <1>10, GoesStep

LEMMA ExitSteps ==
  ASSUME IInv, Kill \/ \E s \in 1..MaxSessions : BlockFails(s)
  PROVE  IInv'
<1>1. /\ Exit /\ UNCHANGED <<restVars, files, path>> /\ uploadFile' \in {uploadFile, Torn}
  BY DEF Kill, BlockFails
<1>2. FilesInv'
  BY <1>1, FilesBefore DEF FilesInv, restVars, Torn
<1>3. ~disturbed => UploadKnown
  BY DEF IInv, Calm
<1>4. ~disturbed => UploadKnown'
  BY <1>1, <1>3, FilesBefore DEF UploadKnown, Torn, None
<1> QED
  BY <1>1, <1>2, <1>4, ExitStep DEF restVars

\* A new controller after those that are over.
LEMMA Begins ==
  ASSUME IInv, FilesInv', Len(files)' >= Len(files), owner' = owner, ~disturbed' => ~disturbed,
         alive', NEW before \in Seq(Session), NEW n \in 0..MaxSystemRetries,
         sessions' = Append(before, Fresh(n)),
         \A s \in DOMAIN before : Legal(before[s], Len(files)),
         ~disturbed => /\ \A s \in DOMAIN before : Orderly(before[s]) /\ Over(before[s])
                       /\ owner = "runServer" => n = MaxSystemRetries - Len(before)
                       /\ UploadKnown'
  PROVE  IInv'
<1>1. PICK f : f = Fresh(n)
  OBVIOUS
<1>2. /\ f.pc = "connecting" /\ f.running /\ ~f.db /\ f.handle = "none" /\ f.file = None
      /\ f.block = "idle" /\ f.then = "nothing" /\ f.retries = n /\ f.restarts = 0 /\ ~f.server
  BY <1>1 DEF Fresh
<1>3. f \in Session
  <2>1. 0 \in 0..MaxSystemRetries /\ None \in File \cup {None}
    OBVIOUS
  <2>2. PICK m \in 0..MaxSystemRetries, k \in 0..MaxSystemRetries : m = n /\ k = 0
    BY <2>1
  <2>3. f = [pc |-> "connecting", running |-> TRUE, db |-> FALSE, handle |-> "none", file |-> None,
             server |-> FALSE, queue |-> "none", block |-> "idle", monitor |-> FALSE, rpc |-> FALSE,
             then |-> "nothing", retries |-> m, restarts |-> k]
    BY <1>1, <2>2 DEF Fresh
  <2> QED
    BY <2>1, <2>3 DEF Session
<1>4. n \in Nat /\ MaxSystemRetries \in Nat /\ n <= MaxSystemRetries
  OBVIOUS
<1>5. /\ sessions' \in Seq(Session) /\ Len(sessions)' = Len(before) + 1
      /\ sessions'[Len(before) + 1] = f /\ sessions' # <<>>
      /\ DOMAIN sessions' = DOMAIN before \cup {Len(before) + 1}
      /\ \A s \in DOMAIN before : sessions'[s] = before[s] /\ s <= Len(before)
  BY <1>1, <1>3
<1>6. Legal(f, Len(files))'
  <2>1. Port(f)
    BY <1>2 DEF Port
  <2> QED
    BY <1>2, <1>3, <1>4, <2>1 DEF Legal, Budget, FilesInv, None
<1>7. ASSUME NEW s \in DOMAIN before PROVE Legal(sessions[s], Len(files))'
  <2>1. PICK q : q = before[s]
    OBVIOUS
  <2>2. Legal(q, Len(files)) /\ sessions'[s] = q
    BY <2>1, <1>5
  <2>3. Len(files) \in Nat /\ Len(files)' \in Nat
    BY FilesBefore DEF FilesInv
  <2> QED
    BY <2>2, <2>3 DEF Legal, Budget
<1>8. Ground'
  <2>1. owner' \in {"runServer", "app"}
    BY FilesBefore DEF Ground
  <2>2. \A s \in DOMAIN sessions' : Legal(sessions[s], Len(files))'
    BY <1>5, <1>6, <1>7
  <2> QED
    BY <2>1, <2>2, <1>5 DEF Ground
<1>9. ASSUME ~disturbed' PROVE Calm'
  <2>1. Orderly(f) /\ InPlace(f)'
    BY <1>2 DEF Orderly, InPlace, Early, Late
  <2>2. Tally(f)'
    <3>1. owner = "runServer" => n = MaxSystemRetries - Len(before)
      BY <1>9
    <3>2. Len(before) \in Nat
      OBVIOUS
    <3> QED
      BY <3>1, <3>2, <1>2, <1>4, <1>5 DEF Tally
  <2>3. \A s \in DOMAIN before : Orderly(before[s]) /\ Over(before[s])'
    BY <1>9 DEF Over
  <2>4. \A s \in DOMAIN sessions' :
          Orderly(sessions'[s]) /\ (s < Len(sessions)' => Over(sessions[s])')
    BY <2>1, <2>3, <1>5
  <2>5. InPlace(sessions[Len(sessions)])' /\ Tally(sessions[Len(sessions)])'
    BY <2>1, <2>2, <1>5
  <2>6. UploadKnown'
    BY <1>9
  <2> QED
    BY <2>4, <2>5, <2>6 DEF Calm
<1> QED
  BY <1>8, <1>9 DEF IInv

LEMMA RestartStep == ASSUME IInv, NEW s \in 1..MaxSessions, Restart(s) PROVE IInv'
<1>1. s \in DOMAIN sessions /\ UNCHANGED <<restVars, alive, files, path, uploadFile>>
  BY DEF Restart
<1>2. PICK q : q = sessions[s]
  OBVIOUS
<1>3. q \in Session /\ Legal(q, Len(files)) /\ q.restarts > 0
  BY <1>1, <1>2, Before DEF Restart
<1>4. PICK r : r = [q EXCEPT !.restarts = q.restarts - 1]
  OBVIOUS
<1>5. PICK before : before = [sessions EXCEPT ![s] = r]
  OBVIOUS
<1>6. sessions' = Append(before, Fresh(q.retries))
  BY <1>1, <1>2, <1>4, <1>5 DEF Restart
<1>7. q.restarts - 1 \in 0..MaxSystemRetries /\ q.retries \in 0..MaxSystemRetries
  BY <1>3, Counters
<1>8. /\ r.pc = q.pc /\ r.block = q.block /\ r.queue = q.queue /\ r.running = q.running
      /\ r.db = q.db /\ r.handle = q.handle /\ r.file = q.file /\ r.server = q.server
  BY <1>3, <1>4 DEF Session
<1>9. /\ r.rpc = q.rpc /\ r.then = q.then /\ r.retries = q.retries /\ r.restarts = q.restarts - 1
      /\ r \in Session
  BY <1>3, <1>4, <1>7 DEF Session
<1>10. owner = "runServer"
  BY <1>3, FilesBefore DEF Legal, Budget, Ground
<1>11. Legal(r, Len(files))
  <2>1. Port(q) /\ Budget(q) /\ q.file \in 0..Len(files) /\ (q.pc = "migrated" => q.file # None)
    BY <1>3 DEF Legal
  <2>2. Port(r)
    BY <1>8, <2>1 DEF Port
  <2>3. Budget(r)
    BY <1>3, <1>9, <1>10, <2>1, Counters DEF Budget
  <2> QED
    BY <1>8, <1>9, <2>1, <2>2, <2>3 DEF Legal
<1>12. /\ before \in Seq(Session) /\ DOMAIN before = DOMAIN sessions /\ before[s] = r
       /\ Len(before) = Len(sessions) /\ \A t \in DOMAIN sessions : t # s => before[t] = sessions[t]
  BY <1>1, <1>5, <1>9, FilesBefore DEF Ground
<1>13. \A t \in DOMAIN before : Legal(before[t], Len(files))
  BY <1>11, <1>12, FilesBefore DEF Ground
<1>14. ASSUME ~disturbed
       PROVE  /\ \A t \in DOMAIN before : Orderly(before[t]) /\ Over(before[t])
              /\ q.retries = MaxSystemRetries - Len(before)
  <2>1. Orderly(q) /\ (s # Len(sessions) => Over(q)) /\ (s = Len(sessions) => Tally(q))
    BY <1>1, <1>2, <1>14, Before
  <2>2. q.pc = "ended"
    <3>1. q.pc \in Early \cup Late \cup {"ended"}
      BY <1>3 DEF Session, Early, Late
    <3>2. q.restarts # 0
      BY <1>3
    <3> QED
      BY <2>1, <3>1, <3>2 DEF Orderly
  <2>3. s = Len(sessions)
    BY <2>1, <1>3, <1>10 DEF Over
  <2>4. q.restarts = 1 /\ q.retries = MaxSystemRetries - Len(sessions)
    <3>1. q.retries + q.restarts = MaxSystemRetries - Len(sessions) + 1 /\ q.restarts <= 1
      BY <2>1, <2>3, <1>10 DEF Tally
    <3> QED
      <4>1. q.restarts \in Nat /\ q.retries \in Nat /\ MaxSystemRetries \in Nat
        BY <1>3, Counters
      <4>2. Len(sessions) \in Nat
        BY <1>1, Before
      <4>3. q.restarts = 1
        BY <3>1, <4>1, <1>3
      <4> QED
        BY <3>1, <4>1, <4>2, <4>3
  <2>5. Orderly(r) /\ Over(r)
    BY <2>1, <2>2, <2>4, <1>8, <1>9, <1>10 DEF Orderly, Over, Early, Late
  <2>6. ASSUME NEW t \in DOMAIN sessions, t # s PROVE Orderly(sessions[t]) /\ Over(sessions[t])
    BY <2>3, <2>6, <1>14, Before
  <2> QED
    BY <2>4, <2>5, <2>6, <1>12
<1>15. /\ FilesInv' /\ Len(files)' >= Len(files) /\ (UploadKnown => UploadKnown')
       /\ owner' = owner /\ disturbed' = disturbed
  BY <1>1, FilesStay, FilesBefore DEF restVars, fileVars
<1>16. alive' /\ (~disturbed => UploadKnown')
  BY <1>1, <1>15, Before, FilesBefore DEF Ground
<1> QED
  BY <1>6, <1>7, <1>12, <1>13, <1>14, <1>15, <1>16, Begins

LEMMA AppStartStep == ASSUME IInv, AppStart PROVE IInv'
<1>1. /\ UNCHANGED <<restVars, alive, files, path, uploadFile>> /\ owner = "app" /\ alive
      /\ sessions' = Append(sessions, Fresh(0))
  BY DEF AppStart
<1>2. sessions \in Seq(Session) /\ \A s \in DOMAIN sessions : Legal(sessions[s], Len(files))
  BY FilesBefore DEF Ground
<1>3. ~disturbed => \A s \in DOMAIN sessions : Orderly(sessions[s]) /\ Over(sessions[s])
  BY <1>1, Before DEF AppStart, Over
<1>4. /\ FilesInv' /\ Len(files)' >= Len(files) /\ (UploadKnown => UploadKnown')
      /\ owner' = owner /\ disturbed' = disturbed /\ alive'
  BY <1>1, FilesStay, FilesBefore DEF restVars, fileVars
<1>5. ~disturbed => UploadKnown'
  BY <1>4 DEF IInv, Calm
<1>6. 0 \in 0..MaxSystemRetries
  OBVIOUS
<1> QED
  BY <1>1, <1>2, <1>3, <1>4, <1>5, <1>6, Begins

LEMMA LaunchStep == ASSUME IInv, Launch PROVE IInv'
<1>1. /\ sessions = <<>> /\ alive' /\ upload' \in 1..MaxUpload /\ upload' >= upload
      /\ UNCHANGED <<owner, files, path, uploadFile, disturbed>>
      /\ sessions' = IF owner = "runServer" THEN <<Fresh(MaxSystemRetries)>> ELSE <<>>
  BY FilesBefore DEF Launch, Ground
<1>2. FilesInv' /\ Len(files)' >= Len(files)
  <2>1. \A f \in DOMAIN files : files[f].upload <= upload'
    <3>1. \A d \in DatabaseFile : d.upload \in 1..MaxUpload
      BY DEF DatabaseFile
    <3>2. \A f \in DOMAIN files : files[f] \in DatabaseFile /\ files[f].upload <= upload
      BY FilesBefore DEF FilesInv
    <3> QED
      BY <3>1, <3>2, <1>1, FilesBefore
  <2> QED
    BY <2>1, <1>1, FilesBefore DEF FilesInv
<1>3. ~disturbed => UploadKnown'
  BY <1>1 DEF IInv, Calm, UploadKnown
<1>4. CASE owner = "runServer"
  <2>1. sessions' = Append(sessions, Fresh(MaxSystemRetries)) /\ Len(sessions) = 0
    BY <1>1, <1>4
  <2>2. MaxSystemRetries \in 0..MaxSystemRetries /\ sessions \in Seq(Session)
    BY FilesBefore DEF Ground
  <2>3. DOMAIN sessions = {}
    BY <1>1
  <2>4. MaxSystemRetries = MaxSystemRetries - Len(sessions)
    BY <2>1
  <2>5. ~disturbed => /\ \A s \in DOMAIN sessions : Orderly(sessions[s]) /\ Over(sessions[s])
                      /\ owner = "runServer" => MaxSystemRetries = MaxSystemRetries - Len(sessions)
                      /\ UploadKnown'
    BY <2>3, <2>4, <1>3
  <2>6. \A s \in DOMAIN sessions : Legal(sessions[s], Len(files))
    BY <2>3
  <2> QED
    BY <2>1, <2>2, <2>5, <2>6, <1>1, <1>2, Begins
<1>5. CASE owner # "runServer"
  BY <1>1, <1>2, <1>3, <1>5, FilesBefore DEF IInv, Ground, Calm
<1> QED
  BY <1>4, <1>5

LEMMA AppStopsStep ==
  ASSUME IInv, NEW s \in 1..MaxSessions, NEW then \in {"nothing", "reset", "import"},
         AppStops(s, then)
  PROVE  IInv'
<1>1. /\ s \in DOMAIN sessions /\ s = Len(sessions) /\ owner = "app"
      /\ UNCHANGED <<owner, fileVars>>
  BY DEF AppStops
<1>2. PICK q : q = sessions[s]
  OBVIOUS
<1>3. q \in Session /\ Legal(q, Len(files)) /\ disturbed' = (disturbed \/ Unready(q))
  BY <1>1, <1>2, Before DEF AppStops
<1>4. PICK h : h = IF then = "nothing" \/ IsRunning(q) THEN Stopped(q) ELSE q
  OBVIOUS
<1>5. PICK r : r = [h EXCEPT !.then = then]
  OBVIOUS
<1>6. Goes(s, r)
  BY <1>2, <1>4, <1>5 DEF AppStops
<1>7. /\ h \in Session /\ h.pc = q.pc /\ h.block = q.block /\ h.db = q.db /\ h.file = q.file
      /\ h.retries = q.retries /\ h.restarts = q.restarts
  BY <1>3, <1>4, StoppedFields
<1>8. \/ h = q /\ (~q.running \/ (~q.db /\ then # "nothing"))
      \/ /\ q.running /\ ~h.running /\ ~h.server /\ h.queue # "on"
         /\ h.handle = IF q.db THEN "closing" ELSE q.handle
         /\ ~q.db => ~h.rpc
         /\ then = "nothing" \/ q.db
  BY <1>3, <1>4, StoppedFields DEF IsRunning
<1>9. /\ r.pc = q.pc /\ r.block = q.block /\ r.queue = h.queue /\ r.running = h.running
      /\ r.db = q.db /\ r.handle = h.handle /\ r.file = q.file /\ r.server = h.server
  BY <1>5, <1>7 DEF Session
<1>10. /\ r.rpc = h.rpc /\ r.then = then /\ r.retries = q.retries /\ r.restarts = q.restarts
       /\ r \in Session
  BY <1>5, <1>7 DEF Session
<1>11. /\ FilesInv' /\ Len(files)' >= Len(files) /\ (UploadKnown => UploadKnown')
  BY <1>1, FilesStay, FilesBefore
<1>12. Legal(r, Len(files))'
  <2>1. Port(q) /\ Port(h)
    BY <1>3, <1>7, <1>8 DEF Legal, Port, Early
  <2>2. Port(r)
    BY <1>7, <1>9, <2>1 DEF Port
  <2> QED
    BY <1>1, <1>3, <1>9, <1>10, <2>2 DEF Legal, Budget, fileVars
<1>13. ASSUME ~disturbed, ~Unready(q)
       PROVE  Orderly(r) /\ UploadKnown' /\ InPlace(r)' /\ Tally(r)
  <2>1. Orderly(q) /\ UploadKnown /\ InPlace(q)
    BY <1>1, <1>2, <1>13, Before
  <2>2. (q.running => q.db \/ q.pc = "ended") /\ q.handle # "closing" /\ q.pc \notin Early
    BY <2>1, <1>13 DEF Unready, Orderly, Early
  <2>3. Orderly(r)
    <3>1. CASE h = q /\ (~q.running \/ (~q.db /\ then # "nothing"))
      BY <3>1, <2>1, <2>2, <1>9, <1>10 DEF Orderly
    <3>2. CASE /\ q.running /\ ~h.running /\ ~h.server /\ h.queue # "on"
               /\ h.handle = IF q.db THEN "closing" ELSE q.handle
               /\ ~q.db => ~h.rpc
      BY <3>2, <2>1, <2>2, <1>9, <1>10 DEF Orderly
    <3> QED
      BY <3>1, <3>2, <1>8
  <2>4. InPlace(r)'
    <3>1. r.handle # "closed" => q.handle # "closed"
      BY <2>1, <1>8, <1>9 DEF Orderly
    <3>2. path' = path /\ files' = files /\ upload' = upload /\ uploadFile' = uploadFile
      BY <1>1 DEF fileVars
    <3> QED
      BY <3>1, <3>2, <2>1, <2>2, <1>9 DEF InPlace, PathIs, Early
  <2> QED
    BY <2>1, <2>3, <2>4, <1>1, <1>11 DEF Tally
<1>14. ~disturbed' =>
         /\ ~disturbed /\ Orderly(r) /\ UploadKnown'
         /\ s # Len(sessions) => Over(r) /\ UNCHANGED fileVars
         /\ s = Len(sessions) => InPlace(r)' /\ Tally(r)
  BY <1>1, <1>3, <1>13
<1> QED
  BY <1>1, <1>6, <1>11, <1>12, <1>14, GoesStep

\* The part of a call that follows the shutdown: the controller has closed its
\* database, or never had one.
LEMMA CallGoes ==
  ASSUME IInv, NEW s \in DOMAIN sessions, NEW then \in {"nothing", "importing", "writing"},
         sessions[s].then # "nothing",
         \/ sessions[s].then \in {"importing", "writing"}
         \/ sessions[s].handle # "closing" \/ sessions[s].running,
         Goes(s, [sessions[s] EXCEPT !.then = then]),
         FilesInv', Len(files)' >= Len(files), owner' = owner,
         ~disturbed' => ~disturbed /\ UploadKnown'
  PROVE  IInv'
<1>1. PICK q : q = sessions[s]
  OBVIOUS
<1>2. q \in Session /\ Legal(q, Len(files)) /\ q.then # "nothing"
  BY <1>1, Before
<1>3. PICK r : r = [q EXCEPT !.then = then]
  OBVIOUS
<1>4. Goes(s, r)
  BY <1>1, <1>3
<1>5. /\ r.pc = q.pc /\ r.block = q.block /\ r.queue = q.queue /\ r.running = q.running
      /\ r.db = q.db /\ r.handle = q.handle /\ r.file = q.file /\ r.server = q.server
  BY <1>2, <1>3 DEF Session
<1>6. /\ r.rpc = q.rpc /\ r.then = then /\ r.retries = q.retries /\ r.restarts = q.restarts
      /\ r \in Session
  BY <1>2, <1>3 DEF Session
<1>7. owner = "app"
  BY <1>2, FilesBefore DEF Legal, Budget, Ground
<1>8. Legal(r, Len(files))'
  <2>1. Len(files) \in Nat /\ Len(files)' \in Nat /\ Len(files)' >= Len(files)
    BY FilesBefore DEF FilesInv
  <2>2. Port(r)
    BY <1>2, <1>5 DEF Legal, Port
  <2> QED
    BY <1>2, <1>5, <1>6, <1>7, <2>1, <2>2 DEF Legal, Budget
<1>9. ASSUME ~disturbed
      PROVE  Orderly(r) /\ s = Len(sessions) /\ InPlace(r)' /\ Tally(r)
  <2>1. Orderly(q) /\ (s # Len(sessions) => Over(q))
    BY <1>1, <1>9, Before
  <2>2. s = Len(sessions)
    BY <2>1, <1>2, <1>7 DEF Over
  <2>3. q.handle # "closing" /\ (~q.running \/ (q.pc = "ended" /\ ~q.db)) /\ q.pc \notin Early
    BY <2>1, <1>1, <1>2 DEF Orderly
  <2>4. Orderly(r)
    BY <2>1, <2>3, <1>5, <1>6 DEF Orderly
  <2>5. q.pc \in Late => q.handle = "closed"
    BY <2>1, <2>3 DEF Orderly, Late
  <2>6. InPlace(r)'
    BY <2>3, <2>5, <1>5 DEF InPlace, Early
  <2> QED
    BY <2>2, <2>4, <2>6, <1>7 DEF Tally
<1> QED
  BY <1>4, <1>8, <1>9, GoesStep

LEMMA MoveStep == ASSUME IInv, NEW s \in 1..MaxSessions, MoveDatabase(s) PROVE IInv'
<1>1. /\ s \in DOMAIN sessions /\ UNCHANGED <<restVars, files, uploadFile>> /\ path' = None
      /\ sessions[s].then \in {"reset", "import"}
      /\ sessions[s].handle # "closing" \/ sessions[s].running
  BY DEF MoveDatabase
<1>2. PICK then \in {"nothing", "importing"} : Goes(s, [sessions[s] EXCEPT !.then = then])
  BY DEF MoveDatabase
<1>3. FilesInv' /\ Len(files)' >= Len(files) /\ UploadKnown'
  BY <1>1, FilesBefore DEF FilesInv, UploadKnown, restVars, None
<1> QED
  BY <1>1, <1>2, <1>3, CallGoes DEF restVars

LEMMA BeginImportStep == ASSUME IInv, NEW s \in 1..MaxSessions, BeginImport(s) PROVE IInv'
<1>1. /\ s \in DOMAIN sessions /\ path = None /\ Len(files) < MaxFiles
      /\ files' = Append(files, [state |-> "torn", upload |-> upload]) /\ path' = Len(files')
      /\ disturbed' = (disturbed \/ uploadFile = None)
      /\ UNCHANGED <<owner, upload, uploadFile>>
      /\ sessions[s].then = "importing" /\ Goes(s, [sessions[s] EXCEPT !.then = "writing"])
  BY DEF BeginImport
<1>2. Len(files) + 1 \in File /\ Len(files') = Len(files) + 1
  BY <1>1, FilesBefore DEF File
<1>3. /\ FilesInv' /\ Len(files)' >= Len(files)
      /\ files'[Len(files) + 1] = [state |-> "torn", upload |-> upload]
  BY <1>1, <1>2, FileAdded
<1>4. ~disturbed' => ~disturbed /\ UploadKnown'
  <2>1. files'[path'].upload = upload
    BY <1>1, <1>2, <1>3
  <2>2. uploadFile <= upload
    BY FilesBefore DEF FilesInv
  <2> QED
    BY <2>1, <2>2, <1>1 DEF UploadKnown
<1> QED
  BY <1>1, <1>3, <1>4, CallGoes

LEMMA FinishImportStep == ASSUME IInv, NEW s \in 1..MaxSessions, FinishImport(s) PROVE IInv'
<1>1. /\ s \in DOMAIN sessions /\ UNCHANGED <<restVars, path, uploadFile>> /\ path # None
      /\ files' = [files EXCEPT ![path].state = IF @ = "torn" THEN "ready" ELSE @]
      /\ sessions[s].then = "writing" /\ Goes(s, [sessions[s] EXCEPT !.then = "nothing"])
  BY DEF FinishImport
<1>2. path \in DOMAIN files /\ path \in 0..Len(files) /\ files[path] \in DatabaseFile
  BY <1>1, FilesBefore DEF FilesInv
<1>3. PICK state \in {"empty", "locked", "ready", "torn"} :
        state = IF files[path].state = "torn" THEN "ready" ELSE files[path].state
  BY <1>2 DEF DatabaseFile
<1>4. files' = [files EXCEPT ![path].state = state]
  BY <1>1, <1>3
<1>5. /\ FilesInv' /\ Len(files)' >= Len(files)
      /\ files'[path].upload = files[path].upload
  BY <1>1, <1>2, <1>4, FileChanged DEF restVars
<1>6. ~disturbed' => ~disturbed /\ UploadKnown'
  BY <1>1, <1>5 DEF IInv, Calm, UploadKnown, restVars
<1> QED
  BY <1>1, <1>5, <1>6, CallGoes DEF restVars
-----------------------------------------------------------------------------
LEMMA StutterStep == ASSUME IInv, UNCHANGED vars PROVE IInv'
<1> USE DEF vars
<1>1. Ground'
  <2>1. FilesInv'
    BY DEF IInv, Ground, FilesInv
  <2>2. \A r, n : Legal(r, n)' <=> Legal(r, n)
    BY DEF Legal, Budget
  <2> QED
    BY <2>1, <2>2 DEF IInv, Ground
<1>2. ASSUME ~disturbed PROVE Calm'
  <2>1. /\ \A s \in DOMAIN sessions : Orderly(sessions[s]) /\ (s < Len(sessions) => Over(sessions[s]))
        /\ sessions # <<>> => InPlace(sessions[Len(sessions)]) /\ Tally(sessions[Len(sessions)])
        /\ UploadKnown
    BY <1>2 DEF IInv, Calm
  <2>2. \A s \in DOMAIN sessions' :
          Orderly(sessions[s])' /\ (s < Len(sessions') => Over(sessions[s])')
    BY <2>1 DEF Orderly, Over
  <2>3. sessions' # <<>> => InPlace(sessions[Len(sessions)])' /\ Tally(sessions[Len(sessions)])'
    BY <2>1 DEF InPlace, PathIs, Tally
  <2>4. UploadKnown'
    BY <2>1 DEF UploadKnown
  <2> QED
    BY <2>2, <2>3, <2>4 DEF Calm
<1> QED
  BY <1>1, <1>2 DEF IInv

LEMMA Initially == Init => IInv
BY GroundInit DEF Init, IInv, Calm, UploadKnown

LEMMA InductiveStep == IInv /\ [Next]_vars => IInv'
<1> SUFFICES ASSUME IInv, [Next]_vars PROVE IInv'
  OBVIOUS
<1>1. ASSUME NEW s \in 1..MaxSessions, StartStep(s) PROVE IInv'
  BY <1>1, ConnectStep, StartFailsStep, CheckUploadStep, WriteUploadStep, OpenStep, ReplaceStep,
     MigrateStep, StartSyncStep, QuietSteps DEF StartStep
<1>2. ASSUME NEW s \in 1..MaxSessions, BeginBlock(s) \/ CommitBlock(s) \/ FinishBlock(s)
      PROVE  IInv'
  BY <1>2, QuietSteps
<1>3. ASSUME NEW s \in 1..MaxSessions,
             BlockFails(s) \/ MonitorFails(s) \/ Restart(s) \/ DatabaseCloses(s)
      PROVE  IInv'
  BY <1>3, ExitSteps, MonitorFailsStep, RestartStep, ClosesStep
<1>4. ASSUME NEW s \in 1..MaxSessions, AppStep(s) PROVE IInv'
  BY <1>4, AppStopsStep, MoveStep, BeginImportStep, FinishImportStep DEF AppStep
<1>5. CASE AppStart \/ Kill \/ Launch
  BY <1>5, AppStartStep, ExitSteps, LaunchStep
<1>6. CASE UNCHANGED vars
  BY <1>6, StutterStep
<1> QED
  BY <1>1, <1>2, <1>3, <1>4, <1>5, <1>6 DEF Next

\* Every step of the controllers, of who drives them and of the process keeps
\* the invariant.
THEOREM Invariance == Spec => []IInv
BY Initially, InductiveStep, PTL DEF Spec

\* Of an undisturbed process only one controller at a time has its database and
\* is past opening it.
LEMMA OneDatabase ==
  ASSUME IInv, ~disturbed, NEW s \in DOMAIN sessions, Writes(s)
  PROVE  /\ s = Len(sessions) /\ sessions[s].file = path /\ path # None
         /\ files[path] = [state |-> "ready", upload |-> upload]
<1>1. PICK q : q = sessions[s]
  OBVIOUS
<1>2. /\ Orderly(q) /\ q.handle \in {"open", "closing"}
      /\ q.pc = "bulk" \/ q.pc = "checks" \/ q.block # "idle"
      /\ s # Len(sessions) => Over(q)
      /\ s = Len(sessions) => InPlace(q)
  BY <1>1, Before DEF Writes
<1>3. q.pc \in Late
  BY <1>2 DEF Orderly, Late
<1>4. s = Len(sessions)
  BY <1>2, <1>3 DEF Orderly, Over, Late
<1>5. q.file = path /\ PathIs({"ready"})
  BY <1>2, <1>3, <1>4 DEF InPlace
<1> QED
  BY <1>1, <1>4, <1>5, FilesBefore DEF PathIs, DatabaseFile

\* createKnex's expectation (check-and-initialize-augur-db.ts:29), for any number
\* of controllers: two of them never write at a time.
THEOREM OneWriterHolds == Spec => []OneWriter
<1>1. IInv => OneWriter
  BY OneDatabase DEF OneWriter
<1> QED
  BY <1>1, Invariance, PTL

\* A controller writes to the migrated database of the present contracts at the
\* database's path.
THEOREM WritesTheDatabaseHolds == Spec => []WritesTheDatabase
<1>1. IInv => WritesTheDatabase
  BY OneDatabase DEF WritesTheDatabase
<1> QED
  BY <1>1, Invariance, PTL

\* A controller that was shut down takes no block, and a new client only with its
\* database open; undisturbed it takes no new client at all and leaves the Ethereum
\* node, and its database unless start() failed before it was its own.
THEOREM StoppedIsClosedHolds == Spec => []StoppedIsClosed
<1>1. IInv => StoppedIsClosed
  <2>1. ASSUME IInv, NEW s \in DOMAIN sessions, ~sessions[s].running
        PROVE  /\ sessions[s].queue # "on"
               /\ sessions[s].server => sessions[s].db /\ sessions[s].handle = "open"
    BY <2>1 DEF IInv, Ground, Legal, Port
  <2>2. ASSUME IInv, ~disturbed, NEW s \in DOMAIN sessions, ~sessions[s].running
        PROVE  /\ ~sessions[s].server
               /\ sessions[s].handle # "closing" => ~sessions[s].rpc
               /\ sessions[s].handle = "open" => ~sessions[s].db /\ sessions[s].pc = "ended"
    <3>1. PICK q : q = sessions[s]
      OBVIOUS
    <3>2. Orderly(q) /\ q \in Session
      BY <2>2, <3>1, Before
    <3>3. q.pc \in Early \cup Late \cup {"ended"}
      BY <3>2 DEF Session, Early, Late
    <3> QED
      BY <2>2, <3>1, <3>2, <3>3 DEF Orderly
  <2> QED
    BY <2>1, <2>2 DEF StoppedIsClosed
<1> QED
  BY <1>1, Invariance, PTL

\* No retry is counted below zero, and under runServer no error brings a
\* controller beyond the retries.
THEOREM RetriesBoundedHolds == Spec => []RetriesBounded
<1>1. ASSUME IInv PROVE RetriesBounded
  <2>1. TypeOK
    BY <1>1, GroundTypes DEF IInv
  <2>2. ASSUME owner = "runServer", ~disturbed, Len(sessions) > 0
        PROVE  Len(sessions) <= MaxSystemRetries + 1
    <3>1. PICK q : q = sessions[Len(sessions)]
      OBVIOUS
    <3>2. Len(sessions) \in DOMAIN sessions /\ Len(sessions) \in Nat
      BY <2>1, <2>2 DEF TypeOK
    <3>3. q \in Session /\ q.retries + q.restarts = MaxSystemRetries - Len(sessions) + 1
      BY <2>2, <3>1, <3>2, <1>1, Before DEF Tally
    <3> QED
      BY <3>2, <3>3, Counters
  <2>3. Len(sessions) \in Nat
    BY <2>1 DEF TypeOK
  <2> QED
    BY <2>1, <2>2, <2>3 DEF RetriesBounded
<1> QED
  BY <1>1, Invariance, PTL

\* What a kill leaves of a migration does not keep a later one from starting.
THEOREM MigrationIsFreeHolds == Spec => []MigrationIsFree
<1>1. IInv => MigrationIsFree
  <2> SUFFICES ASSUME IInv, ~disturbed, NEW s \in DOMAIN sessions, At(s, "migrating"),
                      sessions[s].file # None
               PROVE  files[sessions[s].file].state # "locked"
    BY DEF MigrationIsFree
  <2>1. PICK q : q = sessions[s]
    OBVIOUS
  <2>2. q.pc = "migrating" /\ InPlace(q)
    BY <2>1, Before DEF At, Early
  <2> QED
    BY <2>1, <2>2 DEF InPlace, PathIs
<1> QED
  BY <1>1, Invariance, PTL
=============================================================================
