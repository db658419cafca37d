---------------------------- MODULE FileMonitor -----------------------------
(***************************************************************************)
(* The file monitor (internal/monitor/monitor.go): every audio file of the  *)
(* library becomes a transcription job, once.  A file is found by the walk  *)
(* at startup, by a create event of this host's kernel, or by the periodic  *)
(* walk, which alone sees what another NFS client wrote.                    *)
(*                                                                         *)
(* Files are copied while they are found; handlers and a walk enqueue side  *)
(* by side; entries cannot be read for a time and statements fail; the      *)
(* process stops and starts.  The library only grows.  A file is hashed to  *)
(* its end of the moment: a checksum stands for what is copied and how much *)
(* of it is there.  Metadata, events and sizes are best-effort records.     *)
(***************************************************************************)
EXTENDS Integers, FiniteSets, TLC

CONSTANTS
  Files,     \* the library's files, numbered from 1
  DirOf,     \* "root" or a directory under it
  Scenes,    \* [copy, size, local, slow, junk, interval, there, faults, restarts]
  StabilityCount,
  MaxPolls   \* polls to stabilityTimeout

Root == "root"
Entry(d, f) == <<d, f>>     \* f = 0: the directory itself
Dirs == {DirOf[f] : f \in Files} \ {Root}

VARIABLES
  scene,
  disk,      \* bytes of each file, -1 before it is there
  dirs,      \* the directories
  watched,   \* directories with an inotify watch
  inbox,     \* create events not handled yet
  mon,       \* the monitor: "down", "scan", "watch", "ready", "stopped"
  walk,      \* the latest walk
  task,      \* what the walk (0) and each create handler are doing
  jobs,      \* transcription_jobs: file, sum
  bytes,     \* run_metrics.audio_bytes: job's file -> the file it is the size of
  faults, restarts

vars == <<scene, disk, dirs, watched, inbox, mon, walk, task, jobs, bytes, faults, restarts>>
lib  == <<scene, disk, dirs>>

NoWalk == [pc |-> "idle", todo |-> {}, there |-> {}, lost |-> {}, other |-> {}]
NoTask == [pc |-> "none", file |-> 0, sum |-> <<>>, job |-> 0, last |-> -1, streak |-> 0, polls |-> 0]
There  == {f \in Files : disk[f] >= 0}

Init ==
  /\ scene \in Scenes
  /\ disk = [f \in Files |-> IF f \in scene.there THEN 0 ELSE -1]
  /\ dirs = {DirOf[f] : f \in scene.there} \cup {Root}
  /\ watched = {} /\ inbox = {} /\ mon = "down" /\ walk = NoWalk
  /\ task = [a \in Files \cup {0} |-> NoTask]
  /\ jobs = {[file |-> f, sum |-> <<scene.copy[f], 0>>] : f \in scene.there \cap scene.junk}
  /\ bytes = [f \in {} |-> 0]
  /\ faults = scene.faults /\ restarts = scene.restarts

Fault(n) == faults >= n /\ faults' = faults - n

-----------------------------------------------------------------------------
(* The library.                                                            *)

\* A file or a directory appears; the kernel reports what it wrote itself in
\* a directory that is watched then.
Report(e, in) == inbox' = IF e \in scene.local /\ in \in watched THEN inbox \cup {e} ELSE inbox
MakeDir(d) ==
  /\ d \notin dirs /\ dirs' = dirs \cup {d} /\ Report(Entry(d, 0), Root)
  /\ UNCHANGED <<scene, disk, watched, mon, walk, task, jobs, bytes, faults, restarts>>
Arrive(f) ==
  /\ disk[f] = -1 /\ DirOf[f] \in dirs
  /\ disk' = [disk EXCEPT ![f] = 0] /\ Report(Entry(DirOf[f], f), DirOf[f])
  /\ UNCHANGED <<scene, dirs, watched, mon, walk, task, jobs, bytes, faults, restarts>>
Grow(f) ==
  /\ disk[f] \in 0 .. scene.size[f] - 1 /\ disk' = [disk EXCEPT ![f] = @ + 1]
  /\ UNCHANGED <<scene, dirs, watched, inbox, mon, walk, task, jobs, bytes, faults, restarts>>

-----------------------------------------------------------------------------
(* Start, Stop.                                                            *)

Within(d) == {Entry(d, f) : f \in {g \in There : DirOf[g] = d}}

BeginWalk == walk' = [NoWalk EXCEPT !.pc = "on", !.there = There,
                        !.todo = {Entry(d, 0) : d \in dirs \ {Root}} \cup Within(Root)]

\* PruneAppleDoubleJobs, and the startup walk.
Start ==
  /\ mon = "down" /\ mon' = "scan" /\ BeginWalk
  /\ \/ jobs' = {j \in jobs : j.file \notin scene.junk} /\ UNCHANGED faults
     \/ Fault(1) /\ UNCHANGED jobs
  /\ UNCHANGED <<scene, disk, dirs, watched, inbox, task, bytes, restarts>>

\* addDirAndSubDirs; the watcher may fail, and the monitor ends with it.
Watch ==
  /\ mon = "scan" /\ walk.pc = "done"
  /\ \/ mon' = "ready" /\ watched' = dirs /\ UNCHANGED faults
     \/ Fault(1) /\ mon' \in {"ready", "stopped"} /\ UNCHANGED watched
  /\ UNCHANGED <<lib, inbox, walk, task, jobs, bytes, restarts>>

Restart ==
  /\ mon # "down" /\ restarts > 0 /\ restarts' = restarts - 1
  /\ mon' = "down" /\ watched' = {} /\ inbox' = {} /\ walk' = NoWalk /\ task' = [a \in DOMAIN task |-> NoTask]
  /\ UNCHANGED <<lib, jobs, bytes, faults>>

\* runPeriodicScan's tick; a walk that goes on takes no other.
Tick ==
  /\ mon = "ready" /\ scene.interval /\ walk.pc = "done" /\ BeginWalk
  /\ UNCHANGED <<lib, watched, inbox, mon, task, jobs, bytes, faults, restarts>>

-----------------------------------------------------------------------------
(* The walk.                                                               *)

Queued(f) == \E j \in jobs : j.file = f
IsAudio(f) == f \notin scene.junk
Under(e)   == IF e[2] = 0 THEN {f \in Files : DirOf[f] = e[1]} ELSE {e[2]}
Walking    == walk.pc = "on" /\ task[0].pc = "none"

\* Mutant: SkipDir, returned for a file, ends its directory.
SkipRest(e) == {x \in walk.todo : x[1] # e[1]}

\* What is left when an entry could not be read.
AfterError(e) == walk.todo \ {e}

\* The entries that may come next, in some order of their names: of a directory
\* whose names were read the walk ends that first.
Inner  == {e \in walk.todo : e[1] # Root /\ e[2] # 0}
Coming == IF Inner = {} THEN walk.todo ELSE Inner

\* filepath.Walk's next entry: an unreadable one is skipped, a directory's
\* names are read, a file not queued is enqueued.
Visit(e) ==
  LET f == e[2]
  IN
  /\ Walking /\ e \in Coming
  /\ \/ /\ Fault(1)
        /\ walk' = [walk EXCEPT !.todo = AfterError(e), !.lost = @ \cup Under(e)] /\ UNCHANGED task
     \/ /\ f = 0 /\ walk' = [walk EXCEPT !.todo = (@ \ {e}) \cup Within(e[1])]
        /\ UNCHANGED <<task, faults>>
     \/ /\ f # 0 /\ walk' = [walk EXCEPT !.todo = @ \ {e}] /\ UNCHANGED faults
        /\ task' = IF IsAudio(f) /\ ~Queued(f) THEN [task EXCEPT ![0] = [NoTask EXCEPT !.pc = "hash", !.file = f]] ELSE task
  /\ UNCHANGED <<lib, watched, inbox, mon, jobs, bytes, restarts>>

EndWalk ==
  /\ Walking /\ walk.todo = {} /\ walk' = [walk EXCEPT !.pc = "done"]
  /\ UNCHANGED <<lib, watched, inbox, mon, task, jobs, bytes, faults, restarts>>

-----------------------------------------------------------------------------
(* The watch.                                                              *)

\* The event loop: a new directory is watched, a new file has its handler.
Handle(e) ==
  /\ mon = "ready" /\ e \in inbox /\ inbox' = inbox \ {e}
  /\ watched' = IF e[2] = 0 THEN watched \cup {e[1]} ELSE watched
  /\ task' = IF e[2] # 0 /\ IsAudio(e[2]) THEN [task EXCEPT ![e[2]] = [NoTask EXCEPT !.pc = "wait", !.file = e[2]]] ELSE task
  /\ UNCHANGED <<lib, mon, walk, jobs, bytes, faults, restarts>>

\* waitForStableSize; at its timeout the file is enqueued anyway.
Poll(a) ==
  LET t == task[a]
      streak == IF disk[t.file] = t.last THEN t.streak + 1 ELSE 0
  IN
  /\ t.pc = "wait"
  /\ task' = [task EXCEPT ![a] =
       IF streak >= StabilityCount \/ t.polls = MaxPolls THEN [@ EXCEPT !.pc = "hash", !.last = -1, !.streak = 0, !.polls = 0]
       ELSE [@ EXCEPT !.last = disk[t.file], !.streak = streak, !.polls = @ + 1]]
  /\ UNCHANGED <<lib, watched, inbox, mon, walk, jobs, bytes, faults, restarts>>

-----------------------------------------------------------------------------
(* enqueueFile.                                                            *)

\* ComputeChecksum.
Hash(a) ==
  LET f == task[a].file
  IN
  /\ task[a].pc = "hash"
  /\ task' = [task EXCEPT ![a].pc = "insert",
                ![a].sum = IF disk[f] = 0 THEN <<"empty", 0>> ELSE <<scene.copy[f], disk[f]>>]
  /\ UNCHANGED <<lib, watched, inbox, mon, walk, jobs, bytes, faults, restarts>>

\* Mutant: deduplicated by the checksum alone.
SameSum(f, sum) == {j \in jobs : j.sum = sum}

\* The unique constraints.
Clashes(f, sum) == {j \in jobs : j.sum = sum \/ j.file = f}

\* InsertJobIfAbsent.  The deadline runs from before the hash: a file whose
\* hash takes longer is refused.
Insert(a) ==
  LET t == task[a]
      Then(j) == [task EXCEPT ![a].pc = "bytes", ![a].job = j]
  IN
  /\ t.pc = "insert"
  /\ \/ /\ t.file \in scene.slow \/ faults > 0
        /\ faults' = IF t.file \in scene.slow THEN faults ELSE faults - 1
        /\ task' = [task EXCEPT ![a] = NoTask]
        /\ walk' = IF a = 0 /\ t.file \notin scene.slow THEN [walk EXCEPT !.lost = @ \cup {t.file}] ELSE walk
        /\ UNCHANGED jobs
     \/ /\ t.file \notin scene.slow /\ Clashes(t.file, t.sum) = {}
        /\ jobs' = jobs \cup {[file |-> t.file, sum |-> t.sum]} /\ task' = Then(t.file) /\ UNCHANGED <<walk, faults>>
     \/ \E j \in Clashes(t.file, t.sum) :
          /\ t.file \notin scene.slow /\ task' = Then(j.file)
          /\ walk' = IF a = 0 /\ ~Queued(t.file) THEN [walk EXCEPT !.other = @ \cup {t.file}] ELSE walk
          /\ UNCHANGED <<jobs, faults>>
  /\ UNCHANGED <<lib, watched, inbox, mon, bytes, restarts>>

\* UpsertAudioBytes, of the job the insert answered with.
Bytes(a) ==
  /\ task[a].pc = "bytes"
  /\ bytes' = (task[a].job :> task[a].file) @@ bytes
  /\ task' = [task EXCEPT ![a] = NoTask]
  /\ UNCHANGED <<lib, watched, inbox, mon, walk, jobs, faults, restarts>>

Next ==
  \/ \E d \in Dirs : MakeDir(d)
  \/ \E f \in Files : Arrive(f) \/ Grow(f)
  \/ Start \/ Watch \/ Restart \/ Tick \/ EndWalk
  \/ \E e \in walk.todo : Visit(e)
  \/ \E e \in inbox : Handle(e)
  \/ \E a \in Files \cup {0} : Poll(a) \/ Hash(a) \/ Insert(a) \/ Bytes(a)

Spec == Init /\ [][Next]_vars

-----------------------------------------------------------------------------
(* Properties.                                                             *)

\* A file hashed in the middle of its copy and again at its end, by a walk and
\* a handler at once, has one job.
OneJobPerFile == \A j, k \in jobs : j.file = k.file \/ j.sum = k.sum => j = k

\* A walk to its end leaves no job owed to a file that was there when it
\* began, but where the file itself could not be read or written down: an
\* unreadable entry costs nothing beside it.  Of two files of one content, one
\* has the job.
WalkLeavesNone ==
  walk.pc = "done" => \A f \in walk.there \ (walk.lost \cup walk.other \cup scene.slow) : IsAudio(f) => Queued(f)

\* What a reader expects of the watch: with nothing left to do, every file
\* this host wrote since the monitor was ready is queued.  A file placed in a
\* new directory before its watch is added raises no event.
WatchMissesNone ==
  mon = "ready" /\ inbox = {} /\ (\A a \in DOMAIN task : task[a].pc = "none") /\ faults = scene.faults =>
    \A f \in There \ walk.there : Entry(DirOf[f], f) \in scene.local => Queued(f) \/ \E j \in jobs : j.sum[1] = scene.copy[f]

\* And of the walk: no file stays unqueued for its length.
WalkTakesSlow == walk.pc = "done" => \A f \in walk.there \ (walk.lost \cup walk.other) : IsAudio(f) => Queued(f)

\* And of the size: it is that of the job's file.
BytesOfItsFile == \A f \in DOMAIN bytes : bytes[f] = f

=============================================================================
