----------------------------- MODULE JobQueueMC -----------------------------
(* Model-checking values for JobQueue.                                     *)
EXTENDS JobQueue, TLC

\* Every job is a chunked book.
TwoWindows == [j \in Jobs |-> 2]

\* Lost claims, lost replies, lost processes and yields.
Losses   == {"stale", "requeue", "park", "crash", "stop", "lost_reply", "db_down", "late_beat"}
\* And failing jobs, an outage of the share, a failing checkpoint disk.
Faulty   == Losses \cup {"outage", "oom", "save_fails", "no_control"}
\* The operator's controls, stops and yields, with no claim lost.
Gentle   == {"pause", "limit", "park", "stop", "bad_audio"}
\* What a liveness run adds to the gate that flaps on its own.
Flapping == {"park", "stale", "crash", "oom", "lost_reply", "requeue"}

\* Two runners are interchangeable.
RunnerSymmetry == Permutations(Runners)
=============================================================================
