---------------------------- MODULE BuildRuntime ----------------------------
(***************************************************************************)
(* The processes of a source build on one host.  A command script starts a *)
(* supervisor in a session of its own, which starts the sandbox and stays  *)
(* the leader of its group; a private directory says whose it is and how   *)
(* to find it.  A cleaner, the start of every script that replaces or      *)
(* removes what a build uses, stops what is recorded there and removes it. *)
(*                                                                         *)
(* Scripts outlive the client that sent them, so that those of a run that  *)
(* was given up meet those of the next; what keeps them apart is a file    *)
(* lock, and the identity of the directory that each has seen.             *)
(*                                                                         *)
(* A command script stands for the generation that it writes into the      *)
(* directory it makes (its pid and start time); a directory is named after *)
(* the script that made it.  Pids and inodes are not used twice.           *)
(***************************************************************************)
EXTENDS Naturals, FiniteSets

CONSTANTS Commands,   \* command scripts
          Cleaners,   \* scripts that stop and remove what a build left
          NoOne,
          MaxKills    \* scripts and supervisors that are killed, or signalled

ASSUME RuntimeAssumption ==
    /\ Commands \intersect Cleaners = {}
    /\ NoOne \notin Commands \union Cleaners
    /\ \A c \in Commands : <<c>> \notin Commands \union Cleaners
    /\ MaxKills \in Nat

VARIABLES lock,        \* who has the locked descriptor
          dir,         \* the runtime directory: the script that made it
          intent,      \* whether the file of that name is in it
          pending,     \* process.pending: whose
          marker,      \* process: whose
          ready,       \* process.ready: whose
          secrets,     \* whether protected files are in it
          program,     \* whether the supervisor's program is in it
          saved,       \* the marker that who removes the directory has read
          supervisor,  \* the supervisor that each command script started
          cancelled,   \* which supervisors have been told to end
          pc,          \* where each script is
          known,       \* the command scripts that know their generation
          seen,        \* the directory that each cleaner has captured
          kills

directory == <<dir, intent, pending, marker, ready, secrets, program>>
processes == <<supervisor, cancelled>>
vars == <<lock, directory, processes, pc, known, seen, saved, kills>>

Scripts == Commands \union Cleaners
Child(c) == <<c>>
Holders == Scripts \union {Child(c) : c \in Commands}
Owners == Commands \union {NoOne}

\* born: forked, with the lock of its parent; forked: without; setsid: its
\* command line shows; session: leader of its session, written: with its marker
\* pending; published: its marker is there; running: the sandbox runs; leaderless: only the sandbox does.
Leading == {"session", "written", "published", "running"}
Stages == {"none", "born", "forked", "setsid", "leaderless", "gone"} \union Leading
Ended == {"ok", "failed", "killed"}

\* Where a script has the lock, and where it is otherwise.
Holding ==
    {"make", "intend", "stage", "launch", "await", "confirm", "release", "match", "check", "stop", "term",
     "work", "reap", "finish", "unlink_marker", "unlink_intent", "rmdir", "close"}
Locations == Holding \union {"start", "wait", "trap", "lock"} \union Ended

\* Every part of the state has a value of its kind.
TypeOK ==
    /\ lock \subseteq Holders
    /\ {dir, pending, marker, ready, saved} \subseteq Owners
    /\ {intent, secrets, program} \subseteq BOOLEAN
    /\ supervisor \in [Commands -> Stages] /\ cancelled \subseteq Commands
    /\ pc \in [Scripts -> Locations]
    /\ known \subseteq Commands /\ seen \in [Cleaners -> Owners]
    /\ kills \in 0 .. MaxKills

Init ==
    /\ lock = {} /\ dir = NoOne /\ intent = FALSE /\ pending = NoOne /\ marker = NoOne /\ ready = NoOne
    /\ secrets = FALSE /\ program = FALSE /\ saved = NoOne
    /\ supervisor = [c \in Commands |-> "none"] /\ cancelled = {}
    /\ pc = [s \in Scripts |-> "start"]
    /\ known = {} /\ seen = [k \in Cleaners |-> NoOne]
    /\ kills = 0

Goes(s, from, to) == pc[s] = from /\ pc' = [pc EXCEPT ![s] = to]

\* A script ends; its descriptors are closed.
Ends(s, how) == pc' = [pc EXCEPT ![s] = how] /\ lock' = lock \ {s}

\* A command script that fails takes its trap, a cleaner ends.
Fails(s) ==
    IF s \in Cleaners THEN Ends(s, "failed") ELSE pc' = [pc EXCEPT ![s] = "trap"] /\ lock' = lock

-----------------------------------------------------------------------------
(* The lock.                                                               *)

Acquire(s, from, to) ==
    /\ Goes(s, from, to)
    /\ lock = {} /\ lock' = {s}
    /\ UNCHANGED <<directory, processes, known, seen, saved, kills>>

\* The lock stays taken for the fifteen attempts.
TimesOut(s, from) ==
    /\ pc[s] = from
    /\ lock # {} /\ s \notin lock
    /\ IF from = "trap" THEN Ends(s, "failed") ELSE Fails(s)
    /\ UNCHANGED <<directory, processes, known, seen, saved, kills>>

-----------------------------------------------------------------------------
(* A command script.                                                       *)

Lock(c) == Acquire(c, "start", "make") \/ TimesOut(c, "start")
Make(c) ==
    /\ pc[c] = "make"
    /\ IF dir # NoOne THEN Fails(c) /\ UNCHANGED dir
       ELSE dir' = c /\ pc' = [pc EXCEPT ![c] = "intend"] /\ lock' = lock
    /\ UNCHANGED <<intent, pending, marker, ready, secrets, program, processes, known, seen, saved, kills>>

Intend(c) ==
    /\ Goes(c, "intend", "stage")
    /\ intent' = TRUE
    /\ known' = known \union {c}
    /\ UNCHANGED <<lock, dir, pending, marker, ready, secrets, program, processes, seen, saved, kills>>

Stage(c) ==
    /\ Goes(c, "stage", "launch")
    /\ secrets' = TRUE /\ program' = TRUE
    /\ UNCHANGED <<lock, dir, intent, pending, marker, ready, processes, known, seen, saved, kills>>

Launch(c) ==
    /\ Goes(c, "launch", "await")
    /\ supervisor' = [supervisor EXCEPT ![c] = "born"]
    /\ lock' = lock \union {Child(c)}
    /\ UNCHANGED <<directory, cancelled, known, seen, saved, kills>>

\* The marker is there, within five seconds, and it is that of the
\* supervisor, which is still the leader of its session.
Await(c) ==
    /\ pc[c] = "await"
    /\ IF marker = c /\ supervisor[c] = "published" THEN pc' = [pc EXCEPT ![c] = "confirm"] /\ lock' = lock
       ELSE Fails(c)
    /\ UNCHANGED <<directory, processes, known, seen, saved, kills>>

Confirm(c) ==
    /\ Goes(c, "confirm", "release")
    /\ ready' = c
    /\ UNCHANGED <<lock, dir, intent, pending, marker, secrets, program, processes, known, seen, saved, kills>>

Release(c) ==
    /\ Goes(c, "release", "wait")
    /\ lock' = lock \ {c}
    /\ UNCHANGED <<directory, processes, known, seen, saved, kills>>

Wait(c) ==
    /\ Goes(c, "wait", "trap")
    /\ supervisor[c] \in {"gone", "leaderless"}
    /\ UNCHANGED <<lock, directory, processes, known, seen, saved, kills>>

\* The trap of any exit: what is there is stopped and removed, unless it is
\* known to be of another generation.
Trap(c) ==
    \/ c \notin lock /\ (Acquire(c, "trap", "check") \/ TimesOut(c, "trap"))
    \/ c \in lock /\ Goes(c, "trap", "check") /\ UNCHANGED <<lock, directory, processes, known, seen, saved, kills>>

Check(c) ==
    /\ pc[c] = "check"
    /\ IF dir # NoOne /\ c \in known /\ (~intent \/ dir # c) THEN Ends(c, "failed")
       ELSE pc' = [pc EXCEPT ![c] = "stop"] /\ lock' = lock
    /\ UNCHANGED <<directory, processes, known, seen, saved, kills>>

Command(c) ==
    \/ Lock(c) \/ Make(c) \/ Intend(c) \/ Stage(c) \/ Launch(c) \/ Await(c) \/ Confirm(c) \/ Release(c)
    \/ Wait(c) \/ Trap(c) \/ Check(c)

-----------------------------------------------------------------------------
(* A cleaner.                                                              *)

Capture(k) ==
    /\ Goes(k, "start", "lock")
    /\ seen' = [seen EXCEPT ![k] = dir]
    /\ UNCHANGED <<lock, directory, processes, known, saved, kills>>

\* Bug: what appeared while the script waited for the lock is not looked at.
MatchesAnything(k) == TRUE

\* What was captured is still there, or gone; nothing may have appeared.
Matches(k) == dir \in {NoOne, seen[k]}

Match(k) ==
    /\ pc[k] = "match"
    /\ IF Matches(k) THEN pc' = [pc EXCEPT ![k] = "stop"] /\ lock' = lock ELSE Fails(k)
    /\ UNCHANGED <<directory, processes, known, seen, saved, kills>>

\* Here the workspace is removed, and the packages of the build.
Work(k) ==
    /\ Goes(k, "work", "finish")
    /\ UNCHANGED <<lock, directory, processes, known, seen, saved, kills>>

Cleaner(k) ==
    Capture(k) \/ Acquire(k, "lock", "match") \/ TimesOut(k, "lock") \/ Match(k) \/ Work(k)

-----------------------------------------------------------------------------
(* Stopping what is recorded, by whoever has the lock.                     *)

Stopped(s) == pc' = [pc EXCEPT ![s] = IF s \in Cleaners THEN "work" ELSE "reap"] /\ lock' = lock

\* In the trap a failure only costs the rest of the cleanup.
Refuses(s) == Ends(s, "failed")

\* A directory without an intent is removed when nothing else is in it.
Incomplete == marker = NoOne /\ pending = NoOne /\ ready = NoOne /\ ~secrets /\ ~program

StopNothing(s) ==
    /\ pc[s] = "stop" /\ dir = NoOne
    /\ Stopped(s)
    /\ UNCHANGED <<directory, processes, known, seen, saved, kills>>

StopIncomplete(s) ==
    /\ pc[s] = "stop" /\ dir # NoOne /\ ~intent
    /\ IF Incomplete THEN dir' = NoOne /\ Stopped(s) ELSE Refuses(s) /\ UNCHANGED dir
    /\ UNCHANGED <<intent, pending, marker, ready, secrets, program, processes, known, seen, saved, kills>>

\* Bug: without a marker nothing is looked for.
UnrecordedIgnored == NoOne

\* No marker: a supervisor of that generation is looked for by its command
\* line, and must already lead its session.
Unrecorded == IF supervisor[dir] \in {"setsid", "session", "written", "published"} THEN dir ELSE NoOne
Stoppable == IF marker = NoOne THEN Unrecorded ELSE IF supervisor[dir] \in Leading THEN dir ELSE NoOne

\* Bug: a group without its leader is taken for a group that has ended.
MustRefuseStrangers == (marker = NoOne /\ supervisor[dir] = "setsid") \/ (marker # NoOne /\ marker # dir)

\* A supervisor that does not lead its session yet, a marker of another
\* generation, or a group that has lost its leader is left alone.
MustRefuse ==
    \/ marker = NoOne /\ supervisor[dir] = "setsid"
    \/ marker # NoOne /\ (marker # dir \/ supervisor[dir] = "leaderless")

StopRefused(s) ==
    /\ pc[s] = "stop" /\ dir # NoOne /\ intent /\ MustRefuse
    /\ Refuses(s)
    /\ UNCHANGED <<directory, processes, known, seen, saved, kills>>

\* Nothing runs: what is protected goes.
StopSecrets(s) ==
    /\ pc[s] = "stop" /\ dir # NoOne /\ intent /\ ~MustRefuse /\ Stoppable = NoOne
    /\ secrets' = FALSE
    /\ Stopped(s)
    /\ UNCHANGED <<dir, intent, pending, marker, ready, program, processes, known, seen, saved, kills>>

\* TERM to the group.  A supervisor that has not set its trap yet dies.
Terminate(s) ==
    /\ Goes(s, "stop", "term")
    /\ dir # NoOne /\ intent /\ ~MustRefuse /\ Stoppable # NoOne
    /\ cancelled' = cancelled \union {dir}
    /\ supervisor' \in {supervisor, [supervisor EXCEPT ![dir] = IF @ \in {"session", "written"} THEN "gone" ELSE @]}
    /\ UNCHANGED <<lock, directory, known, seen, saved, kills>>

\* KILL to what is still there after a while; then it is looked at again.
Finally(s) ==
    /\ pc[s] = "term"
    /\ IF supervisor[dir] = "leaderless" THEN Refuses(s) /\ UNCHANGED supervisor
       ELSE /\ pc' = [pc EXCEPT ![s] = "stop"] /\ lock' = lock
            /\ supervisor' = [supervisor EXCEPT ![dir] = "gone"]
    /\ UNCHANGED <<directory, cancelled, known, seen, saved, kills>>

\* A command script waits for the supervisor that it started.
Reap(c) ==
    /\ c \in Commands /\ Goes(c, "reap", "finish")
    /\ supervisor[c] \in {"none", "leaderless", "gone"}
    /\ UNCHANGED <<lock, directory, processes, known, seen, saved, kills>>

\* The directory is removed: what is protected first, the marker and the
\* intent last.
Recorded == marker = dir /\ supervisor[dir] \notin {"leaderless"} \union Leading
Finish(s) ==
    /\ pc[s] = "finish"
    /\ \/ dir = NoOne /\ pc' = [pc EXCEPT ![s] = "close"] /\ lock' = lock /\ UNCHANGED <<directory, saved>>
       \/ /\ dir # NoOne /\ ~intent
          /\ IF Incomplete THEN dir' = NoOne /\ pc' = [pc EXCEPT ![s] = "close"] /\ lock' = lock
             ELSE Refuses(s) /\ UNCHANGED dir
          /\ UNCHANGED <<intent, pending, marker, ready, secrets, program, saved>>
       \/ /\ dir # NoOne /\ intent /\ marker # NoOne /\ ~Recorded
          /\ Refuses(s) /\ UNCHANGED <<directory, saved>>
       \/ /\ dir # NoOne /\ intent /\ (marker = NoOne \/ Recorded)
          /\ saved' = marker
          /\ secrets' = FALSE /\ program' = FALSE /\ pending' = NoOne /\ ready' = NoOne
          /\ pc' = [pc EXCEPT ![s] = "unlink_marker"] /\ lock' = lock
          /\ UNCHANGED <<dir, intent, marker>>
    /\ UNCHANGED <<processes, known, seen, kills>>

UnlinkMarker(s) ==
    /\ Goes(s, "unlink_marker", "unlink_intent")
    /\ marker' = NoOne
    /\ UNCHANGED <<lock, dir, intent, pending, ready, secrets, program, processes, known, seen, saved, kills>>

UnlinkIntent(s) ==
    /\ Goes(s, "unlink_intent", "rmdir")
    /\ intent' = FALSE
    /\ UNCHANGED <<lock, dir, pending, marker, ready, secrets, program, processes, known, seen, saved, kills>>

\* With something new in it the directory stays, and what was recorded of it
\* comes back.
Rmdir(s) ==
    /\ pc[s] = "rmdir"
    /\ IF pending = NoOne /\ marker = NoOne
       THEN dir' = NoOne /\ pc' = [pc EXCEPT ![s] = "close"] /\ UNCHANGED <<intent, marker, lock>>
       ELSE intent' = TRUE /\ Refuses(s) /\ marker' = (IF marker = NoOne THEN saved ELSE marker) /\ UNCHANGED dir
    /\ UNCHANGED <<pending, ready, secrets, program, processes, known, seen, saved, kills>>

Close(s) ==
    /\ pc[s] = "close"
    /\ Ends(s, "ok")
    /\ UNCHANGED <<directory, processes, known, seen, saved, kills>>

Teardown(s) ==
    \/ StopNothing(s) \/ StopIncomplete(s) \/ StopRefused(s) \/ StopSecrets(s) \/ Terminate(s) \/ Finally(s)
    \/ Reap(s) \/ Finish(s) \/ UnlinkMarker(s) \/ UnlinkIntent(s) \/ Rmdir(s) \/ Close(s)

-----------------------------------------------------------------------------
(* The supervisor of a command script.                                     *)

Becomes(c, from, to) == supervisor[c] = from /\ supervisor' = [supervisor EXCEPT ![c] = to]

\* Bug: the supervisor is started with the lock.
UnlockNever(c) ==
    /\ Becomes(c, "born", "forked")
    /\ UNCHANGED <<lock, directory, cancelled, pc, known, seen, saved, kills>>

Unlock(c) ==
    /\ Becomes(c, "born", "forked")
    /\ lock' = lock \ {Child(c)}
    /\ UNCHANGED <<directory, cancelled, pc, known, seen, saved, kills>>

Execute(c) ==
    /\ Becomes(c, "forked", "setsid") \/ Becomes(c, "setsid", IF program THEN "session" ELSE "gone")
    /\ UNCHANGED <<lock, directory, cancelled, pc, known, seen, saved, kills>>

\* It writes its marker, whatever directory is at the path now.
WritePending(c) ==
    /\ Becomes(c, "session", IF dir = NoOne THEN "gone" ELSE "written")
    /\ pending' = IF dir = NoOne THEN pending ELSE c
    /\ UNCHANGED <<lock, dir, intent, marker, ready, secrets, program, cancelled, pc, known, seen, saved, kills>>

Publish(c) ==
    /\ Becomes(c, "written", IF pending = NoOne THEN "gone" ELSE "published")
    /\ marker' = (IF pending = NoOne THEN marker ELSE pending) /\ pending' = NoOne
    /\ UNCHANGED <<lock, dir, intent, ready, secrets, program, cancelled, pc, known, seen, saved, kills>>

\* Bug: the confirmation of any generation is taken.
ProceedOnAny(c) ==
    /\ Becomes(c, "published", IF c \in cancelled THEN "gone" ELSE "running")
    /\ c \in cancelled \/ ready # NoOne
    /\ ready' = NoOne
    /\ UNCHANGED <<lock, dir, intent, pending, marker, secrets, program, cancelled, pc, known, seen, saved, kills>>

\* It waits to be confirmed, or told to end.
Proceed(c) ==
    /\ supervisor[c] = "published"
    /\ \/ c \in cancelled /\ supervisor' = [supervisor EXCEPT ![c] = "gone"] /\ UNCHANGED ready
       \/ /\ ready # NoOne
          /\ IF ready # c THEN supervisor' = [supervisor EXCEPT ![c] = "gone"] /\ UNCHANGED ready
             ELSE supervisor' = [supervisor EXCEPT ![c] = IF c \in cancelled THEN "gone" ELSE "running"] /\ ready' = NoOne
    /\ UNCHANGED <<lock, dir, intent, pending, marker, secrets, program, cancelled, pc, known, seen, saved, kills>>

\* The build ends, by itself or told to.
Complete(c) ==
    /\ Becomes(c, "running", "gone")
    /\ UNCHANGED <<lock, directory, cancelled, pc, known, seen, saved, kills>>

\* The sandbox dies with its parent.
Die(c) ==
    /\ Becomes(c, "leaderless", "gone")
    /\ UNCHANGED <<lock, directory, cancelled, pc, known, seen, saved, kills>>

Supervise(c) == Unlock(c) \/ Execute(c) \/ WritePending(c) \/ Publish(c) \/ Proceed(c) \/ Die(c)

-----------------------------------------------------------------------------
(* Faults.                                                                 *)

Alive(s) == pc[s] \notin {"start"} \union Ended

Fault == kills < MaxKills /\ kills' = kills + 1

\* HUP, INT or TERM: a command script takes its trap, which sets it back.
Signal(c) ==
    /\ pc[c] \in {"make", "intend", "stage", "launch", "await", "confirm", "release", "wait"}
    /\ Fault
    /\ pc' = [pc EXCEPT ![c] = "trap"]
    /\ UNCHANGED <<lock, directory, processes, known, seen, saved>>

Kill(s) ==
    /\ Alive(s)
    /\ Fault
    /\ Ends(s, "killed")
    /\ UNCHANGED <<directory, processes, known, seen, saved>>

KillSupervisor(c) ==
    /\ supervisor[c] \in Leading
    /\ Fault
    /\ supervisor' = [supervisor EXCEPT ![c] = IF @ = "running" THEN "leaderless" ELSE "gone"]
    /\ UNCHANGED <<lock, directory, cancelled, pc, known, seen, saved>>

Next ==
    \/ \E c \in Commands : Command(c) \/ Supervise(c) \/ Complete(c) \/ Signal(c) \/ KillSupervisor(c)
    \/ \E k \in Cleaners : Cleaner(k)
    \/ \E s \in Scripts : Teardown(s) \/ Kill(s)

\* What has been started goes on; a build may take for ever.
Started(s) == pc[s] # "start" /\ IF s \in Commands THEN Command(s) ELSE Cleaner(s)
Fairness ==
    /\ \A s \in Scripts : WF_vars(Started(s)) /\ WF_vars(Teardown(s))
    /\ \A c \in Commands : WF_vars(Supervise(c))

Spec == Init /\ [][Next]_vars /\ Fairness

-----------------------------------------------------------------------------
(* Properties.                                                             *)

\* Its script was killed before anything showed of the supervisor, so that
\* whoever cleans up after it finds nothing to stop.
Overlooked(c) == pc[c] = "killed"

\* Whoever looks for a running build finds it: the directory is that of its
\* script, with the intent and a marker, and the marker is its own unless one
\* that was overlooked wrote over it.  So there is never a second sandbox in
\* the workspace, however many runs were given up while their scripts went on
\* (prepare_owned_build_runtime, the confirmation of a supervisor, and
\* finish_owned_build_runtime_locked).
RunningRecorded ==
    \A c \in Commands :
        supervisor[c] \in {"running", "leaderless"} =>
            dir = c /\ intent /\ marker # NoOne /\ (marker # c => Overlooked(marker))

Tearing == {"stop", "term", "work", "reap", "finish", "unlink_marker", "unlink_intent", "rmdir"}

\* What a cleaner stops and removes it had seen before it waited for the lock,
\* and a command script that knows its generation takes down no other
\* (captured_owned_build_runtime_matches, cleanup_runtime).
SparesOthers ==
    /\ \A k \in Cleaners : pc[k] \in Tearing => dir \in {NoOne, seen[k]}
    /\ \A c \in known : pc[c] \in Tearing => dir \in {NoOne, c}

\* While a cleaner removes the workspace or the packages of the build no
\* sandbox runs, and nothing protected is left
\* (begin_owned_build_runtime_transaction, stop_owned_build_runtime_locked).
WorkUndisturbed ==
    \A k \in Cleaners : pc[k] = "work" => ~secrets /\ \A c \in Commands : supervisor[c] \notin {"running", "leaderless"}

\* A script that overlooked its own supervisor waits for it, and it for the
\* script.
Stuck(c) == pc[c] = "reap" /\ supervisor[c] = "published" /\ c \notin cancelled /\ ready = NoOne

\* The lock is always given back, by running builds too, except by a script
\* that waits for the supervisor that it overlooked (wait "$pid" in
\* cleanup_runtime; the launch with 9>&-).
LockFreed == lock # {} ~> (lock = {} \/ \E c \in Commands : Stuck(c))

\* Once the directory is gone and every script has ended, every supervisor
\* ends too, but one that was overlooked and waits for its confirmation
\* (find_unrecorded_build_runtime_process; what a supervisor without its
\* directory does).
OrphansEnd ==
    (dir = NoOne /\ \A s \in Scripts : pc[s] \in Ended) ~>
        (\A c \in Commands : supervisor[c] \in {"none", "gone"} \/ (supervisor[c] = "published" /\ Overlooked(c)))
=============================================================================
