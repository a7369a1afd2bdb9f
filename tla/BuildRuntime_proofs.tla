------------------------- MODULE BuildRuntime_proofs -------------------------
(* What the lock of a build's runtime gives, that a running sandbox is     *)
(* recorded, and that none runs while a workspace is removed, for any      *)
(* number of scripts, of supervisors and of kills.                         *)
EXTENDS BuildRuntime, TLAPS

-----------------------------------------------------------------------------
(* The state keeps its type.                                               *)

\* Every script may have the lock.
LEMMA ScriptsHold == Commands \subseteq Scripts /\ Cleaners \subseteq Scripts /\ Scripts \subseteq Holders
BY DEF Scripts, Holders

\* What a step of a command script, of a cleaner or of whoever has the lock
\* leaves is of its type.
LEMMA CommandTyped ==
    ASSUME TypeOK, NEW c \in Commands, Command(c)
    PROVE  TypeOK'
<1> USE ScriptsHold DEF TypeOK, Locations, Holding, Ended, Owners, Stages, Leading, directory, processes
<1>1. CASE Lock(c)
    BY <1>1 DEF Lock, Acquire, TimesOut, Goes, Ends, Fails
<1>2. CASE Make(c)
    BY <1>2 DEF Make, Fails, Ends
<1>3. CASE Intend(c)
    BY <1>3 DEF Intend, Goes
<1>4. CASE Stage(c)
    BY <1>4 DEF Stage, Goes
<1>5. CASE Launch(c)
    BY <1>5 DEF Launch, Goes, Holders
<1>6. CASE Await(c)
    BY <1>6 DEF Await, Fails, Ends
<1>7. CASE Confirm(c)
    BY <1>7 DEF Confirm, Goes
<1>8. CASE Release(c)
    BY <1>8 DEF Release, Goes
<1>9. CASE Wait(c)
    BY <1>9 DEF Wait, Goes
<1>10. CASE Trap(c)
    <2>1. CASE Acquire(c, "trap", "check")
        BY <2>1 DEF Acquire, Goes
    <2>2. CASE TimesOut(c, "trap")
        BY <2>2 DEF TimesOut, Ends
    <2>3. CASE Goes(c, "trap", "check") /\ UNCHANGED <<lock, directory, processes, known, seen, saved, kills>>
        BY <2>3 DEF Goes
    <2> QED  BY <1>10, <2>1, <2>2, <2>3 DEF Trap
<1>11. CASE Check(c)
    BY <1>11 DEF Check, Ends
<1> QED  BY <1>1, <1>2, <1>3, <1>4, <1>5, <1>6, <1>7, <1>8, <1>9, <1>10, <1>11 DEF Command

LEMMA CleanerTyped ==
    ASSUME TypeOK, NEW k \in Cleaners, Cleaner(k)
    PROVE  TypeOK'
<1> USE ScriptsHold DEF TypeOK, Locations, Holding, Ended, Owners, directory, processes
<1>1. CASE Capture(k)
    BY <1>1 DEF Capture, Goes
<1>2. CASE Work(k)
    BY <1>2 DEF Work, Goes
<1>3. CASE Acquire(k, "lock", "match") \/ TimesOut(k, "lock")
    BY <1>3 DEF Acquire, TimesOut, Goes, Ends, Fails
<1>4. CASE Match(k)
    BY <1>4 DEF Match, Ends, Fails
<1> QED  BY <1>1, <1>2, <1>3, <1>4 DEF Cleaner

LEMMA TeardownTyped ==
    ASSUME TypeOK, NEW s \in Scripts, Teardown(s)
    PROVE  TypeOK'
<1> USE DEF TypeOK, Locations, Holding, Ended, Owners, directory, processes
<1>1. CASE StopNothing(s) \/ StopIncomplete(s) \/ StopRefused(s) \/ StopSecrets(s)
    BY <1>1 DEF StopNothing, StopIncomplete, StopRefused, StopSecrets, Stopped, Refuses, Ends
<1>2. CASE Terminate(s)
    BY <1>2 DEF Terminate, Goes, Stages
<1>3. CASE Finally(s)
    BY <1>3 DEF Finally, Refuses, Ends, Stages
<1>4. CASE Reap(s)
    BY <1>4 DEF Reap, Goes
<1>5. CASE Finish(s)
    BY <1>5 DEF Finish, Refuses, Ends
<1>6. CASE UnlinkMarker(s) \/ UnlinkIntent(s) \/ Close(s)
    BY <1>6 DEF UnlinkMarker, UnlinkIntent, Close, Goes, Ends
<1>7. CASE Rmdir(s)
    BY <1>7 DEF Rmdir, Refuses, Ends
<1> QED  BY <1>1, <1>2, <1>3, <1>4, <1>5, <1>6, <1>7 DEF Teardown

LEMMA SupervisorTyped ==
    ASSUME TypeOK, NEW c \in Commands, Supervise(c) \/ Complete(c) \/ KillSupervisor(c)
    PROVE  TypeOK'
<1> USE DEF TypeOK, Owners, Stages, Leading, directory, Becomes
<1>1. CASE Unlock(c) \/ Execute(c)
    BY <1>1 DEF Unlock, Execute
<1>2. CASE WritePending(c)
    BY <1>2 DEF WritePending
<1>3. CASE Publish(c)
    BY <1>3 DEF Publish
<1>4. CASE Proceed(c)
    BY <1>4 DEF Proceed
<1>5. CASE Die(c) \/ Complete(c)
    BY <1>5 DEF Die, Complete
<1>6. CASE KillSupervisor(c)
    BY <1>6, RuntimeAssumption DEF KillSupervisor, Fault
<1> QED  BY <1>1, <1>2, <1>3, <1>4, <1>5, <1>6 DEF Supervise

LEMMA NextTyped == TypeOK /\ [Next]_vars => TypeOK'
<1> SUFFICES ASSUME TypeOK, [Next]_vars PROVE TypeOK'
    OBVIOUS
<1>1. ASSUME NEW s \in Scripts, Kill(s) PROVE TypeOK'
    BY <1>1, RuntimeAssumption DEF Kill, Ends, Fault, TypeOK, Locations, Ended, directory, processes
<1>2. ASSUME NEW c \in Commands, Signal(c) PROVE TypeOK'
    <2>1. kills' \in 0 .. MaxKills
        BY <1>2, RuntimeAssumption DEF Signal, Fault, TypeOK
    <2>2. pc' \in [Scripts -> Locations]
        BY <1>2 DEF Signal, TypeOK, Locations
    <2> QED  BY <1>2, <2>1, <2>2 DEF Signal, TypeOK, directory, processes
<1>3. CASE UNCHANGED vars
    BY <1>3 DEF vars, TypeOK, directory, processes
<1> QED  BY <1>1, <1>2, <1>3, CommandTyped, CleanerTyped, TeardownTyped, SupervisorTyped DEF Next

-----------------------------------------------------------------------------
(* Who has the lock.                                                       *)

\* Whoever is between taking the lock and giving it back has it, and no
\* second script does; a supervisor may still have it as well.
LockInv ==
    /\ pc \in [Scripts -> Locations]
    /\ \A s \in Scripts : pc[s] \in Holding => s \in lock
    /\ \A s, t \in Scripts : s \in lock /\ t \in lock => s = t

\* At the start no script has the lock, and none needs it.
LEMMA InitLocked == Init => LockInv
BY DEF Init, LockInv, Locations, Holding, Ended

LEMMA AcquireLocked ==
    ASSUME LockInv, NEW s \in Scripts, NEW from, NEW to \in Locations, Acquire(s, from, to)
    PROVE  LockInv'
<1>1. lock = {} /\ lock' = {s} /\ pc' = [pc EXCEPT ![s] = to]
    BY DEF Acquire, Goes
<1>2. \A t \in Scripts : pc[t] \notin Holding
    BY <1>1 DEF LockInv
<1> QED  BY <1>1, <1>2 DEF LockInv

LEMMA CommandLocked ==
    ASSUME LockInv, NEW c \in Commands, Command(c)
    PROVE  LockInv'
<1>0. c \in Scripts /\ c \notin Cleaners /\ Child(c) \notin Scripts
    BY RuntimeAssumption DEF Scripts, Child
<1>1. CASE Acquire(c, "start", "make") \/ Acquire(c, "trap", "check")
    BY <1>0, <1>1, AcquireLocked DEF Locations, Holding
<1>2. CASE TimesOut(c, "start") \/ TimesOut(c, "trap")
    BY <1>0, <1>2 DEF TimesOut, Ends, Fails, LockInv, Locations, Holding, Ended
<1>3. CASE Make(c)
    BY <1>0, <1>3 DEF Make, Fails, LockInv, Locations, Holding, Ended
<1>4. CASE Intend(c) \/ Stage(c) \/ Confirm(c) \/ Await(c)
    BY <1>0, <1>4 DEF Intend, Stage, Confirm, Await, Goes, Fails, LockInv, Locations, Holding, Ended
<1>5. CASE Launch(c)
    BY <1>0, <1>5 DEF Launch, Goes, LockInv, Locations, Holding, Ended
<1>6. CASE Release(c) \/ Wait(c)
    BY <1>0, <1>6 DEF Release, Wait, Goes, LockInv, Locations, Holding, Ended
<1>7. CASE c \in lock /\ Goes(c, "trap", "check") /\ UNCHANGED lock
    BY <1>0, <1>7 DEF Goes, LockInv, Locations, Holding, Ended
<1>8. CASE Check(c)
    BY <1>0, <1>8 DEF Check, Ends, LockInv, Locations, Holding, Ended
<1> QED  BY <1>1, <1>2, <1>3, <1>4, <1>5, <1>6, <1>7, <1>8 DEF Command, Lock, Trap

LEMMA CleanerLocked ==
    ASSUME LockInv, NEW k \in Cleaners, Cleaner(k)
    PROVE  LockInv'
<1>0. k \in Scripts
    BY DEF Scripts
<1>1. CASE Acquire(k, "lock", "match")
    BY <1>0, <1>1, AcquireLocked DEF Locations, Holding
<1>2. CASE Capture(k) \/ Work(k)
    BY <1>0, <1>2 DEF Capture, Work, Goes, LockInv, Locations, Holding, Ended
<1>3. CASE TimesOut(k, "lock")
    BY <1>0, <1>3 DEF TimesOut, Ends, Fails, LockInv, Locations, Holding, Ended
<1>4. CASE Match(k)
    BY <1>0, <1>4 DEF Match, Ends, Fails, LockInv, Locations, Holding, Ended
<1> QED  BY <1>1, <1>2, <1>3, <1>4 DEF Cleaner

LEMMA TeardownLocked ==
    ASSUME LockInv, NEW s \in Scripts, Teardown(s)
    PROVE  LockInv'
<1>1. CASE StopNothing(s) \/ StopIncomplete(s) \/ StopRefused(s) \/ StopSecrets(s)
    BY <1>1 DEF StopNothing, StopIncomplete, StopRefused, StopSecrets, Stopped, Refuses, Ends, LockInv, Locations,
                Holding, Ended
<1>2. CASE Terminate(s) \/ Finally(s) \/ Reap(s)
    BY <1>2 DEF Terminate, Finally, Reap, Goes, Refuses, Ends, LockInv, Locations, Holding, Ended
<1>3. CASE Finish(s)
    BY <1>3 DEF Finish, Refuses, Ends, LockInv, Locations, Holding, Ended
<1>4. CASE UnlinkMarker(s) \/ UnlinkIntent(s) \/ Rmdir(s) \/ Close(s)
    BY <1>4 DEF UnlinkMarker, UnlinkIntent, Rmdir, Close, Goes, Refuses, Ends, LockInv, Locations, Holding, Ended
<1> QED  BY <1>1, <1>2, <1>3, <1>4 DEF Teardown

LEMMA OthersLocked ==
    ASSUME LockInv, NEW c \in Commands, Supervise(c) \/ Complete(c) \/ KillSupervisor(c)
    PROVE  LockInv'
<1>1. Child(c) \notin Scripts
    BY RuntimeAssumption DEF Scripts, Child
<1> QED
    BY <1>1 DEF Supervise, Unlock, Execute, WritePending, Publish, Proceed, Die, Complete, KillSupervisor, LockInv

LEMMA NextLocked == LockInv /\ [Next]_vars => LockInv'
<1> SUFFICES ASSUME LockInv, [Next]_vars PROVE LockInv'
    OBVIOUS
<1>0. Commands \subseteq Scripts
    BY DEF Scripts
<1>1. ASSUME NEW s \in Scripts, Kill(s) PROVE LockInv'
    BY <1>1 DEF Kill, Ends, LockInv, Locations, Holding, Ended
<1>2. ASSUME NEW c \in Commands, Signal(c) PROVE LockInv'
    BY <1>0, <1>2 DEF Signal, LockInv, Locations, Holding, Ended
<1>3. CASE UNCHANGED vars
    BY <1>3 DEF vars, LockInv
<1> QED  BY <1>1, <1>2, <1>3, CommandLocked, CleanerLocked, TeardownLocked, OthersLocked DEF Next

-----------------------------------------------------------------------------
(* Nobody takes down what it has not seen.                                 *)

\* Only who makes a directory changes whose it is, and has the lock then.
DirKept == dir' \in {dir, NoOne}

LEMMA MakesWithLock ==
    ASSUME LockInv, [Next]_vars
    PROVE  DirKept \/ \E c \in Commands : Make(c) /\ c \in lock
<1>1. ASSUME NEW c \in Commands, Make(c) PROVE c \in lock
    BY <1>1 DEF Make, LockInv, Holding, Scripts
<1>2. ASSUME NEW c \in Commands, Command(c), ~Make(c) PROVE DirKept
    BY <1>2 DEF Command, Lock, Acquire, TimesOut, Intend, Stage, Launch, Await, Confirm, Release, Wait, Trap,
                Check, directory, DirKept
<1>3. ASSUME NEW k \in Cleaners, Cleaner(k) PROVE DirKept
    BY <1>3 DEF Cleaner, Capture, Acquire, TimesOut, Match, Work, directory, DirKept
<1>4. ASSUME NEW s \in Scripts, Teardown(s) PROVE DirKept
    BY <1>4 DEF Teardown, StopNothing, StopIncomplete, StopRefused, StopSecrets, Terminate, Finally, Reap, Finish,
                UnlinkMarker, UnlinkIntent, Rmdir, Close, directory, DirKept
<1>5. ASSUME NEW c \in Commands, Supervise(c) \/ Complete(c) \/ KillSupervisor(c) \/ Signal(c) PROVE DirKept
    BY <1>5 DEF Supervise, Unlock, Execute, WritePending, Publish, Proceed, Die, Complete, KillSupervisor, Signal,
                directory, DirKept
<1>6. ASSUME NEW s \in Scripts, Kill(s) PROVE DirKept
    BY <1>6 DEF Kill, directory, DirKept
<1>7. CASE UNCHANGED vars
    BY <1>7 DEF vars, directory, DirKept
<1> QED  BY <1>1, <1>2, <1>3, <1>4, <1>5, <1>6, <1>7 DEF Next

\* A cleaner starts to tear down when what is there matches what it captured.
LEMMA CleanerTears ==
    ASSUME LockInv, [Next]_vars, seen \in [Cleaners -> Owners], NEW k \in Cleaners, pc'[k] \in Tearing
    PROVE  /\ seen'[k] = seen[k]
           /\ pc[k] \in Tearing \/ (Matches(k) /\ dir' = dir)
<1> USE DEF Tearing
<1>0. k \in Scripts /\ k \notin Commands /\ pc \in [Scripts -> Locations]
    BY RuntimeAssumption DEF Scripts, LockInv
<1>1. ASSUME NEW c \in Commands, Command(c) PROVE seen'[k] = seen[k] /\ pc[k] \in Tearing
    BY <1>0, <1>1 DEF Command, Lock, Acquire, TimesOut, Make, Intend, Stage, Launch, Await, Confirm, Release, Wait,
                      Trap, Check, Goes, Ends, Fails
<1>2. ASSUME NEW l \in Cleaners, Cleaner(l)
      PROVE  seen'[k] = seen[k] /\ (pc[k] \in Tearing \/ (Matches(k) /\ dir' = dir))
    <2>1. l \in Scripts
        BY DEF Scripts
    <2>2. CASE Match(l)
        BY <1>0, <2>1, <2>2 DEF Match, Ends, Fails, directory
    <2>3. CASE Capture(l) \/ Work(l)
        BY <1>0, <2>1, <2>3 DEF Capture, Work, Goes
    <2>4. CASE Acquire(l, "lock", "match") \/ TimesOut(l, "lock")
        BY <1>0, <2>1, <2>4 DEF Acquire, TimesOut, Goes, Ends, Fails
    <2> QED  BY <1>2, <2>2, <2>3, <2>4 DEF Cleaner
<1>3. ASSUME NEW s \in Scripts, Teardown(s) PROVE seen'[k] = seen[k] /\ pc[k] \in Tearing
    BY <1>0, <1>3 DEF Teardown, StopNothing, StopIncomplete, StopRefused, StopSecrets, Terminate, Finally, Reap,
                      Finish, UnlinkMarker, UnlinkIntent, Rmdir, Close, Stopped, Refuses, Goes, Ends
<1>4. ASSUME NEW c \in Commands, Supervise(c) \/ Complete(c) \/ KillSupervisor(c)
      PROVE  seen'[k] = seen[k] /\ pc[k] \in Tearing
    BY <1>4 DEF Supervise, Unlock, Execute, WritePending, Publish, Proceed, Die, Complete, KillSupervisor
<1>5. ASSUME NEW c \in Commands, Signal(c) PROVE seen'[k] = seen[k] /\ pc[k] \in Tearing
    BY <1>0, <1>5 DEF Signal
<1>6. ASSUME NEW s \in Scripts, Kill(s) PROVE seen'[k] = seen[k] /\ pc[k] \in Tearing
    BY <1>0, <1>6 DEF Kill, Ends
<1>7. CASE UNCHANGED vars
    BY <1>7 DEF vars
<1> QED  BY <1>1, <1>2, <1>3, <1>4, <1>5, <1>6, <1>7 DEF Next

\* A command script that knows its generation starts to tear down when the
\* directory is its own, or gone.
LEMMA CommandTears ==
    ASSUME LockInv, [Next]_vars, NEW c \in Commands, c \in known', pc'[c] \in Tearing
    PROVE  c \in known /\ (pc[c] \in Tearing \/ (dir \in {NoOne, c} /\ dir' = dir))
<1> USE DEF Tearing
<1>0. c \in Scripts /\ c \notin Cleaners /\ Commands \subseteq Scripts /\ pc \in [Scripts -> Locations]
    BY RuntimeAssumption DEF Scripts, LockInv
<1>1. ASSUME NEW d \in Commands, Command(d)
      PROVE  c \in known /\ (pc[c] \in Tearing \/ (dir \in {NoOne, c} /\ dir' = dir))
    <2>1. CASE Check(d)
        BY <1>0, <2>1 DEF Check, Ends, directory
    <2>2. CASE Intend(d)
        BY <1>0, <2>2 DEF Intend, Goes
    <2>3. CASE ~Check(d) /\ ~Intend(d)
        BY <1>0, <1>1, <2>3 DEF Command, Lock, Acquire, TimesOut, Make, Stage, Launch, Await, Confirm, Release,
                                Wait, Trap, Goes, Ends, Fails
    <2> QED  BY <2>1, <2>2, <2>3
<1>2. ASSUME NEW k \in Cleaners, Cleaner(k) PROVE c \in known /\ pc[c] \in Tearing
    BY <1>0, <1>2 DEF Cleaner, Capture, Acquire, TimesOut, Match, Work, Goes, Ends, Fails
<1>3. ASSUME NEW s \in Scripts, Teardown(s) PROVE c \in known /\ pc[c] \in Tearing
    BY <1>0, <1>3 DEF Teardown, StopNothing, StopIncomplete, StopRefused, StopSecrets, Terminate, Finally, Reap,
                      Finish, UnlinkMarker, UnlinkIntent, Rmdir, Close, Stopped, Refuses, Goes, Ends
<1>4. ASSUME NEW d \in Commands, Supervise(d) \/ Complete(d) \/ KillSupervisor(d)
      PROVE  c \in known /\ pc[c] \in Tearing
    BY <1>4 DEF Supervise, Unlock, Execute, WritePending, Publish, Proceed, Die, Complete, KillSupervisor
<1>5. ASSUME NEW d \in Commands, Signal(d) PROVE c \in known /\ pc[c] \in Tearing
    BY <1>0, <1>5 DEF Signal
<1>6. ASSUME NEW s \in Scripts, Kill(s) PROVE c \in known /\ pc[c] \in Tearing
    BY <1>0, <1>6 DEF Kill, Ends
<1>7. CASE UNCHANGED vars
    BY <1>7 DEF vars
<1> QED  BY <1>1, <1>2, <1>3, <1>4, <1>5, <1>6, <1>7 DEF Next

LEMMA NextSpares == LockInv /\ TypeOK /\ TypeOK' /\ SparesOthers /\ [Next]_vars => SparesOthers'
<1> SUFFICES ASSUME LockInv, TypeOK, TypeOK', SparesOthers, [Next]_vars PROVE SparesOthers'
    OBVIOUS
<1>0. \A s \in Scripts, c \in Commands : pc[s] \in Tearing /\ c \in lock /\ Make(c) => FALSE
    BY DEF LockInv, Tearing, Holding, Make, Scripts
<1>1. ASSUME NEW k \in Cleaners, pc'[k] \in Tearing PROVE dir' \in {NoOne, seen'[k]}
    <2>1. seen'[k] = seen[k] /\ (pc[k] \in Tearing \/ (Matches(k) /\ dir' = dir))
        BY <1>1, CleanerTears DEF TypeOK
    <2>2. CASE pc[k] \in Tearing
        BY <1>0, <2>1, <2>2, MakesWithLock DEF SparesOthers, DirKept, Scripts
    <2>3. CASE Matches(k) /\ dir' = dir
        BY <2>1, <2>3 DEF Matches
    <2> QED  BY <2>1, <2>2, <2>3
<1>2. ASSUME NEW c \in known', pc'[c] \in Tearing PROVE dir' \in {NoOne, c}
    <2>0. c \in Commands
        BY <1>2 DEF TypeOK
    <2>1. c \in known /\ (pc[c] \in Tearing \/ (dir \in {NoOne, c} /\ dir' = dir))
        BY <1>2, <2>0, CommandTears
    <2>2. CASE pc[c] \in Tearing
        BY <1>0, <2>0, <2>1, <2>2, MakesWithLock DEF SparesOthers, DirKept, Scripts
    <2> QED  BY <2>1, <2>2
<1> QED  BY <1>1, <1>2 DEF SparesOthers

-----------------------------------------------------------------------------
(* The theorems.                                                           *)

\* Every part of the state keeps its type, the records on disk naming command
\* scripts only.
THEOREM Typing == Spec => []TypeOK
<1>1. ASSUME Init PROVE TypeOK
    <2>1. kills \in 0 .. MaxKills
        BY <1>1, RuntimeAssumption DEF Init
    <2>2. pc \in [Scripts -> Locations] /\ supervisor \in [Commands -> Stages] /\ seen \in [Cleaners -> Owners]
        BY <1>1 DEF Init, Locations, Stages, Owners
    <2> QED  BY <1>1, <2>1, <2>2 DEF Init, TypeOK, Owners
<1>2. TypeOK /\ [Next]_vars => TypeOK'
    BY NextTyped
<1> QED  BY <1>1, <1>2, PTL DEF Spec

\* Between taking the lock and giving it back a script has it, and no second
\* script does (acquire_owned_build_runtime_lock, cleanup_runtime).
THEOREM Locking == Spec => []LockInv
<1>1. Init => LockInv
    BY InitLocked
<1>2. LockInv /\ [Next]_vars => LockInv'
    BY NextLocked
<1> QED  BY <1>1, <1>2, PTL DEF Spec

\* However many scripts outlive their clients, are signalled or killed, a
\* cleaner stops and removes only what it saw before it waited, and a command
\* script that knows its generation only its own
\* (captured_owned_build_runtime_matches, cleanup_runtime).
THEOREM Sparing == Spec => []SparesOthers
<1>1. Init => SparesOthers
    BY DEF Init, SparesOthers, Scripts, Tearing
<1>2. LockInv /\ TypeOK /\ TypeOK' /\ SparesOthers /\ [Next]_vars => SparesOthers'
    BY NextSpares
<1> QED  BY <1>1, <1>2, Typing, Locking, PTL DEF Spec

-----------------------------------------------------------------------------
(* The records: the inductive invariant.                                   *)

\* A supervisor that has been started but runs no sandbox yet; one that may
\* have been confirmed; one that has written its marker.
Early == {"born", "forked", "setsid", "session", "written", "published"}
Late == {"published", "running", "leaderless", "gone"}
Shown == {"written"} \union Late

\* The sandbox runs, or will without any more of its script.
Runs(c) == supervisor[c] \in {"running", "leaderless"} \/ (supervisor[c] = "published" /\ ready = c)

\* Where whoever has the lock has started to remove the directory, and where
\* it has found that nothing runs.
Removing == {"unlink_marker", "unlink_intent", "rmdir"}
Cleared == {"work", "reap", "finish", "close"} \union Removing

\* What a command script finds as it left it, and when its supervisor is there.
Scripted(c) ==
    /\ pc[c] \in {"start", "make", "intend", "stage", "launch"} => supervisor[c] = "none"
    /\ pc[c] \in {"intend", "stage", "launch", "await", "confirm", "release"} => dir = c
    /\ pc[c] \in {"stage", "launch", "await", "confirm", "release"} => intent
    /\ pc[c] \in {"confirm", "release", "wait"} => supervisor[c] \in Late
    /\ pc[c] = "confirm" => marker # NoOne

\* A supervisor that has yet to run has its directory, and one of which
\* nothing shows has its script with the lock; unless the script was killed,
\* or was refused by a marker that is not its supervisor's.
Attached(c) ==
    supervisor[c] \in Early /\ pc[c] # "killed" =>
        /\ dir = c /\ intent
        /\ supervisor[c] \in {"born", "forked"} => c \in lock \/ marker \notin {NoOne, c}

\* A sandbox that runs has its directory, with the intent and a marker.
Present(c) == Runs(c) => dir = c /\ intent /\ marker # NoOne

\* Past the stop nothing runs, or will run, but what was overlooked, and a
\* script still waits for a supervisor of its own.
Clear(s, c) ==
    pc[s] \in Cleared => ~Runs(c) /\ (supervisor[c] \in Early => pc[c] = "killed" \/ (pc[s] = "reap" /\ c = s))

\* What who has the lock stops was started, and who removes the directory
\* may put back the marker that it has read.
Tears(s) ==
    /\ pc[s] = "term" /\ dir # NoOne => supervisor[dir] # "none"
    /\ pc[s] \in {"work"} \union Removing => ~secrets
    /\ pc[s] \in Removing => dir # NoOne /\ saved \in {NoOne, dir} /\ (saved # NoOne => supervisor[saved] = "gone")

\* A marker is that of a supervisor which has written it, in its own
\* directory unless its script was killed.
Written(p) == p # NoOne => supervisor[p] \in Shown /\ dir # NoOne /\ (p # dir => Overlooked(p))
Records ==
    /\ Written(marker) /\ Written(pending)
    /\ ready # NoOne => supervisor[ready] \in Late
    /\ dir = NoOne => ~secrets

RecordsInv ==
    /\ Records
    /\ \A c \in Commands : Scripted(c) /\ Attached(c) /\ Present(c)
    /\ \A s \in Scripts : Tears(s) /\ \A c \in Commands : Clear(s, c)

USE DEF Early, Late, Shown, Cleared, Removing

-----------------------------------------------------------------------------
(* Steps.                                                                  *)

\* What the invariants say of the script that moves, or whose supervisor does,
\* of a script c and of a script t.
View(s, c, t) ==
    /\ {s, c, t} \subseteq Scripts /\ Commands \subseteq Scripts /\ NoOne \notin Scripts
    /\ Commands \intersect Cleaners = {} /\ \A d \in Commands : Child(d) \notin Scripts
    /\ pc \in [Scripts -> Locations] /\ supervisor \in [Commands -> Stages]
    /\ {dir, marker, pending, ready, saved} \subseteq Commands \union {NoOne}
    /\ pc[s] \in Holding => (t # s => pc[t] \notin Holding) /\ (c # s => pc[c] \notin Holding)
    /\ pc[s] \in Holding => s \in lock /\ (t # s => t \notin lock) /\ (c # s => c \notin lock)
    /\ Records /\ Tears(s) /\ Tears(t)
    /\ s \in Commands => Scripted(s) /\ Attached(s) /\ Present(s) /\ Clear(s, s)
    /\ c \in Commands => Scripted(c) /\ Attached(c) /\ Present(c) /\ Clear(s, c) /\ Clear(t, c)
    /\ dir # NoOne => Attached(dir) /\ Present(dir) /\ Clear(s, dir)

\* What is to be shown of a step.
KeptOf(c) == c \in Commands => Scripted(c) /\ Attached(c) /\ Present(c)
Kept(c, t) == Records /\ KeptOf(c) /\ Tears(t) /\ (c \in Commands => Clear(t, c))

\* The invariants say all that.
LEMMA Viewed ==
    ASSUME TypeOK, LockInv, RecordsInv, NEW s \in Scripts, NEW c \in Scripts, NEW t \in Scripts
    PROVE  View(s, c, t)
<1>1. Commands \subseteq Scripts /\ NoOne \notin Scripts /\ \A d \in Commands : Child(d) \notin Scripts
    BY RuntimeAssumption DEF Scripts, Child
<1>2. pc \in [Scripts -> Locations] /\ supervisor \in [Commands -> Stages]
    BY DEF TypeOK
<1>3. {dir, marker, pending, ready, saved} \subseteq Commands \union {NoOne}
    BY DEF TypeOK, Owners
<1>4. /\ pc[s] \in Holding => (t # s => pc[t] \notin Holding) /\ (c # s => pc[c] \notin Holding)
      /\ pc[s] \in Holding => s \in lock /\ (t # s => t \notin lock) /\ (c # s => c \notin lock)
    BY DEF LockInv
<1> QED  BY <1>1, <1>2, <1>3, <1>4, RuntimeAssumption DEF View, RecordsInv

\* A step that only moves a script, or a supervisor on its way.
Quiet ==
    /\ UNCHANGED <<dir, marker, pending, ready, secrets, saved>>
    /\ \A d \in Commands :
        /\ pc[d] = "killed" => pc'[d] = "killed"
        /\ supervisor[d] # "none" => supervisor'[d] # "none"
        /\ supervisor[d] = "gone" => supervisor'[d] = "gone"
        /\ supervisor[d] \in Late => supervisor'[d] \in Late
        /\ supervisor[d] = "written" => supervisor'[d] \in Shown

\* What is said of the records, and of who removes them, stays true of it.
LEMMA QuietStays ==
    ASSUME NEW s \in Scripts, NEW c \in Scripts, NEW t \in Scripts, View(s, c, t), Quiet
    PROVE  /\ Records'
           /\ pc'[t] = pc[t] \/ pc'[t] \notin {"term", "work"} \union Removing => Tears(t)'
<1>1. Records /\ Tears(t) /\ {dir, marker, pending, ready, saved} \subseteq Commands \union {NoOne}
    BY DEF View
<1>2. Records'
    BY <1>1 DEF Quiet, Records, Written, Overlooked
<1>3. ASSUME pc'[t] = pc[t] \/ pc'[t] \notin {"term", "work"} \union Removing PROVE Tears(t)'
    BY <1>1, <1>3 DEF Quiet, Tears
<1> QED  BY <1>2, <1>3

-----------------------------------------------------------------------------
(* A command script.                                                       *)

\* Whoever takes the lock finds nothing stopped yet.
LEMMA AcquireKept ==
    ASSUME NEW s \in Scripts, NEW c \in Scripts, NEW t \in Scripts, View(s, c, t),
           NEW from, NEW to, Acquire(s, from, to),
           <<from, to>> \in {<<"start", "make">>, <<"trap", "check">>, <<"lock", "match">>}
    PROVE  Kept(c, t)'
<1> USE DEF View, Acquire, Goes, directory, processes
<1>1. Records'
    BY DEF Records, Written, Overlooked, Scripted, Attached, Clear, Tears
<1>2. KeptOf(c)'
    BY DEF KeptOf, Records, Written, Scripted, Attached, Present, Runs, Clear, Tears, Holding
<1>3. Tears(t)'
    BY DEF Records, Written, Tears, Attached, Present, Runs, Clear, Scripted, Holding
<1>4. c \in Commands => Clear(t, c)'
    BY DEF Records, Written, Clear, Runs, Attached, Scripted, Present, Holding
<1> QED  BY <1>1, <1>2, <1>3, <1>4 DEF Kept

\* A script that never had the lock had no supervisor of which nothing shows.
LEMMA TimesOutKept ==
    ASSUME NEW s \in Scripts, NEW c \in Scripts, NEW t \in Scripts, View(s, c, t), NEW from, TimesOut(s, from),
           IF s \in Commands THEN from \in {"start", "trap"} ELSE from = "lock"
    PROVE  Kept(c, t)'
<1> USE DEF View, TimesOut, Ends, Fails, directory, processes
<1>1. Records'
    BY DEF Records, Written, Overlooked, Scripted, Attached, Clear, Tears
<1>2. KeptOf(c)'
    BY DEF KeptOf, Records, Written, Scripted, Attached, Present, Runs, Clear, Tears, Holding
<1>3. Tears(t)'
    BY DEF Records, Written, Tears, Attached, Present, Runs, Clear, Scripted, Holding
<1>4. c \in Commands => Clear(t, c)'
    BY DEF Records, Written, Clear, Runs, Attached, Scripted, Present, Holding
<1> QED  BY <1>1, <1>2, <1>3, <1>4 DEF Kept

\* Where a directory is made there was none, and so no record.
LEMMA MakeKept ==
    ASSUME NEW s \in Commands, NEW c \in Scripts, NEW t \in Scripts, View(s, c, t), Make(s)
    PROVE  Kept(c, t)'
<1> USE DEF View, Make, Fails, Ends, directory, processes
<1>1. Records'
    BY DEF Records, Written, Overlooked, Scripted, Attached, Clear, Tears
<1>2. KeptOf(c)'
    BY DEF KeptOf, Records, Written, Scripted, Attached, Present, Runs, Clear, Tears, Holding
<1>3. Tears(t)'
    BY DEF Records, Written, Tears, Attached, Present, Runs, Clear, Scripted, Holding
<1>4. c \in Commands => Clear(t, c)'
    BY DEF Records, Written, Clear, Runs, Attached, Scripted, Present, Holding
<1> QED  BY <1>1, <1>2, <1>3, <1>4 DEF Kept

\* The intent comes before the supervisor.
LEMMA StageKept ==
    ASSUME NEW s \in Commands, NEW c \in Scripts, NEW t \in Scripts, View(s, c, t), Intend(s) \/ Stage(s)
    PROVE  Kept(c, t)'
<1> USE DEF View, Intend, Stage, Goes, directory, processes
<1>1. Records'
    BY DEF Records, Written, Overlooked, Scripted, Attached, Clear, Tears
<1>2. KeptOf(c)'
    BY DEF KeptOf, Records, Written, Scripted, Attached, Present, Runs, Clear, Tears, Holding
<1>3. Tears(t)'
    BY DEF Records, Written, Tears, Attached, Present, Runs, Clear, Scripted, Holding
<1>4. c \in Commands => Clear(t, c)'
    BY DEF Records, Written, Clear, Runs, Attached, Scripted, Present, Holding
<1> QED  BY <1>1, <1>2, <1>3, <1>4 DEF Kept

\* The script has the lock when it starts its supervisor.
LEMMA LaunchKept ==
    ASSUME NEW s \in Commands, NEW c \in Scripts, NEW t \in Scripts, View(s, c, t), Launch(s)
    PROVE  Kept(c, t)'
<1> USE DEF View, Launch, Goes, directory, processes
<1>1. Records'
    BY DEF Records, Written, Overlooked, Scripted, Attached, Clear, Tears
<1>2. KeptOf(c)'
    BY DEF KeptOf, Records, Written, Scripted, Attached, Present, Runs, Clear, Tears, Holding
<1>3. Tears(t)'
    BY DEF Records, Written, Tears, Attached, Present, Runs, Clear, Scripted, Holding
<1>4. c \in Commands => Clear(t, c)'
    BY DEF Records, Written, Clear, Runs, Attached, Scripted, Present, Holding
<1> QED  BY <1>1, <1>2, <1>3, <1>4 DEF Kept

\* Only a supervisor that has published its marker is confirmed, and its
\* script still has the lock.
LEMMA ConfirmKept ==
    ASSUME NEW s \in Commands, NEW c \in Scripts, NEW t \in Scripts, View(s, c, t), Await(s) \/ Confirm(s)
    PROVE  Kept(c, t)'
<1> USE DEF View, Await, Confirm, Goes, Ends, Fails, directory, processes
<1>1. Records'
    BY DEF Records, Written, Overlooked, Scripted, Attached, Clear, Tears
<1>2. KeptOf(c)'
    BY DEF KeptOf, Records, Written, Scripted, Attached, Present, Runs, Clear, Tears, Holding
<1>3. Tears(t)'
    BY DEF Records, Written, Tears, Attached, Present, Runs, Clear, Scripted, Holding
<1>4. c \in Commands => Clear(t, c)'
    BY DEF Records, Written, Clear, Runs, Attached, Scripted, Present, Holding
<1> QED  BY <1>1, <1>2, <1>3, <1>4 DEF Kept

\* The lock is given back only when the supervisor was confirmed.
LEMMA WaitKept ==
    ASSUME NEW s \in Commands, NEW c \in Scripts, NEW t \in Scripts, View(s, c, t), Release(s) \/ Wait(s)
    PROVE  Kept(c, t)'
<1> USE DEF View, Release, Wait, Goes, directory, processes
<1>1. Quiet
    BY DEF Quiet
<1>2. Records' /\ Tears(t)'
    <2>1. pc'[t] = pc[t] \/ pc'[t] \notin {"term", "work"} \union Removing
        OBVIOUS
    <2> QED  BY <1>1, <2>1, QuietStays
<1>3. KeptOf(c)'
    BY DEF KeptOf, Records, Written, Scripted, Attached, Present, Runs, Clear, Tears, Holding
<1>4. c \in Commands => Clear(t, c)'
    BY DEF Records, Written, Clear, Runs, Attached, Scripted, Present, Holding
<1> QED  BY <1>2, <1>3, <1>4 DEF Kept

\* A script whose supervisor has yet to run still has its own directory, and
\* goes on to stop it.
LEMMA CheckKept ==
    ASSUME NEW s \in Commands, NEW c \in Scripts, NEW t \in Scripts, View(s, c, t),
           Check(s)
           \/ (s \in lock /\ Goes(s, "trap", "check") /\
               UNCHANGED <<lock, directory, processes, known, seen, saved, kills>>)
    PROVE  Kept(c, t)'
<1> USE DEF View, Check, Goes, Ends, directory, processes
<1>1. Quiet
    BY DEF Quiet
<1>2. Records' /\ Tears(t)'
    <2>1. pc'[t] = pc[t] \/ pc'[t] \notin {"term", "work"} \union Removing
        OBVIOUS
    <2> QED  BY <1>1, <2>1, QuietStays
<1>3. KeptOf(c)'
    BY DEF KeptOf, Records, Written, Scripted, Attached, Present, Runs, Clear, Tears, Holding
<1>4. c \in Commands => Clear(t, c)'
    BY DEF Records, Written, Clear, Runs, Attached, Scripted, Present, Holding
<1> QED  BY <1>2, <1>3, <1>4 DEF Kept

-----------------------------------------------------------------------------
(* A cleaner.                                                              *)

\* A cleaner removes the workspace after the stop.
LEMMA CleanerKept ==
    ASSUME NEW s \in Cleaners, NEW c \in Scripts, NEW t \in Scripts, View(s, c, t), Capture(s) \/ Match(s) \/ Work(s)
    PROVE  Kept(c, t)'
<1> USE DEF View, Capture, Match, Work, Goes, Ends, Fails, directory, processes
<1>1. Quiet
    BY DEF Quiet
<1>2. Records' /\ Tears(t)'
    <2>1. pc'[t] = pc[t] \/ pc'[t] \notin {"term", "work"} \union Removing
        OBVIOUS
    <2> QED  BY <1>1, <2>1, QuietStays
<1>3. KeptOf(c)'
    BY DEF KeptOf, Records, Written, Scripted, Attached, Present, Runs, Clear, Tears, Holding
<1>4. c \in Commands => Clear(t, c)'
    BY DEF Records, Written, Clear, Runs, Attached, Scripted, Present, Holding
<1> QED  BY <1>2, <1>3, <1>4 DEF Kept

-----------------------------------------------------------------------------
(* Stopping and removing.                                                  *)

\* Without a directory nothing runs.
LEMMA StopNothingKept ==
    ASSUME NEW s \in Scripts, NEW c \in Scripts, NEW t \in Scripts, View(s, c, t), StopNothing(s)
    PROVE  Kept(c, t)'
<1> USE DEF View, StopNothing, Stopped, directory, processes
<1>1. Records'
    <2>1. Quiet
        BY DEF Quiet
    <2> QED  BY <2>1, QuietStays
<1>2. KeptOf(c)'
    BY DEF KeptOf, Records, Written, Scripted, Attached, Present, Runs, Clear, Tears, Holding
<1>3. Tears(t)'
    BY DEF Records, Written, Tears, Attached, Present, Runs, Clear, Scripted, Holding
<1>4. c \in Commands => Clear(t, c)'
    BY DEF Records, Written, Clear, Runs, Attached, Scripted, Present, Holding
<1> QED  BY <1>1, <1>2, <1>3, <1>4 DEF Kept

\* Without an intent nothing runs.
LEMMA StopIncompleteKept ==
    ASSUME NEW s \in Scripts, NEW c \in Scripts, NEW t \in Scripts, View(s, c, t), StopIncomplete(s)
    PROVE  Kept(c, t)'
<1> USE DEF View, StopIncomplete, Stopped, Refuses, Ends, Incomplete, directory, processes
<1>1. Records'
    BY DEF Records, Written, Overlooked, Scripted, Attached, Clear, Tears
<1>2. KeptOf(c)'
    BY DEF KeptOf, Records, Written, Scripted, Attached, Present, Runs, Clear, Tears, Holding
<1>3. Tears(t)'
    BY DEF Records, Written, Tears, Attached, Present, Runs, Clear, Scripted, Holding
<1>4. c \in Commands => Clear(t, c)'
    BY DEF Records, Written, Clear, Runs, Attached, Scripted, Present, Holding
<1> QED  BY <1>1, <1>2, <1>3, <1>4 DEF Kept

\* A script that is refused leaves a marker that is not its supervisor's.
LEMMA StopRefusedKept ==
    ASSUME NEW s \in Scripts, NEW c \in Scripts, NEW t \in Scripts, View(s, c, t), StopRefused(s)
    PROVE  Kept(c, t)'
<1> USE DEF View, StopRefused, Refuses, Ends, MustRefuse, directory, processes
<1>1. Quiet
    BY DEF Quiet
<1>2. Records' /\ Tears(t)'
    <2>1. pc'[t] = pc[t] \/ pc'[t] \notin {"term", "work"} \union Removing
        OBVIOUS
    <2> QED  BY <1>1, <2>1, QuietStays
<1>3. KeptOf(c)'
    BY DEF KeptOf, Records, Written, Scripted, Attached, Present, Runs, Clear, Tears, Holding
<1>4. c \in Commands => Clear(t, c)'
    BY DEF Records, Written, Clear, Runs, Attached, Scripted, Present, Holding
<1> QED  BY <1>2, <1>3, <1>4 DEF Kept

\* Where nothing is found to stop nothing runs, or will but for what was
\* overlooked.
LEMMA StopSecretsKept ==
    ASSUME NEW s \in Scripts, NEW c \in Scripts, NEW t \in Scripts, View(s, c, t), StopSecrets(s)
    PROVE  Kept(c, t)'
<1> USE DEF View, StopSecrets, MustRefuse, Stoppable, Unrecorded, Stopped, Leading, directory, processes
<1>1. Records'
    BY DEF Records, Written, Overlooked, Scripted, Attached, Clear, Tears
<1>2. KeptOf(c)'
    BY DEF KeptOf, Records, Written, Scripted, Attached, Present, Runs, Clear, Tears, Holding
<1>3. Tears(t)'
    BY DEF Records, Written, Tears, Attached, Present, Runs, Clear, Scripted, Holding
<1>4. c \in Commands => Clear(t, c)'
    BY DEF Records, Written, Clear, Runs, Attached, Scripted, Present, Holding
<1> QED  BY <1>1, <1>2, <1>3, <1>4 DEF Kept

\* Who is told to end keeps its records.
LEMMA TerminateKept ==
    ASSUME NEW s \in Scripts, NEW c \in Scripts, NEW t \in Scripts, View(s, c, t), Terminate(s)
    PROVE  Kept(c, t)'
<1> USE DEF View, Terminate, Goes, MustRefuse, Stoppable, Unrecorded, Leading, directory, processes
<1>1. Records'
    BY DEF Records, Written, Overlooked, Scripted, Attached, Clear, Tears
<1>2. KeptOf(c)'
    <2>1. c \in Commands => Scripted(c)'
        BY DEF Records, Written, Scripted, Tears, Holding
    <2>2. c \in Commands => Attached(c)'
        BY DEF Attached, Holding
    <2>3. c \in Commands => Present(c)'
        BY DEF Present, Runs, Holding
    <2> QED  BY <2>1, <2>2, <2>3 DEF KeptOf
<1>3. Tears(t)'
    BY DEF Records, Written, Tears, Attached, Present, Runs, Clear, Scripted, Holding
<1>4. c \in Commands => Clear(t, c)'
    BY DEF Records, Written, Clear, Runs, Attached, Scripted, Present, Holding
<1> QED  BY <1>1, <1>2, <1>3, <1>4 DEF Kept

\* Who is killed keeps its records.
LEMMA FinallyKept ==
    ASSUME NEW s \in Scripts, NEW c \in Scripts, NEW t \in Scripts, View(s, c, t), Finally(s)
    PROVE  Kept(c, t)'
<1> USE DEF View, Finally, Refuses, Ends, directory, processes
<1>1. Records'
    BY DEF Records, Written, Overlooked, Scripted, Attached, Clear, Tears
<1>2. KeptOf(c)'
    <2>1. c \in Commands => Scripted(c)'
        BY DEF Records, Written, Scripted, Tears, Holding
    <2>2. c \in Commands => Attached(c)'
        BY DEF Attached, Holding
    <2>3. c \in Commands => Present(c)'
        BY DEF Present, Runs, Holding
    <2> QED  BY <2>1, <2>2, <2>3 DEF KeptOf
<1>3. Tears(t)'
    BY DEF Records, Written, Tears, Attached, Present, Runs, Clear, Scripted, Holding
<1>4. c \in Commands => Clear(t, c)'
    BY DEF Records, Written, Clear, Runs, Attached, Scripted, Present, Holding
<1> QED  BY <1>1, <1>2, <1>3, <1>4 DEF Kept

\* A script that waits for its supervisor goes on when it has ended.
LEMMA CloseKept ==
    ASSUME NEW s \in Scripts, NEW c \in Scripts, NEW t \in Scripts, View(s, c, t), Reap(s) \/ Close(s)
    PROVE  Kept(c, t)'
<1> USE DEF View, Reap, Close, Goes, Ends, directory, processes
<1>1. Records'
    <2>1. Quiet
        BY DEF Quiet
    <2> QED  BY <2>1, QuietStays
<1>2. KeptOf(c)'
    BY DEF KeptOf, Records, Written, Scripted, Attached, Present, Runs, Clear, Tears, Holding
<1>3. Tears(t)'
    BY DEF Records, Written, Tears, Attached, Present, Runs, Clear, Scripted, Holding
<1>4. c \in Commands => Clear(t, c)'
    BY DEF Records, Written, Clear, Runs, Attached, Scripted, Present, Holding
<1> QED  BY <1>1, <1>2, <1>3, <1>4 DEF Kept

\* What is removed is recorded as ended, or was never recorded.
LEMMA FinishKept ==
    ASSUME NEW s \in Scripts, NEW c \in Scripts, NEW t \in Scripts, View(s, c, t), Finish(s)
    PROVE  Kept(c, t)'
<1> USE DEF View, Finish, Incomplete, Recorded, Refuses, Ends, Leading, directory, processes
<1>1. Records'
    <2>1. marker' = marker /\ pending' \in {pending, NoOne} /\ ready' \in {ready, NoOne} /\ supervisor' = supervisor
        OBVIOUS
    <2>2. \A d \in Commands : pc[d] = "killed" => pc'[d] = "killed"
        OBVIOUS
    <2>3. \/ dir' = dir /\ (secrets' => secrets)
          \/ dir' = NoOne /\ marker = NoOne /\ pending = NoOne /\ ~secrets'
        OBVIOUS
    <2>4. {marker, pending, ready} \subseteq Commands \union {NoOne} /\ Records
        OBVIOUS
    <2>5. CASE dir' = dir
        BY <2>1, <2>2, <2>3, <2>4, <2>5 DEF Records, Written, Overlooked
    <2>6. CASE dir' = NoOne /\ marker = NoOne /\ pending = NoOne /\ ~secrets'
        BY <2>1, <2>4, <2>6 DEF Records, Written
    <2> QED  BY <2>3, <2>5, <2>6
<1>2. KeptOf(c)'
    BY DEF KeptOf, Records, Written, Scripted, Attached, Present, Runs, Clear, Tears, Holding
<1>3. Tears(t)'
    BY DEF Records, Written, Tears, Attached, Present, Runs, Clear, Scripted, Holding
<1>4. c \in Commands => Clear(t, c)'
    BY DEF Records, Written, Clear, Runs, Attached, Scripted, Present, Holding
<1> QED  BY <1>1, <1>2, <1>3, <1>4 DEF Kept

\* No sandbox runs any more that would need the marker.
LEMMA UnlinkMarkerKept ==
    ASSUME NEW s \in Scripts, NEW c \in Scripts, NEW t \in Scripts, View(s, c, t), UnlinkMarker(s)
    PROVE  Kept(c, t)'
<1> USE DEF View, UnlinkMarker, Goes, directory, processes
<1>1. Records'
    BY DEF Records, Written, Overlooked, Scripted, Attached, Clear, Tears
<1>2. KeptOf(c)'
    BY DEF KeptOf, Records, Written, Scripted, Attached, Present, Runs, Clear, Tears, Holding
<1>3. Tears(t)'
    BY DEF Records, Written, Tears, Attached, Present, Runs, Clear, Scripted, Holding
<1>4. c \in Commands => Clear(t, c)'
    BY DEF Records, Written, Clear, Runs, Attached, Scripted, Present, Holding
<1> QED  BY <1>1, <1>2, <1>3, <1>4 DEF Kept

\* Nor is there one that would need the intent.
LEMMA UnlinkIntentKept ==
    ASSUME NEW s \in Scripts, NEW c \in Scripts, NEW t \in Scripts, View(s, c, t), UnlinkIntent(s)
    PROVE  Kept(c, t)'
<1> USE DEF View, UnlinkIntent, Goes, directory, processes
<1>1. Records'
    BY DEF Records, Written, Overlooked, Scripted, Attached, Clear, Tears
<1>2. KeptOf(c)'
    BY DEF KeptOf, Records, Written, Scripted, Attached, Present, Runs, Clear, Tears, Holding
<1>3. Tears(t)'
    BY DEF Records, Written, Tears, Attached, Present, Runs, Clear, Scripted, Holding
<1>4. c \in Commands => Clear(t, c)'
    BY DEF Records, Written, Clear, Runs, Attached, Scripted, Present, Holding
<1> QED  BY <1>1, <1>2, <1>3, <1>4 DEF Kept

\* A directory is removed without records, and gets back those that it had.
LEMMA RmdirKept ==
    ASSUME NEW s \in Scripts, NEW c \in Scripts, NEW t \in Scripts, View(s, c, t), Rmdir(s)
    PROVE  Kept(c, t)'
<1> USE DEF View, Rmdir, Refuses, Ends, directory, processes
<1>1. Records'
    BY DEF Records, Written, Overlooked, Scripted, Attached, Clear, Tears
<1>2. KeptOf(c)'
    BY DEF KeptOf, Records, Written, Scripted, Attached, Present, Runs, Clear, Tears, Holding
<1>3. Tears(t)'
    BY DEF Records, Written, Tears, Attached, Present, Runs, Clear, Scripted, Holding
<1>4. c \in Commands => Clear(t, c)'
    BY DEF Records, Written, Clear, Runs, Attached, Scripted, Present, Holding
<1> QED  BY <1>1, <1>2, <1>3, <1>4 DEF Kept

-----------------------------------------------------------------------------
(* A supervisor.                                                           *)

\* A supervisor of which nothing shows has its script, or leaves the lock.
LEMMA UnlockKept ==
    ASSUME NEW s \in Commands, NEW c \in Scripts, NEW t \in Scripts, View(s, c, t), Unlock(s) \/ Execute(s)
    PROVE  Kept(c, t)'
<1> USE DEF View, Unlock, Execute, Becomes, directory, processes
<1>1. Quiet
    BY DEF Quiet
<1>2. Records' /\ Tears(t)'
    <2>1. pc'[t] = pc[t] \/ pc'[t] \notin {"term", "work"} \union Removing
        OBVIOUS
    <2> QED  BY <1>1, <2>1, QuietStays
<1>3. KeptOf(c)'
    BY DEF KeptOf, Records, Written, Scripted, Attached, Present, Runs, Clear, Tears, Holding
<1>4. c \in Commands => Clear(t, c)'
    BY DEF Records, Written, Clear, Runs, Attached, Scripted, Present, Holding
<1> QED  BY <1>2, <1>3, <1>4 DEF Kept

\* A supervisor writes into another directory only when its script was
\* killed.
LEMMA WritePendingKept ==
    ASSUME NEW s \in Commands, NEW c \in Scripts, NEW t \in Scripts, View(s, c, t), WritePending(s)
    PROVE  Kept(c, t)'
<1> USE DEF View, WritePending, Becomes, directory, processes
<1>1. Records'
    BY DEF Records, Written, Overlooked, Scripted, Attached, Clear, Tears
<1>2. KeptOf(c)'
    BY DEF KeptOf, Records, Written, Scripted, Attached, Present, Runs, Clear, Tears, Holding
<1>3. Tears(t)'
    BY DEF Records, Written, Tears, Attached, Present, Runs, Clear, Scripted, Holding
<1>4. c \in Commands => Clear(t, c)'
    BY DEF Records, Written, Clear, Runs, Attached, Scripted, Present, Holding
<1> QED  BY <1>1, <1>2, <1>3, <1>4 DEF Kept

\* So does one that publishes what is pending.
LEMMA PublishKept ==
    ASSUME NEW s \in Commands, NEW c \in Scripts, NEW t \in Scripts, View(s, c, t), Publish(s)
    PROVE  Kept(c, t)'
<1> USE DEF View, Publish, Becomes, directory, processes
<1>1. Records'
    BY DEF Records, Written, Overlooked, Scripted, Attached, Clear, Tears
<1>2. KeptOf(c)'
    BY DEF KeptOf, Records, Written, Scripted, Attached, Present, Runs, Clear, Tears, Holding
<1>3. Tears(t)'
    BY DEF Records, Written, Tears, Attached, Present, Runs, Clear, Scripted, Holding
<1>4. c \in Commands => Clear(t, c)'
    BY DEF Records, Written, Clear, Runs, Attached, Scripted, Present, Holding
<1> QED  BY <1>1, <1>2, <1>3, <1>4 DEF Kept

\* Only its own confirmation makes a supervisor run.
LEMMA ProceedKept ==
    ASSUME NEW s \in Commands, NEW c \in Scripts, NEW t \in Scripts, View(s, c, t), Proceed(s)
    PROVE  Kept(c, t)'
<1> USE DEF View, Proceed, Becomes, directory, processes
<1>1. Records'
    BY DEF Records, Written, Overlooked, Scripted, Attached, Clear, Tears
<1>2. KeptOf(c)'
    BY DEF KeptOf, Records, Written, Scripted, Attached, Present, Runs, Clear, Tears, Holding
<1>3. Tears(t)'
    BY DEF Records, Written, Tears, Attached, Present, Runs, Clear, Scripted, Holding
<1>4. c \in Commands => Clear(t, c)'
    BY DEF Records, Written, Clear, Runs, Attached, Scripted, Present, Holding
<1> QED  BY <1>1, <1>2, <1>3, <1>4 DEF Kept

\* What has ended keeps its records.
LEMMA CompleteKept ==
    ASSUME NEW s \in Commands, NEW c \in Scripts, NEW t \in Scripts, View(s, c, t),
           Complete(s) \/ Die(s) \/ KillSupervisor(s)
    PROVE  Kept(c, t)'
<1> USE DEF View, Complete, Die, KillSupervisor, Becomes, Leading, directory, processes
<1>1. Quiet
    BY DEF Quiet
<1>2. Records' /\ Tears(t)'
    <2>1. pc'[t] = pc[t] \/ pc'[t] \notin {"term", "work"} \union Removing
        OBVIOUS
    <2> QED  BY <1>1, <2>1, QuietStays
<1>3. KeptOf(c)'
    BY DEF KeptOf, Records, Written, Scripted, Attached, Present, Runs, Clear, Tears, Holding
<1>4. c \in Commands => Clear(t, c)'
    BY DEF Records, Written, Clear, Runs, Attached, Scripted, Present, Holding
<1> QED  BY <1>2, <1>3, <1>4 DEF Kept

-----------------------------------------------------------------------------
(* Faults.                                                                 *)

\* A signalled script still has the lock.
LEMMA SignalKept ==
    ASSUME NEW s \in Commands, NEW c \in Scripts, NEW t \in Scripts, View(s, c, t), Signal(s)
    PROVE  Kept(c, t)'
<1> USE DEF View, Signal, directory, processes
<1>1. Records'
    BY DEF Records, Written, Overlooked, Scripted, Attached, Clear, Tears
<1>2. KeptOf(c)'
    BY DEF KeptOf, Records, Written, Scripted, Attached, Present, Runs, Clear, Tears, Holding
<1>3. Tears(t)'
    BY DEF Records, Written, Tears, Attached, Present, Runs, Clear, Scripted, Holding
<1>4. c \in Commands => Clear(t, c)'
    BY DEF Records, Written, Clear, Runs, Attached, Scripted, Present, Holding
<1> QED  BY <1>1, <1>2, <1>3, <1>4 DEF Kept

\* A supervisor whose script is killed is overlooked from now on.
LEMMA KillKept ==
    ASSUME NEW s \in Scripts, NEW c \in Scripts, NEW t \in Scripts, View(s, c, t), Kill(s)
    PROVE  Kept(c, t)'
<1> USE DEF View, Kill, Ends, directory, processes
<1>1. Records'
    BY DEF Records, Written, Overlooked, Scripted, Attached, Clear, Tears
<1>2. KeptOf(c)'
    BY DEF KeptOf, Records, Written, Scripted, Attached, Present, Runs, Clear, Tears, Holding
<1>3. Tears(t)'
    BY DEF Records, Written, Tears, Attached, Present, Runs, Clear, Scripted, Holding
<1>4. c \in Commands => Clear(t, c)'
    BY DEF Records, Written, Clear, Runs, Attached, Scripted, Present, Holding
<1> QED  BY <1>1, <1>2, <1>3, <1>4 DEF Kept

-----------------------------------------------------------------------------
(* The theorems.                                                           *)

LEMMA InitRecorded == Init => RecordsInv
<1> SUFFICES ASSUME Init PROVE RecordsInv
    OBVIOUS
<1>1. ASSUME NEW s \in Scripts PROVE pc[s] = "start"
    BY <1>1 DEF Init
<1>2. ASSUME NEW c \in Commands PROVE supervisor[c] = "none" /\ pc[c] = "start"
    BY <1>1, <1>2 DEF Init, Scripts
<1>3. Records
    BY DEF Init, Records, Written
<1>4. ASSUME NEW c \in Commands PROVE Scripted(c) /\ Attached(c) /\ Present(c)
    BY <1>2, <1>4 DEF Scripted, Attached, Present, Runs
<1>5. ASSUME NEW s \in Scripts PROVE Tears(s) /\ \A c \in Commands : Clear(s, c)
    BY <1>1, <1>5 DEF Tears, Clear
<1> QED  BY <1>3, <1>4, <1>5 DEF RecordsInv

\* What is shown for a script c and a script t holds for all of them.
LEMMA KeptAll ==
    ASSUME NEW s \in Scripts, \A c, t \in Scripts : Kept(c, t)'
    PROVE  RecordsInv'
<1>1. Records' /\ \A t \in Scripts : Tears(t)'
    BY DEF Kept
<1>2. ASSUME NEW c \in Commands PROVE (Scripted(c) /\ Attached(c) /\ Present(c))' /\ \A t \in Scripts : Clear(t, c)'
    BY <1>2 DEF Kept, KeptOf, Scripts
<1> QED  BY <1>1, <1>2 DEF RecordsInv

LEMMA NextRecorded == TypeOK /\ LockInv /\ RecordsInv /\ [Next]_vars => RecordsInv'
<1> SUFFICES ASSUME TypeOK, LockInv, RecordsInv, [Next]_vars PROVE RecordsInv'
    OBVIOUS
<1>1. ASSUME NEW s \in Scripts, NEW c \in Scripts, NEW t \in Scripts PROVE View(s, c, t)
    BY <1>1, Viewed
<1>2. Commands \subseteq Scripts /\ Cleaners \subseteq Scripts /\ Commands \intersect Cleaners = {}
    BY RuntimeAssumption DEF Scripts
<1>3. ASSUME NEW s \in Commands, Command(s) PROVE RecordsInv'
    <2>1. ASSUME NEW c \in Scripts, NEW t \in Scripts PROVE Kept(c, t)'
        <3>1. View(s, c, t) /\ s \in Scripts
            BY <1>1, <1>2, <2>1
        <3>2. CASE Lock(s)
            BY <3>1, <3>2, AcquireKept, TimesOutKept DEF Lock
        <3>3. CASE Trap(s)
            BY <3>1, <3>3, AcquireKept, TimesOutKept, CheckKept DEF Trap
        <3>4. CASE Make(s) \/ Intend(s) \/ Stage(s) \/ Launch(s)
            BY <3>1, <3>4, MakeKept, StageKept, LaunchKept
        <3>5. CASE Await(s) \/ Confirm(s) \/ Release(s) \/ Wait(s) \/ Check(s)
            BY <3>1, <3>5, ConfirmKept, WaitKept, CheckKept
        <3> QED  BY <1>3, <3>2, <3>3, <3>4, <3>5 DEF Command
    <2> QED  BY <1>2, <2>1, KeptAll
<1>4. ASSUME NEW s \in Cleaners, Cleaner(s) PROVE RecordsInv'
    <2>1. ASSUME NEW c \in Scripts, NEW t \in Scripts PROVE Kept(c, t)'
        <3>1. View(s, c, t) /\ s \in Scripts /\ s \notin Commands
            BY <1>1, <1>2, <2>1
        <3>2. CASE Acquire(s, "lock", "match") \/ TimesOut(s, "lock")
            BY <3>1, <3>2, AcquireKept, TimesOutKept
        <3>3. CASE Capture(s) \/ Match(s) \/ Work(s)
            BY <3>1, <3>3, CleanerKept
        <3> QED  BY <1>4, <3>2, <3>3 DEF Cleaner
    <2> QED  BY <1>2, <2>1, KeptAll
<1>5. ASSUME NEW s \in Scripts, Teardown(s) \/ Kill(s) PROVE RecordsInv'
    <2>1. ASSUME NEW c \in Scripts, NEW t \in Scripts PROVE Kept(c, t)'
        <3>1. View(s, c, t)
            BY <1>1, <2>1
        <3>2. CASE StopNothing(s) \/ StopIncomplete(s) \/ StopRefused(s) \/ StopSecrets(s) \/ Terminate(s) \/ Finally(s)
            BY <3>1, <3>2, StopNothingKept, StopIncompleteKept, StopRefusedKept, StopSecretsKept, TerminateKept,
               FinallyKept
        <3>3. CASE Reap(s) \/ Finish(s) \/ UnlinkMarker(s) \/ UnlinkIntent(s) \/ Rmdir(s) \/ Close(s) \/ Kill(s)
            BY <3>1, <3>3, CloseKept, FinishKept, UnlinkMarkerKept, UnlinkIntentKept, RmdirKept, KillKept
        <3> QED  BY <1>5, <3>2, <3>3 DEF Teardown
    <2> QED  BY <2>1, KeptAll
<1>6. ASSUME NEW s \in Commands, Supervise(s) \/ Complete(s) \/ KillSupervisor(s) \/ Signal(s) PROVE RecordsInv'
    <2>1. ASSUME NEW c \in Scripts, NEW t \in Scripts PROVE Kept(c, t)'
        <3>1. View(s, c, t)
            BY <1>1, <1>2, <2>1
        <3> QED  BY <1>6, <3>1, UnlockKept, WritePendingKept, PublishKept, ProceedKept, CompleteKept, SignalKept
                    DEF Supervise
    <2> QED  BY <1>2, <2>1, KeptAll
<1>7. CASE UNCHANGED vars
    <2>1. Records'
        BY <1>7 DEF vars, directory, processes, RecordsInv, Records, Written, Overlooked
    <2>2. ASSUME NEW c \in Commands PROVE (Scripted(c) /\ Attached(c) /\ Present(c))'
        BY <1>7, <2>2 DEF vars, directory, processes, RecordsInv, Scripted, Attached, Present, Runs
    <2>3. ASSUME NEW s \in Scripts PROVE Tears(s)' /\ \A c \in Commands : Clear(s, c)'
        BY <1>7, <2>3 DEF vars, directory, processes, RecordsInv, Tears, Clear, Runs
    <2> QED  BY <2>1, <2>2, <2>3 DEF RecordsInv
<1> QED  BY <1>3, <1>4, <1>5, <1>6, <1>7 DEF Next

\* However many scripts, supervisors and kills there are, whoever looks for a
\* running build finds it (prepare_owned_build_runtime, the confirmation of a
\* supervisor, finish_owned_build_runtime_locked).
THEOREM Recording == Spec => []RunningRecorded
<1>1. TypeOK /\ RecordsInv => RunningRecorded
    BY DEF TypeOK, Owners, RecordsInv, Records, Written, Present, Runs, RunningRecorded
<1>2. TypeOK /\ LockInv /\ RecordsInv /\ [Next]_vars => RecordsInv'
    BY NextRecorded
<1> QED  BY <1>1, <1>2, InitRecorded, Typing, Locking, PTL DEF Spec

\* Nothing runs, and nothing protected is left, while a cleaner removes the
\* workspace or the packages of the build (begin_owned_build_runtime_transaction,
\* stop_owned_build_runtime_locked).
THEOREM Undisturbed == Spec => []WorkUndisturbed
<1>1. RecordsInv => WorkUndisturbed
    BY DEF RecordsInv, Tears, Clear, Runs, WorkUndisturbed, Scripts
<1>2. TypeOK /\ LockInv /\ RecordsInv /\ [Next]_vars => RecordsInv'
    BY NextRecorded
<1> QED  BY <1>1, <1>2, InitRecorded, Typing, Locking, PTL DEF Spec
=============================================================================
