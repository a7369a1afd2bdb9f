--------------------- MODULE NftablesTransaction_proofs ---------------------
(* That the scripts of the transactions on an nftables table exclude each  *)
(* other, and that what is recorded and reported of a transaction is so,   *)
(* for any number of transactions, confirm scripts, rule sets, faults and  *)
(* reboots, as long as the action lock is not taken twice.                 *)
EXTENDS NftablesTransaction, TLAPS

-----------------------------------------------------------------------------
(* The inductive invariant.                                                *)

Outcomes == Final \cup {"none", "pending", "rollback_pending", "missing"}
Statuses == {"none", "preparing", "awaiting_confirmation", "confirming", "confirmed", "rollback_pending",
             "rollback_complete", "rollback_failed"}
PrepareStages == {"idle", "scan", "snapshot", "record", "launch", "await", "build", "activate", "publish", "done",
                  "failing", "failing_unwatched", "failing_unrecorded", "failed"}
RollbackStages == {"rules", "persistence", "marker", "arming", "complete", "settle"}
WatchdogStages == {"none", "loading", "armed", "acquire", "recheck", "remove", "rmdir", "done", "failed", "dead"}
                     \cup RollbackStages
ConfirmStages == {"idle", "check", "lock", "claim", "verify", "persistence", "marker", "arming", "record", "commit",
                  "complete", "done", "trap", "dead"}
Snapshots == [rules : Rules, persistence : Rules, marker : Rules, armed : BOOLEAN]
Directories == [made : BOOLEAN, status : Statuses, expected : BOOLEAN, abort : BOOLEAN, confirmed : BOOLEAN,
                lock : 0 .. Attempts + 1, pid : BOOLEAN]
Clients == [pc : {"idle", "preparing", "asking", "confirming", "ended"}, prepared : BOOLEAN,
            tries : 0 .. Attempts, report : Outcomes]
TypeOK ==
  /\ rules \in Rules /\ persistence \in Rules /\ marker \in Rules /\ armed \in BOOLEAN
  /\ recovery \in [token : 0 .. Transactions, outcome : Outcomes]
  /\ want \in [Tokens -> Rules]
  /\ snapshot \in [Tokens -> Snapshots]
  /\ dir \in [Tokens -> Directories]
  /\ prepare \in [Tokens -> PrepareStages]
  /\ watchdog \in [Tokens -> WatchdogStages]
  /\ confirm \in [Tokens -> [Tries -> ConfirmStages]]
  /\ client \in [Tokens -> Clients]
  /\ reboots \in 0 .. MaxReboots
  /\ shared \in BOOLEAN

\* Where the prepare script has a directory that is in nobody's way.
Underway == {"snapshot", "record", "launch", "await", "build", "activate", "publish",
             "failing_unwatched", "failing_unrecorded"}

\* Where the watchdog is when the prepare script is somewhere.
Launched(t) ==
  /\ prepare[t] \in {"idle", "scan", "snapshot", "record", "launch", "failing_unrecorded"} => watchdog[t] = "none"
  /\ prepare[t] = "await" => watchdog[t] \in {"loading", "armed", "dead"}
  /\ prepare[t] \in {"build", "activate", "publish"} => watchdog[t] = "armed"
  /\ prepare[t] = "failing_unwatched" => watchdog[t] \in {"none", "dead"}
  /\ prepare[t] \in {"failing", "done"} => watchdog[t] \notin {"none", "loading"}
  /\ watchdog[t] = "loading" => prepare[t] = "await"
  /\ watchdog[t] \notin {"none", "loading", "armed", "dead"} => prepare[t] \in {"done", "failing", "failed"}

\* What is in the directory when the prepare script is somewhere.
Prepared(t) ==
  /\ ~ dir[t].made => /\ dir[t].status = "none" /\ dir[t].lock = Free
                      /\ ~ dir[t].expected /\ ~ dir[t].abort /\ ~ dir[t].confirmed /\ ~ dir[t].pid
  /\ prepare[t] \in {"idle", "scan"} => ~ dir[t].made
  /\ prepare[t] \in Underway => dir[t].made /\ ~ Reapable(t)
  /\ prepare[t] # "done" => /\ ~ dir[t].expected /\ ~ dir[t].confirmed
                            /\ \A n \in Tries : confirm[t][n] = "idle"
  /\ dir[t].abort => prepare[t] \in {"done", "failed"}
  /\ prepare[t] = "done" /\ dir[t].made /\ watchdog[t] # "rmdir" => dir[t].expected
  /\ dir[t].expected => watchdog[t] \notin {"rmdir", "done", "dead"}

\* The provider asks for confirmations of what was activated, one after the other.
Asked(t) ==
  /\ client[t].pc = "idle" <=> prepare[t] = "idle"
  /\ client[t].prepared => prepare[t] = "done"
  /\ \A n \in Tries : client[t].tries < n => confirm[t][n] = "idle"
  /\ client[t].pc = "confirming" => client[t].tries > 0

\* A script that has taken the lock relies on the directory and on a watchdog that
\* waits; the lock itself may have been removed behind its back.
Past    == {"persistence", "marker", "arming", "record", "commit"}
Working == {"claim", "verify"} \cup Past
Waits(t) == dir[t].expected /\ ~ dir[t].confirmed /\ watchdog[t] \in {"armed", "acquire"}
Relies(t, n) ==
  /\ Waits(t)
  /\ dir[t].lock \in {n, Free}
  /\ dir[t].lock = n /\ confirm[t][n] # "claim" => dir[t].pid
Confirms(t) ==
  /\ \A n \in Tries : confirm[t][n] \in Working => Relies(t, n)
  /\ \A m, n \in Tries : confirm[t][m] \in Working /\ confirm[t][n] \in Working => m = n
  /\ \A n \in Tries : confirm[t][n] = "complete" => dir[t].confirmed \/ ~ dir[t].expected

\* Whether the transaction is decided shows in the directory; while the watchdog
\* restores, its directory is in everybody's way.
Decides(t) ==
  /\ dir[t].confirmed => watchdog[t] \in {"armed", "acquire", "recheck", "remove"}
  /\ Waits(t) => dir[t].status \in {"awaiting_confirmation", "confirming"}
  /\ watchdog[t] \in {"persistence", "marker", "arming", "complete"} => dir[t].made
  /\ watchdog[t] \in {"rules", "persistence", "marker", "arming", "complete"} /\ dir[t].made =>
       dir[t].status = "rollback_pending"

\* A later transaction has started, or has found no directory in its way.
Beyond(u) == prepare[u] \notin {"idle", "scan", "failed"} \/ watchdog[u] # "none"
Follows(t, u) ==
  t < u => /\ prepare[u] # "idle" => prepare[t] \notin {"idle", "scan"}
           /\ Beyond(u) => ~ dir[t].made

\* All that is said of one transaction.
Local(t) == Launched(t) /\ Prepared(t) /\ Asked(t) /\ Confirms(t) /\ Decides(t)

ScriptsInv ==
  /\ \A t \in Tokens : Local(t)
  /\ \A t, u \in Tokens : Follows(t, u)

USE DEF Final, Outcomes, Statuses, PrepareStages, RollbackStages, WatchdogStages, ConfirmStages, Underway, Past, Working

-----------------------------------------------------------------------------
(* Types.                                                                  *)

\* A step of the provider, once it has started.
Provide(t) == PrepareReturns(t) \/ Attempt(t) \/ ConfirmReturns(t) \/ Ask(t) \/ GiveUp(t)

\* The changes of a directory and of what the provider does.
LEMMA DirectoryTyped ==
    ASSUME NEW d \in Directories
    PROVE  /\ NoDir \in Directories /\ NewDir \in Directories /\ [NoDir EXCEPT !.made = d.made] \in Directories
           /\ \A s \in Statuses : [d EXCEPT !.status = s] \in Directories
           /\ [d EXCEPT !.status = "awaiting_confirmation", !.expected = TRUE] \in Directories
           /\ [d EXCEPT !.pid = TRUE, !.status = "confirming"] \in Directories
           /\ [d EXCEPT !.abort = TRUE] \in Directories /\ [d EXCEPT !.confirmed = TRUE] \in Directories
           /\ \A l \in 0 .. Attempts + 1 : [d EXCEPT !.lock = l, !.pid = FALSE] \in Directories
           /\ \A l \in 0 .. Attempts + 1 : [d EXCEPT !.abort = TRUE, !.lock = l, !.pid = FALSE] \in Directories
<1>1. NoDir \in Directories
    <2>1. 0 \in 0 .. Attempts + 1
        BY NftablesAssumption
    <2> QED  BY <2>1 DEF NoDir, Free, Directories
<1>2. ASSUME NEW e \in Directories, NEW b \in BOOLEAN
      PROVE  /\ [e EXCEPT !.made = b] \in Directories /\ [e EXCEPT !.expected = b] \in Directories
             /\ [e EXCEPT !.pid = b] \in Directories /\ [e EXCEPT !.confirmed = b] \in Directories
             /\ [e EXCEPT !.abort = b] \in Directories
    BY DEF Directories
<1>3. ASSUME NEW e \in Directories, NEW s \in Statuses PROVE [e EXCEPT !.status = s] \in Directories
    BY DEF Directories
<1>4. ASSUME NEW e \in Directories, NEW l \in 0 .. Attempts + 1 PROVE [e EXCEPT !.lock = l] \in Directories
    BY DEF Directories
<1>5. d.made \in BOOLEAN
    BY DEF Directories
<1> HIDE DEF Statuses
<1>6. {"awaiting_confirmation", "confirming"} \subseteq Statuses
    BY DEF Statuses
<1> QED  BY <1>1, <1>2, <1>3, <1>4, <1>5, <1>6 DEF NewDir

\* The shared steps.
LEMMA SetTyped ==
    ASSUME TypeOK, NEW t \in Tokens
    PROVE  /\ \A d \in Directories : SetDir(t, d) => dir' \in [Tokens -> Directories]
           /\ \A s \in Statuses : Status(t, s) => dir' \in [Tokens -> Directories]
           /\ \A s \in PrepareStages : Preparing(t, s) => prepare' \in [Tokens -> PrepareStages]
           /\ \A s \in WatchdogStages : Watching(t, s) => watchdog' \in [Tokens -> WatchdogStages]
           /\ \A n \in Tries, s \in ConfirmStages :
                Confirming(t, n, s) => confirm' \in [Tokens -> [Tries -> ConfirmStages]]
           /\ \A o \in Outcomes : Record(t, o) => recovery' \in [token : 0 .. Transactions, outcome : Outcomes]
           /\ \A c \in Clients : Client(t, c) => client' \in [Tokens -> Clients]
           /\ \A o \in Outcomes : Report(t, o) => client' \in [Tokens -> Clients]
<1> HIDE DEF Statuses, PrepareStages, WatchdogStages, ConfirmStages, Outcomes
<1>1. ASSUME NEW d \in Directories, SetDir(t, d) PROVE dir' \in [Tokens -> Directories]
    BY <1>1 DEF TypeOK, SetDir
<1>2. ASSUME NEW s \in Statuses, Status(t, s) PROVE dir' \in [Tokens -> Directories]
    <2>1. dir[t] \in Directories
        BY DEF TypeOK
    <2> QED  BY <1>1, <1>2, <2>1, DirectoryTyped DEF Status
<1>3. ASSUME NEW s \in PrepareStages, Preparing(t, s) PROVE prepare' \in [Tokens -> PrepareStages]
    BY <1>3 DEF TypeOK, Preparing
<1>4. ASSUME NEW s \in WatchdogStages, Watching(t, s) PROVE watchdog' \in [Tokens -> WatchdogStages]
    BY <1>4 DEF TypeOK, Watching
<1>5. ASSUME NEW n \in Tries, NEW s \in ConfirmStages, Confirming(t, n, s)
      PROVE  confirm' \in [Tokens -> [Tries -> ConfirmStages]]
    BY <1>5 DEF TypeOK, Confirming
<1>6. ASSUME NEW o \in Outcomes, Record(t, o) PROVE recovery' \in [token : 0 .. Transactions, outcome : Outcomes]
    BY <1>6, NftablesAssumption DEF Record, Tokens
<1>7. ASSUME NEW c \in Clients, Client(t, c) PROVE client' \in [Tokens -> Clients]
    BY <1>7 DEF TypeOK, Client
<1>8. ASSUME NEW o \in Outcomes, Report(t, o) PROVE client' \in [Tokens -> Clients]
    <2>1. client[t] \in Clients
        BY DEF TypeOK
    <2>2. [client[t] EXCEPT !.pc = "ended"] \in Clients
        BY <2>1 DEF Clients
    <2>3. [client[t] EXCEPT !.pc = "ended", !.report = o] \in Clients
        BY <2>2 DEF Clients
    <2> QED  BY <1>7, <1>8, <2>3 DEF Report
<1> QED  BY <1>1, <1>2, <1>3, <1>4, <1>5, <1>6, <1>7, <1>8

LEMMA InitTyped == Init => TypeOK
<1> SUFFICES ASSUME Init PROVE TypeOK
    OBVIOUS
<1>1. NoClient \in Clients /\ NoSnapshot \in Snapshots /\ NoDir \in Directories /\ Absent \in Rules
    BY NftablesAssumption DEF NoClient, Clients, NoSnapshot, Snapshots, NoDir, Directories, Rules, Free
<1>2. 0 \in 0 .. Transactions /\ 0 \in 0 .. MaxReboots
    BY NftablesAssumption
<1> HIDE DEF Statuses
<1> QED  BY <1>1, <1>2 DEF Init, TypeOK

LEMMA PrepareTyped == ASSUME TypeOK, NEW t \in Tokens, Prepare(t) PROVE TypeOK'
<1>0. dir[t] \in Directories /\ Free \in 0 .. Attempts + 1 /\ Watchdog \in 0 .. Attempts + 1
    BY NftablesAssumption DEF TypeOK, Free, Watchdog
<1>1. CASE Scan(t)
    <2>1. dir' \in [Tokens -> Directories] /\ prepare' \in [Tokens -> PrepareStages]
        <3>1. NoDir \in Directories /\ NewDir \in Directories
            BY <1>0, DirectoryTyped
        <3>2. [u \in Tokens |-> IF u = t THEN NewDir ELSE NoDir] \in [Tokens -> Directories]
            BY <3>1
        <3> QED  BY <1>1, <3>2, SetTyped DEF TypeOK, Scan
    <2> QED  BY <1>1, <2>1 DEF TypeOK, Scan, host
<1>2. CASE TakeSnapshot(t)
    <2>1. snapshot' \in [Tokens -> Snapshots]
        BY <1>2, SetTyped, DirectoryTyped, <1>0 DEF TypeOK, TakeSnapshot, Snapshots
    <2> QED  BY <1>2, <2>1, SetTyped DEF TypeOK, TakeSnapshot, host
<1>3. CASE RecordPending(t)
    BY <1>3, SetTyped DEF TypeOK, RecordPending, host
<1>4. CASE Launch(t)
    BY <1>4, SetTyped DEF TypeOK, Launch, host
<1>5. CASE AwaitReady(t)
    BY <1>5, SetTyped DEF TypeOK, AwaitReady, host
<1>6. CASE Build(t)
    BY <1>6, SetTyped DEF TypeOK, Build, host
<1>7. CASE Activate(t)
    BY <1>7, SetTyped DEF TypeOK, Activate, host
<1>8. CASE Publish(t)
    BY <1>8, SetTyped, DirectoryTyped, <1>0 DEF TypeOK, Publish, host
<1>9. CASE PrepareFails(t)
    BY <1>9, SetTyped DEF TypeOK, PrepareFails, host
<1>10. CASE FinishPrepare(t)
    BY <1>10, SetTyped, DirectoryTyped, <1>0 DEF TypeOK, FinishPrepare, host
<1> QED  BY <1>1, <1>2, <1>3, <1>4, <1>5, <1>6, <1>7, <1>8, <1>9, <1>10 DEF Prepare

LEMMA WatchTyped == ASSUME TypeOK, NEW t \in Tokens, Watch(t) PROVE TypeOK'
<1>0. dir[t] \in Directories /\ Free \in 0 .. Attempts + 1 /\ Watchdog \in 0 .. Attempts + 1
    BY NftablesAssumption DEF TypeOK, Free, Watchdog
<1>1. CASE Load(t)
    BY <1>1, SetTyped, DirectoryTyped, <1>0 DEF TypeOK, Load, host
<1>2. CASE SeeConfirmed(t)
    BY <1>2, SetTyped, DirectoryTyped, <1>0 DEF TypeOK, SeeConfirmed, host
<1>3. CASE Expire(t)
    BY <1>3, SetTyped DEF TypeOK, Expire, host
<1>4. CASE Lock(t)
    <2>1. shared' \in BOOLEAN
        BY <1>4 DEF Lock, Taken
    <2> QED  BY <1>4, <2>1, SetTyped, DirectoryTyped, <1>0 DEF TypeOK, Lock, host
<1>5. CASE Seize(t)
    <2> DEFINE left(n) == IF n \in Holder(t) /\ dir[t].pid /\ Alive(t, n) THEN "dead" ELSE confirm[t][n]
    <2>1. \A n \in Tries : left(n) \in ConfirmStages
        BY DEF TypeOK
    <2>2. confirm' = [confirm EXCEPT ![t] = [n \in Tries |-> left(n)]]
        BY <1>5 DEF Seize
    <2> HIDE DEF left
    <2>3. confirm' \in [Tokens -> [Tries -> ConfirmStages]]
        BY <2>1, <2>2 DEF TypeOK
    <2>4. dir' \in [Tokens -> Directories] /\ watchdog' \in [Tokens -> WatchdogStages]
        BY <1>5, SetTyped, DirectoryTyped, <1>0 DEF Seize
    <2> QED  BY <1>5, <2>3, <2>4 DEF TypeOK, Seize, host
<1>6. CASE LockFails(t)
    BY <1>6, SetTyped DEF TypeOK, LockFails, host
<1>7. CASE BeginRollback(t)
    BY <1>7, SetTyped, DirectoryTyped, <1>0 DEF TypeOK, BeginRollback, host
<1>8. CASE Restore(t)
    <2>1. rules' \in Rules /\ persistence' \in Rules /\ marker' \in Rules /\ armed' \in BOOLEAN
        BY <1>8, SetTyped DEF TypeOK, Restore, Snapshots
    <2>2. watchdog' \in [Tokens -> WatchdogStages]
        BY <1>8, SetTyped DEF Restore
    <2> QED  BY <1>8, <2>1, <2>2 DEF TypeOK, Restore, host
<1>9. CASE Complete(t)
    BY <1>9, SetTyped, DirectoryTyped, <1>0 DEF TypeOK, Complete, host
<1>10. CASE Settle(t)
    BY <1>10, SetTyped DEF TypeOK, Settle, host
<1>11. CASE RollbackFails(t)
    BY <1>11, SetTyped, DirectoryTyped, <1>0 DEF TypeOK, RollbackFails, host
<1>12. CASE RemoveFiles(t)
    BY <1>12, SetTyped, DirectoryTyped, <1>0 DEF TypeOK, RemoveFiles, host
<1>13. CASE RemoveDirectory(t)
    BY <1>13, SetTyped, DirectoryTyped, <1>0 DEF TypeOK, RemoveDirectory, host
<1> QED  BY <1>1, <1>2, <1>3, <1>4, <1>5, <1>6, <1>7, <1>8, <1>9, <1>10, <1>11, <1>12, <1>13 DEF Watch

LEMMA ConfirmTyped == ASSUME TypeOK, NEW t \in Tokens, NEW n \in Tries, Confirm(t, n) PROVE TypeOK'
<1>0. dir[t] \in Directories /\ Free \in 0 .. Attempts + 1 /\ Watchdog \in 0 .. Attempts + 1
    BY NftablesAssumption DEF TypeOK, Free, Watchdog
<1>1. CASE Check(t, n)
    BY <1>1, SetTyped DEF TypeOK, Check, host
<1>2. CASE Acquire(t, n)
    <2>1. confirm' \in [Tokens -> [Tries -> ConfirmStages]]
        BY <1>2, SetTyped, DirectoryTyped, <1>0 DEF Acquire
    <2>2. n \in 0 .. Attempts + 1
        BY NftablesAssumption DEF Tries
    <2>3. dir' \in [Tokens -> Directories]
        BY <1>2, <2>2, SetTyped, DirectoryTyped, <1>0 DEF TypeOK, Acquire
    <2>4. shared' \in BOOLEAN
        BY <1>2 DEF TypeOK, Acquire, Taken
    <2> QED  BY <1>2, <2>1, <2>3, <2>4 DEF TypeOK, Acquire, host
<1>3. CASE Claim(t, n)
    BY <1>3, SetTyped, DirectoryTyped, <1>0 DEF TypeOK, Claim, host
<1>4. CASE Verify(t, n)
    BY <1>4, SetTyped DEF TypeOK, Verify, host
<1>5. CASE Persist(t, n)
    <2>1. rules' \in Rules /\ persistence' \in Rules /\ marker' \in Rules /\ armed' \in BOOLEAN
        <3>1. want[t] \in Rules /\ (armed \/ want[t] # Absent) \in BOOLEAN
            BY DEF TypeOK
        <3> QED  BY <1>5, <3>1 DEF TypeOK, Persist
    <2>2. confirm' \in [Tokens -> [Tries -> ConfirmStages]]
        BY <1>5, SetTyped DEF Persist
    <2> QED  BY <1>5, <2>1, <2>2 DEF TypeOK, Persist, host
<1>6. CASE RecordConfirmed(t, n)
    BY <1>6, SetTyped DEF TypeOK, RecordConfirmed, host
<1>7. CASE Commit(t, n)
    BY <1>7, SetTyped, DirectoryTyped, <1>0 DEF TypeOK, Commit, host
<1>8. CASE Acknowledge(t, n)
    BY <1>8, SetTyped, DirectoryTyped, <1>0 DEF TypeOK, Acknowledge, host
<1>9. CASE ConfirmFails(t, n)
    BY <1>9, SetTyped DEF TypeOK, ConfirmFails, host
<1>10. CASE FinishConfirmation(t, n)
    BY <1>10, SetTyped, DirectoryTyped, <1>0 DEF TypeOK, FinishConfirmation, host
<1> QED  BY <1>1, <1>2, <1>3, <1>4, <1>5, <1>6, <1>7, <1>8, <1>9, <1>10 DEF Confirm

LEMMA ProviderTyped ==
    ASSUME TypeOK, NEW t \in Tokens, (\E v \in Rules : Start(t, v)) \/ Provide(t)
    PROVE  TypeOK'
<1>0. client[t] \in Clients
    BY DEF TypeOK
<1>1. ASSUME NEW v \in Rules, Start(t, v) PROVE TypeOK'
    <2>1. [client[t] EXCEPT !.pc = "preparing"] \in Clients
        BY <1>0 DEF Clients
    <2> QED  BY <1>1, <2>1, SetTyped DEF TypeOK, Start, host
<1>2. CASE PrepareReturns(t)
    <2>1. ASSUME NEW b \in BOOLEAN PROVE [client[t] EXCEPT !.pc = "asking", !.prepared = b] \in Clients
        <3>1. [client[t] EXCEPT !.pc = "asking"] \in Clients
            BY <1>0 DEF Clients
        <3> QED  BY <3>1 DEF Clients
    <2> QED  BY <1>2, <2>1, SetTyped DEF TypeOK, PrepareReturns, host
<1>3. CASE Attempt(t)
    <2>1. client[t].tries \in 0 .. Attempts /\ client[t].tries < Attempts
        BY <1>0, <1>3 DEF Clients, Attempt
    <2>2. client[t].tries + 1 \in 0 .. Attempts /\ client[t].tries + 1 \in Tries
        BY <2>1, NftablesAssumption DEF Tries
    <2>3. [client[t] EXCEPT !.pc = "confirming"] \in Clients
        BY <1>0 DEF Clients
    <2>4. [client[t] EXCEPT !.pc = "confirming", !.tries = @ + 1] \in Clients
        BY <2>2, <2>3 DEF Clients
    <2> QED  BY <1>3, <2>2, <2>4, SetTyped DEF TypeOK, Attempt, host
<1>4. CASE ConfirmReturns(t)
    <2>1. [client[t] EXCEPT !.pc = "asking"] \in Clients
        BY <1>0 DEF Clients
    <2> QED  BY <1>4, <2>1, SetTyped DEF TypeOK, ConfirmReturns, host
<1>5. CASE Ask(t)
    BY <1>5, SetTyped DEF TypeOK, Ask, host
<1>6. CASE GiveUp(t)
    BY <1>6, SetTyped DEF TypeOK, GiveUp, host
<1> QED  BY <1>1, <1>2, <1>3, <1>4, <1>5, <1>6 DEF Provide

LEMMA RebootTyped == ASSUME TypeOK, Reboot PROVE TypeOK'
<1>1. NoDir \in Directories /\ reboots + 1 \in 0 .. MaxReboots
    BY NftablesAssumption DEF TypeOK, Reboot, NoDir, Free, Directories
<1>2. dir' \in [Tokens -> Directories]
    BY <1>1 DEF Reboot
<1>3. prepare' \in [Tokens -> PrepareStages]
    BY DEF TypeOK, Reboot
<1>4. watchdog' \in [Tokens -> WatchdogStages]
    BY DEF TypeOK, Reboot
<1>5. confirm' \in [Tokens -> [Tries -> ConfirmStages]]
    BY DEF TypeOK, Reboot
<1>6. rules' \in Rules
    BY DEF TypeOK, Reboot, Rules
<1> QED  BY <1>1, <1>2, <1>3, <1>4, <1>5, <1>6 DEF TypeOK, Reboot

LEMMA NextTyped == TypeOK /\ [Next]_vars => TypeOK'
<1> SUFFICES ASSUME TypeOK, [Next]_vars PROVE TypeOK'
    OBVIOUS
<1>1. ASSUME NEW t \in Tokens, Prepare(t) PROVE TypeOK'
    BY <1>1, PrepareTyped
<1>2. ASSUME NEW t \in Tokens, Watch(t) PROVE TypeOK'
    BY <1>2, WatchTyped
<1>3. ASSUME NEW t \in Tokens, NEW n \in Tries, Confirm(t, n) PROVE TypeOK'
    BY <1>3, ConfirmTyped
<1>4. ASSUME NEW t \in Tokens, (\E v \in Rules : Start(t, v)) \/ Provide(t)
      PROVE  TypeOK'
    BY <1>4, ProviderTyped
<1>5. CASE Reboot
    BY <1>5, RebootTyped
<1>6. CASE UNCHANGED vars
    BY <1>6 DEF TypeOK, vars, host
<1> QED  BY <1>1, <1>2, <1>3, <1>4, <1>5, <1>6 DEF Next, Provide

\* Every record and every process of a transaction has its type.
THEOREM Typing == Spec => []TypeOK
BY InitTyped, NextTyped, PTL DEF Spec

-----------------------------------------------------------------------------
(* Steps.                                                                  *)

\* Nothing of any other transaction changes.
Elsewhere(s) ==
  \A t \in Tokens \ {s} :
    /\ dir'[t] = dir[t] /\ prepare'[t] = prepare[t] /\ watchdog'[t] = watchdog[t] /\ confirm'[t] = confirm[t]
    /\ client'[t] = client[t] /\ want'[t] = want[t] /\ snapshot'[t] = snapshot[t]

\* The transaction does not go back, and gets past no other.
Onward(s) ==
  /\ prepare'[s] \in {"idle", "scan"} => prepare'[s] = prepare[s]
  /\ prepare'[s] = "idle" <=> prepare[s] = "idle"
  /\ Beyond(s)' => Beyond(s)
  /\ dir'[s].made => dir[s].made

\* What is to be shown of a step.
Kept(s) == Local(s)' /\ Elsewhere(s) /\ Onward(s)

\* The prepare script past its scan.
LEMMA PrepareKept ==
    ASSUME TypeOK, NEW s \in Tokens, Local(s), Prepare(s), ~ Scan(s)
    PROVE  Kept(s)
<1> USE DEF TypeOK, Directories, Clients, Local, Launched, Prepared, Asked, Confirms, Decides, Waits,
    Relies, NoDir, Free, Reapable,
    Kept, Elsewhere, Onward, Beyond, host, Preparing, Record, SetDir, Started, Status, Watching
<1>1. CASE TakeSnapshot(s)
    BY <1>1 DEF TakeSnapshot
<1>2. CASE RecordPending(s)
    BY <1>2 DEF RecordPending
<1>3. CASE Launch(s)
    BY <1>3 DEF Launch
<1>4. CASE AwaitReady(s)
    BY <1>4 DEF AwaitReady
<1>5. CASE Build(s)
    BY <1>5 DEF Build
<1>6. CASE Activate(s)
    BY <1>6 DEF Activate
<1>7. CASE Publish(s)
    BY <1>7 DEF Publish
<1>8. CASE PrepareFails(s)
    BY <1>8 DEF PrepareFails
<1>9. CASE FinishPrepare(s)
    <2>1. CASE prepare[s] = "failing"
        <3>1. /\ prepare[s] = "failing" /\ Preparing(s, "failed")
              /\ SetDir(s, IF dir[s].made THEN [dir[s] EXCEPT !.abort = TRUE] ELSE dir[s])
              /\ UNCHANGED <<watchdog, confirm, want, snapshot, client>>
            BY <1>9, <2>1 DEF FinishPrepare
        <3> QED  BY <3>1
    <2>2. CASE prepare[s] = "failing_unwatched"
        BY <1>9, <2>2 DEF FinishPrepare
    <2>3. CASE prepare[s] = "failing_unrecorded"
        BY <1>9, <2>3 DEF FinishPrepare
    <2> QED  BY <1>9, <2>1, <2>2, <2>3 DEF FinishPrepare
<1> QED  BY <1>1, <1>2, <1>3, <1>4, <1>5, <1>6, <1>7, <1>8, <1>9 DEF Prepare

\* The watchdog.
LEMMA WatchKept == ASSUME TypeOK, NEW s \in Tokens, Local(s), Watch(s), ~ shared' PROVE Kept(s)
<1> USE DEF TypeOK, Directories, Clients, Local, Launched, Prepared, Asked, Confirms, Decides, Waits,
    Relies, NoDir, Free, Reapable,
    Kept, Elsewhere, Onward, Beyond, host, Alive, Holder, Record, RollingBack, Sees, SetDir, Status, Watchdog, Watching
<1>1. CASE Load(s)
    <2>1. CASE watchdog'[s] = "armed"
        BY <1>1, <2>1 DEF Load
    <2>2. CASE watchdog'[s] = "dead"
        <3>1. /\ watchdog[s] = "loading" /\ Watching(s, "dead")
              /\ Status(s, "rollback_failed") /\ UNCHANGED <<prepare, confirm, want, snapshot, client>>
            BY <1>1, <2>2 DEF Load
        <3> QED  BY <3>1
    <2> QED  BY <1>1, <2>1, <2>2 DEF Load
<1>2. CASE SeeConfirmed(s)
    BY <1>2 DEF SeeConfirmed
<1>3. CASE Expire(s)
    BY <1>3 DEF Expire
<1>4. CASE Lock(s)
    BY <1>4 DEF Lock, AtWork, Taken
<1>5. CASE Seize(s)
    BY <1>5 DEF Seize
<1>6. CASE LockFails(s)
    BY <1>6 DEF LockFails
<1>7. CASE BeginRollback(s)
    BY <1>7 DEF BeginRollback
<1>8. CASE Restore(s)
    BY <1>8 DEF Restore
<1>9. CASE Complete(s)
    BY <1>9 DEF Complete
<1>10. CASE Settle(s)
    BY <1>10 DEF Settle
<1>11. CASE RollbackFails(s)
    BY <1>11 DEF RollbackFails
<1>12. CASE RemoveFiles(s)
    BY <1>12 DEF RemoveFiles
<1>13. CASE RemoveDirectory(s)
    BY <1>13 DEF RemoveDirectory
<1> QED  BY <1>1, <1>2, <1>3, <1>4, <1>5, <1>6, <1>7, <1>8, <1>9, <1>10, <1>11, <1>12, <1>13 DEF Watch

\* A script that has no part in it leaves the others what they rely on.
LEMMA OthersConfirm ==
    ASSUME NEW s \in Tokens, NEW n \in Tries, Confirms(s), confirm'[s][n] \notin Working \cup {"complete"},
           \A m \in Tries \ {n} : confirm'[s][m] = confirm[s][m], UNCHANGED watchdog,
           dir'[s].expected = dir[s].expected, dir'[s].confirmed = dir[s].confirmed,
           dir'[s].lock = Free \/ (dir'[s].lock = dir[s].lock /\ dir'[s].pid = dir[s].pid)
    PROVE  Confirms(s)'
<1>1. Waits(s)' <=> Waits(s)
    BY DEF Waits
<1>2. ASSUME NEW m \in Tries, confirm'[s][m] \in Working
      PROVE  m # n /\ confirm[s][m] \in Working /\ Relies(s, m)'
    <2>1. m # n /\ confirm'[s][m] = confirm[s][m]
        BY <1>2
    <2>2. Relies(s, m)
        BY <1>2, <2>1 DEF Confirms
    <2>3. m # Free
        BY DEF Tries, Free
    <2> QED  BY <1>1, <1>2, <2>1, <2>2, <2>3 DEF Relies
<1>3. ASSUME NEW m \in Tries, confirm'[s][m] = "complete" PROVE dir'[s].confirmed \/ ~ dir'[s].expected
    BY <1>3 DEF Confirms
<1>4. ASSUME NEW k \in Tries, NEW m \in Tries, confirm'[s][k] \in Working, confirm'[s][m] \in Working PROVE k = m
    BY <1>2, <1>4 DEF Confirms
<1> QED  BY <1>2, <1>3, <1>4 DEF Confirms

\* A confirm script.
LEMMA ConfirmKept ==
    ASSUME TypeOK, NEW s \in Tokens, NEW n \in Tries, Local(s), Confirm(s, n), ~ shared'
    PROVE  Kept(s)
<1> USE DEF TypeOK, Directories, Clients, Local, Launched, Prepared, Asked, Confirms, Decides, Waits,
    Relies, NoDir, Free, Reapable,
    Kept, Elsewhere, Onward, Beyond, host, Alive, Confirming, Record, SetDir, Status
<1>1. CASE Check(s, n)
    BY <1>1 DEF Check
<1>2. CASE Acquire(s, n)
    <2>1. CASE Confirming(s, n, "claim")
        <3>1. /\ confirm[s][n] = "lock" /\ Confirming(s, n, "claim") /\ dir[s].made /\ dir[s].lock = Free
              /\ SetDir(s, [dir[s] EXCEPT !.lock = n, !.pid = FALSE])
              /\ UNCHANGED <<prepare, watchdog, want, snapshot, client>>
              /\ Taken(AtWork(s) \/ Decided(s))
            BY <1>2, <2>1 DEF Acquire
        <3>2. ~ Decided(s) /\ \A m \in Tries : confirm[s][m] \notin Working
            BY <3>1 DEF AtWork, Taken
        <3>3. Waits(s)
            <4>1. prepare[s] = "done"
                BY <3>1
            <4>2. ~ dir[s].confirmed /\ watchdog[s] \in {"armed", "acquire"}
                BY <3>2 DEF Decided
            <4> QED  BY <3>1, <4>1, <4>2
        <3>4. /\ dir' = [dir EXCEPT ![s] = [dir[s] EXCEPT !.lock = n, !.pid = FALSE]]
              /\ dir'[s].lock = n /\ ~ dir'[s].pid /\ dir'[s].made
              /\ dir'[s].expected = dir[s].expected /\ dir'[s].confirmed = dir[s].confirmed
              /\ dir'[s].status = dir[s].status /\ dir'[s].abort = dir[s].abort
            BY <3>1
        <3>5. /\ confirm'[s][n] = "claim" /\ \A m \in Tries \ {n} : confirm'[s][m] = confirm[s][m]
              /\ \A t \in Tokens \ {s} : confirm'[t] = confirm[t]
            BY <3>1
        <3>6. Confirms(s)'
            <4>1. \A m \in Tries : confirm'[s][m] \in Working => m = n
                BY <3>2, <3>5
            <4>2. Waits(s)'
                BY <3>1, <3>3, <3>4
            <4>3. Relies(s, n)'
                BY <3>4, <3>5, <4>2
            <4>4. ASSUME NEW m \in Tries, confirm'[s][m] = "complete" PROVE dir'[s].confirmed \/ ~ dir'[s].expected
                <5>1. m # n /\ confirm[s][m] = "complete"
                    BY <3>5, <4>4
                <5>2. dir[s].confirmed \/ ~ dir[s].expected
                    BY <5>1
                <5> QED  BY <3>4, <5>2
            <4> QED  BY <4>1, <4>3, <4>4
        <3>7. Launched(s)' /\ Prepared(s)' /\ Asked(s)' /\ Decides(s)'
            BY <3>1, <3>3, <3>4, <3>5
        <3>8. Elsewhere(s) /\ Onward(s)
            BY <3>1, <3>4, <3>5
        <3> QED  BY <3>6, <3>7, <3>8
    <2>2. CASE Confirming(s, n, "trap")
        BY <1>2, <2>2 DEF Acquire
    <2> QED  BY <1>2, <2>1, <2>2 DEF Acquire
<1>3. CASE Claim(s, n)
    <2>1. CASE Confirming(s, n, "verify")
        <3>1. /\ confirm[s][n] = "claim" /\ Confirming(s, n, "verify") /\ dir[s].lock # Free
              /\ SetDir(s, [dir[s] EXCEPT !.pid = TRUE, !.status = "confirming"])
              /\ UNCHANGED <<prepare, watchdog, want, snapshot, client>>
            BY <1>3, <2>1 DEF Claim
        <3> QED  BY <3>1
    <2>2. CASE Confirming(s, n, "trap")
        BY <1>3, <2>2 DEF Claim
    <2> QED  BY <1>3, <2>1, <2>2 DEF Claim
<1>4. CASE Verify(s, n)
    BY <1>4 DEF Verify
<1>5. CASE Persist(s, n)
    <2>1. UNCHANGED <<recovery, want, snapshot, dir, prepare, watchdog, client>>
        BY <1>5 DEF Persist
    <2>2. CASE confirm[s][n] = "persistence" /\ Confirming(s, n, "marker")
        BY <2>1, <2>2
    <2>3. CASE confirm[s][n] = "marker" /\ Confirming(s, n, "arming")
        BY <2>1, <2>3
    <2>4. CASE confirm[s][n] = "arming" /\ Confirming(s, n, "record")
        BY <2>1, <2>4
    <2> QED  BY <1>5, <2>2, <2>3, <2>4 DEF Persist
<1>6. CASE RecordConfirmed(s, n)
    BY <1>6 DEF RecordConfirmed
<1>7. CASE Commit(s, n)
    BY <1>7 DEF Commit
<1>8. CASE Acknowledge(s, n)
    BY <1>8 DEF Acknowledge
<1>9. CASE ConfirmFails(s, n)
    BY <1>9 DEF ConfirmFails
<1>10. CASE FinishConfirmation(s, n)
    <2>1. /\ UNCHANGED <<want, snapshot, prepare, watchdog, client>>
          /\ confirm[s][n] = "trap" /\ Confirming(s, n, "dead")
        BY <1>10 DEF FinishConfirmation
    <2>2. CASE dir[s].made
        <3>1. SetDir(s, [dir[s] EXCEPT !.abort = TRUE, !.lock = Free, !.pid = FALSE])
            BY <1>10, <2>2 DEF FinishConfirmation
        <3>2. /\ dir'[s].lock = Free /\ ~ dir'[s].pid /\ dir'[s].made /\ dir'[s].abort
              /\ dir'[s].expected = dir[s].expected /\ dir'[s].confirmed = dir[s].confirmed
              /\ dir'[s].status = dir[s].status
            BY <2>2, <3>1
        <3>3. /\ confirm'[s][n] = "dead" /\ \A m \in Tries \ {n} : confirm'[s][m] = confirm[s][m]
              /\ \A t \in Tokens \ {s} : confirm'[t] = confirm[t] /\ dir'[t] = dir[t]
            BY <2>1, <3>1
        <3>4. Waits(s)' <=> Waits(s)
            BY <2>1, <3>2
        <3>5. Confirms(s)'
            <4>1. Confirms(s) /\ confirm'[s][n] \notin Working \cup {"complete"}
                BY <3>3
            <4> HIDE DEF Local, Confirms, Relies, Waits
            <4> QED  BY <2>1, <3>2, <3>3, <4>1, OthersConfirm
        <3>6. prepare[s] = "done"
            BY <2>1
        <3>7. Launched(s)' /\ Prepared(s)'
            BY <2>1, <2>2, <3>2, <3>3, <3>6
        <3>8. Asked(s)' /\ Decides(s)'
            BY <2>1, <2>2, <3>2, <3>3, <3>4
        <3>9. Elsewhere(s) /\ Onward(s)
            BY <2>1, <2>2, <3>2, <3>3
        <3> QED  BY <3>5, <3>7, <3>8, <3>9
    <2>3. CASE ~ dir[s].made
        <3>1. SetDir(s, dir[s])
            BY <1>10, <2>3 DEF FinishConfirmation
        <3> QED  BY <2>1, <3>1
    <2> QED  BY <2>2, <2>3
<1> QED  BY <1>1, <1>2, <1>3, <1>4, <1>5, <1>6, <1>7, <1>8, <1>9, <1>10 DEF Confirm

\* The provider, once it has started.
LEMMA ProviderKept == ASSUME TypeOK, NEW s \in Tokens, Local(s), Provide(s) PROVE Kept(s)
<1> USE DEF TypeOK, Directories, Clients, Local, Launched, Prepared, Asked, Confirms, Decides, Waits,
    Relies, NoDir, Free, Reapable,
    Kept, Elsewhere, Onward, Beyond, host, Client, Confirming, Report
<1>1. CASE PrepareReturns(s)
    <2>1. PICK b \in BOOLEAN : /\ Client(s, [client[s] EXCEPT !.pc = "asking", !.prepared = b])
                               /\ b => prepare[s] = "done"
        BY <1>1 DEF PrepareReturns
    <2>2. client[s].pc = "preparing" /\ UNCHANGED <<want, snapshot, dir, prepare, watchdog, confirm>>
        BY <1>1 DEF PrepareReturns
    <2>3. Asked(s)'
        <3>1. client'[s].pc = "asking"
            BY <2>1
        <3>2. client'[s].tries = client[s].tries
            BY <2>1
        <3>3. client'[s].prepared => b
            BY <2>1
        <3> QED  BY <2>1, <2>2, <3>1, <3>2, <3>3
    <2>4. Elsewhere(s) /\ Onward(s) /\ Launched(s)' /\ Prepared(s)' /\ Confirms(s)' /\ Decides(s)'
        BY <2>1, <2>2
    <2> QED  BY <2>3, <2>4
<1>2. CASE Attempt(s)
    <2> DEFINE n == client[s].tries + 1
    <2>1. /\ client[s].pc = "asking" /\ client[s].prepared /\ prepare[s] = "done"
          /\ UNCHANGED <<want, snapshot, dir, prepare, watchdog>>
        BY <1>2 DEF Attempt
    <2>2. client[s].tries \in Nat /\ n \in Tries
        BY <1>2, NftablesAssumption DEF Attempt, Tries
    <2>3. /\ client'[s].pc = "confirming" /\ client'[s].tries = n /\ client'[s].prepared
          /\ \A t \in Tokens \ {s} : client'[t] = client[t]
        BY <1>2, <2>1 DEF Attempt
    <2>4. /\ confirm'[s][n] = "check" /\ \A m \in Tries \ {n} : confirm'[s][m] = confirm[s][m]
          /\ \A t \in Tokens \ {s} : confirm'[t] = confirm[t]
        BY <1>2, <2>2 DEF Attempt
    <2> HIDE DEF n
    <2>5. Asked(s)'
        <3>1. \A m \in Tries : n < m => client[s].tries < m /\ m # n
            BY <2>2 DEF n, Tries
        <3>2. n > 0
            BY <2>2 DEF n
        <3> QED  BY <2>1, <2>3, <2>4, <3>1, <3>2
    <2>6. Launched(s)' /\ Decides(s)' /\ Elsewhere(s) /\ Onward(s)
        BY <2>1, <2>3, <2>4
    <2>7. Prepared(s)'
        BY <2>1
    <2>8. Confirms(s)'
        <3>1. Confirms(s) /\ confirm'[s][n] \notin Working \cup {"complete"}
            BY <2>4
        <3> HIDE DEF Local, Confirms, Relies, Waits
        <3> QED  BY <2>1, <2>2, <2>4, <3>1, OthersConfirm
    <2> QED  BY <2>5, <2>6, <2>7, <2>8
<1>3. CASE ConfirmReturns(s)
    <2>1. CASE Report(s, "confirmed")
        BY <1>3, <2>1 DEF ConfirmReturns
    <2>2. CASE Client(s, [client[s] EXCEPT !.pc = "asking"])
        BY <1>3, <2>2 DEF ConfirmReturns
    <2> QED  BY <1>3, <2>1, <2>2 DEF ConfirmReturns
<1>4. CASE Ask(s)
    <2>1. PICK o : Report(s, o) /\ client[s].pc = "asking"
        BY <1>4 DEF Ask
    <2> QED  BY <1>4, <2>1 DEF Ask
<1>5. CASE GiveUp(s)
    BY <1>5 DEF GiveUp
<1> QED  BY <1>1, <1>2, <1>3, <1>4, <1>5 DEF Provide

-----------------------------------------------------------------------------
(* Steps, as seen by other transactions.                                   *)

LEMMA LocalElsewhere ==
    ASSUME NEW s \in Tokens, Elsewhere(s), NEW t \in Tokens, t # s, Local(t)
    PROVE  Local(t)'
<1>1. /\ dir'[t] = dir[t] /\ prepare'[t] = prepare[t] /\ watchdog'[t] = watchdog[t] /\ confirm'[t] = confirm[t]
      /\ client'[t] = client[t]
    BY DEF Elsewhere
<1> QED  BY <1>1 DEF Local, Launched, Prepared, Asked, Confirms, Decides, Waits, Relies, Reapable

\* A step that keeps what is said of its own transaction keeps the invariant.
LEMMA KeptAll == ASSUME ScriptsInv, NEW s \in Tokens, Kept(s) PROVE ScriptsInv'
<1>1. ASSUME NEW t \in Tokens PROVE Local(t)'
    BY <1>1, LocalElsewhere DEF Kept, ScriptsInv
<1>2. ASSUME NEW t \in Tokens PROVE /\ prepare'[t] \in {"idle", "scan"} => prepare'[t] = prepare[t]
                                    /\ prepare'[t] = "idle" <=> prepare[t] = "idle"
                                    /\ Beyond(t)' => Beyond(t)
                                    /\ dir'[t].made => dir[t].made
    <2>1. CASE t = s
        BY <2>1 DEF Kept, Onward
    <2>2. CASE t # s
        BY <2>2 DEF Kept, Elsewhere, Beyond
    <2> QED  BY <2>1, <2>2
<1>3. ASSUME NEW t \in Tokens, NEW u \in Tokens PROVE Follows(t, u)'
    <2>1. Follows(t, u)
        BY DEF ScriptsInv
    <2> HIDE DEF Beyond
    <2> QED  BY <1>2, <2>1 DEF Follows
<1> QED  BY <1>1, <1>3 DEF ScriptsInv

\* Whoever gets past its scan has found nothing that is not over.
LEMMA ScanKept == ASSUME TypeOK, ScriptsInv, NEW s \in Tokens, Scan(s) PROVE ScriptsInv'
<1>1. /\ \A t \in Tokens \ {s} : prepare'[t] = prepare[t]
      /\ prepare'[s] = "failed" \/ (prepare'[s] = "snapshot" /\ \A u \in Tokens : dir[u].made => Reapable(u))
      /\ prepare[s] = "scan" /\ UNCHANGED <<watchdog, confirm, client>>
    BY DEF TypeOK, Scan, Preparing
<1>2. CASE prepare'[s] = "failed"
    <2>1. UNCHANGED dir
        BY <1>2 DEF TypeOK, Scan, Preparing
    <2>2. Kept(s)
        BY <1>1, <1>2, <2>1 DEF ScriptsInv, Kept, Elsewhere, Onward, Beyond, Local, Launched, Prepared, Asked,
           Confirms,
           Decides, Waits, Relies, Reapable, Scan
    <2> QED  BY <2>2, KeptAll
<1>3. CASE prepare'[s] = "snapshot"
    <2>1. dir' = [u \in Tokens |-> IF u = s THEN NewDir ELSE NoDir]
        BY <1>3 DEF TypeOK, Scan, Preparing
    <2>2. /\ NewDir.made /\ NewDir.status = "none" /\ NewDir.lock = Free /\ ~ NewDir.pid
          /\ ~ NewDir.expected /\ ~ NewDir.abort /\ ~ NewDir.confirmed
        BY DEF NewDir, NoDir
    <2>3. Local(s)'
        BY <1>1, <1>3, <2>1, <2>2 DEF ScriptsInv, Local, Launched, Prepared, Asked, Confirms, Decides, Waits,
           Relies, Reapable
    <2>4. ASSUME NEW t \in Tokens, t # s PROVE Local(t)'
        <3>1. Local(t) /\ (dir[t].made => Reapable(t))
            BY <1>1, <1>3 DEF ScriptsInv
        <3>2. dir'[t] = NoDir /\ prepare'[t] = prepare[t]
            BY <1>1, <2>1, <2>4
        <3>3. /\ ~ NoDir.made /\ NoDir.status = "none" /\ NoDir.lock = Free /\ ~ NoDir.pid
              /\ ~ NoDir.expected /\ ~ NoDir.abort /\ ~ NoDir.confirmed
            BY DEF NoDir
        <3> QED  BY <1>1, <3>1, <3>2, <3>3 DEF Local, Launched, Prepared, Asked, Confirms, Decides, Waits,
            Relies, Reapable
    <2>5. ASSUME NEW t \in Tokens, NEW u \in Tokens PROVE Follows(t, u)'
        <3>1. ~ NoDir.made
            BY DEF NoDir
        <3>2. Follows(t, u) /\ Local(u)
            BY DEF ScriptsInv
        <3> QED  BY <1>1, <1>3, <2>1, <3>1, <3>2 DEF Follows, Beyond, Tokens, Local, Launched
    <2> QED  BY <2>3, <2>4, <2>5 DEF ScriptsInv
<1> QED  BY <1>1, <1>2, <1>3

\* A transaction starts when those before it have ended.
LEMMA StartKept == ASSUME TypeOK, ScriptsInv, NEW s \in Tokens, NEW v \in Rules, Start(s, v) PROVE ScriptsInv'
<1>1. /\ prepare'[s] = "scan" /\ prepare[s] = "idle"
      /\ client'[s].pc = "preparing" /\ client'[s].tries = client[s].tries
      /\ client'[s].prepared => client[s].prepared
      /\ UNCHANGED <<watchdog, confirm, dir>>
      /\ \A t \in Tokens \ {s} : prepare'[t] = prepare[t] /\ client'[t] = client[t]
    <2>1. client[s].pc = "idle" /\ prepare'[s] = "scan" /\ \A t \in Tokens \ {s} : prepare'[t] = prepare[t]
        BY DEF TypeOK, Start, Preparing
    <2>2. Client(s, [client[s] EXCEPT !.pc = "preparing"]) /\ UNCHANGED <<watchdog, confirm, dir>>
        BY DEF Start
    <2>3. /\ client'[s].pc = "preparing" /\ client'[s].tries = client[s].tries
          /\ client'[s].prepared => client[s].prepared
          /\ \A t \in Tokens \ {s} : client'[t] = client[t]
        BY <2>2 DEF TypeOK, Clients, Client
    <2> QED  BY <2>1, <2>2, <2>3 DEF ScriptsInv, Local, Asked
<1>2. ASSUME NEW t \in Tokens PROVE Local(t)'
    <2>1. Local(t)
        BY DEF ScriptsInv
    <2> QED  BY <1>1, <2>1 DEF Local, Launched, Prepared, Asked, Confirms, Decides, Waits, Relies, Reapable
<1>3. ASSUME NEW t \in Tokens, NEW u \in Tokens PROVE Follows(t, u)'
    <2>1. Follows(t, u) /\ Local(t)
        BY DEF ScriptsInv
    <2>2. u = s /\ t < s => prepare[t] \notin {"idle", "scan"}
        BY <2>1 DEF Start, Local, Asked
    <2> QED  BY <1>1, <2>1, <2>2 DEF Follows, Beyond, Tokens
<1> QED  BY <1>2, <1>3 DEF ScriptsInv

\* A reboot leaves no directory and no script.
LEMMA RebootKept == ASSUME TypeOK, ScriptsInv, Reboot PROVE ScriptsInv'
<1>1. ASSUME NEW t \in Tokens
      PROVE  /\ ~ dir'[t].made /\ dir'[t].status = "none" /\ dir'[t].lock = Free /\ ~ dir'[t].pid
             /\ ~ dir'[t].expected /\ ~ dir'[t].abort /\ ~ dir'[t].confirmed
    BY DEF Reboot, NoDir
<1>2. ASSUME NEW t \in Tokens
      PROVE  /\ prepare'[t] = IF prepare[t] \in {"idle", "done"} THEN prepare[t] ELSE "failed"
             /\ watchdog'[t] = IF watchdog[t] \in {"none", "done", "failed"} THEN watchdog[t] ELSE "dead"
             /\ client'[t] = client[t]
    BY DEF Reboot
<1>3. ASSUME NEW t \in Tokens, NEW n \in Tries
      PROVE  /\ confirm'[t][n] \in {"idle", "done", "dead"}
             /\ confirm[t][n] = "idle" => confirm'[t][n] = "idle"
    <2>1. confirm'[t][n] = IF Alive(t, n) THEN "dead" ELSE confirm[t][n]
        BY DEF Reboot
    <2> QED  BY <2>1 DEF Alive
<1>4. ASSUME NEW t \in Tokens PROVE Local(t)'
    <2>1. Local(t)
        BY DEF ScriptsInv
    <2>2. Launched(t)' /\ Prepared(t)' /\ Asked(t)'
        BY <1>1, <1>2, <1>3, <2>1 DEF Local, Launched, Prepared, Asked, Reapable
    <2>3. Confirms(t)' /\ Decides(t)'
        BY <1>1, <1>2, <1>3 DEF Confirms, Decides, Waits
    <2> QED  BY <2>2, <2>3 DEF Local
<1>5. ASSUME NEW t \in Tokens, NEW u \in Tokens PROVE Follows(t, u)'
    <2>1. Follows(t, u)
        BY DEF ScriptsInv
    <2> QED  BY <1>1, <1>2, <2>1 DEF Follows
<1> QED  BY <1>4, <1>5 DEF ScriptsInv

-----------------------------------------------------------------------------
(* The invariant, and what it says.                                        *)

LEMMA InitScripts == Init => ScriptsInv
<1> SUFFICES ASSUME Init PROVE ScriptsInv
    OBVIOUS
<1>1. /\ ~ NoDir.made /\ NoDir.status = "none" /\ NoDir.lock = Free /\ ~ NoDir.pid
      /\ ~ NoDir.expected /\ ~ NoDir.abort /\ ~ NoDir.confirmed /\ NoClient.pc = "idle" /\ ~ NoClient.prepared
    BY DEF NoDir, NoClient
<1>2. ASSUME NEW t \in Tokens
      PROVE  /\ dir[t] = NoDir /\ client[t] = NoClient /\ prepare[t] = "idle" /\ watchdog[t] = "none"
             /\ \A n \in Tries : confirm[t][n] = "idle"
    BY DEF Init
<1>3. ASSUME NEW t \in Tokens PROVE Local(t)
    BY <1>1, <1>2 DEF Local, Launched, Prepared, Asked, Confirms, Decides, Waits
<1>4. ASSUME NEW t \in Tokens, NEW u \in Tokens PROVE Follows(t, u)
    BY <1>1, <1>2 DEF Follows
<1> QED  BY <1>3, <1>4 DEF ScriptsInv

\* That the lock was taken twice is not forgotten.
LEMMA StaysShared == [Next]_vars /\ shared => shared'
<1> SUFFICES ASSUME [Next]_vars, shared PROVE shared'
    OBVIOUS
<1>1. ASSUME NEW t \in Tokens, Prepare(t) PROVE shared'
    BY <1>1 DEF Prepare, Scan, TakeSnapshot, RecordPending, Launch, AwaitReady, Build, Activate, Publish,
       PrepareFails, FinishPrepare
<1>2. ASSUME NEW t \in Tokens, Watch(t) PROVE shared'
    BY <1>2 DEF Watch, Load, SeeConfirmed, Expire, Lock, Taken, Seize, LockFails, BeginRollback, Restore,
       Complete, Settle, RollbackFails, RemoveFiles, RemoveDirectory
<1>3. ASSUME NEW t \in Tokens, NEW n \in Tries, Confirm(t, n) PROVE shared'
    BY <1>3 DEF Confirm, Check, Acquire, Taken, Claim, Verify, Persist, RecordConfirmed, Commit, Acknowledge,
       ConfirmFails, FinishConfirmation
<1>4. ASSUME NEW t \in Tokens, (\E v \in Rules : Start(t, v)) \/ Provide(t) PROVE shared'
    BY <1>4 DEF Start, Provide, PrepareReturns, Attempt, ConfirmReturns, Ask, GiveUp
<1>5. CASE Reboot
    BY <1>5 DEF Reboot
<1>6. CASE UNCHANGED vars
    BY <1>6 DEF vars
<1> QED  BY <1>1, <1>2, <1>3, <1>4, <1>5, <1>6 DEF Next, Provide

LEMMA NextScripts == TypeOK /\ ScriptsInv /\ [Next]_vars /\ ~ shared' => ScriptsInv'
<1> SUFFICES ASSUME TypeOK, ScriptsInv, [Next]_vars, ~ shared' PROVE ScriptsInv'
    OBVIOUS
<1>1. ASSUME NEW s \in Tokens PROVE Local(s)
    BY DEF ScriptsInv
<1>2. ASSUME NEW s \in Tokens, Prepare(s) PROVE ScriptsInv'
    BY <1>1, <1>2, ScanKept, PrepareKept, KeptAll
<1>3. ASSUME NEW s \in Tokens, Watch(s) PROVE ScriptsInv'
    BY <1>1, <1>3, WatchKept, KeptAll
<1>4. ASSUME NEW s \in Tokens, NEW n \in Tries, Confirm(s, n) PROVE ScriptsInv'
    BY <1>1, <1>4, ConfirmKept, KeptAll
<1>5. ASSUME NEW s \in Tokens, \E v \in Rules : Start(s, v) PROVE ScriptsInv'
    BY <1>5, StartKept
<1>6. ASSUME NEW s \in Tokens, Provide(s)
      PROVE  ScriptsInv'
    BY <1>1, <1>6, ProviderKept, KeptAll
<1>7. CASE Reboot
    BY <1>7, RebootKept
<1>8. CASE UNCHANGED vars
    BY <1>8 DEF vars, host, ScriptsInv, Local, Launched, Prepared, Asked, Confirms, Decides, Waits, Relies,
       Follows, Beyond, Reapable
<1> QED  BY <1>2, <1>3, <1>4, <1>5, <1>6, <1>7, <1>8 DEF Next, Provide

\* The prepare script, the watchdog and the confirm scripts of a transaction
\* find its directory as they need it, and earlier ones are out of the way,
\* until the action lock is taken twice.
THEOREM Scripting == Spec => [](~ shared => ScriptsInv)
<1>1. TypeOK /\ (~ shared => ScriptsInv) /\ [Next]_vars => (~ shared => ScriptsInv)'
    BY NextScripts, StaysShared
<1> QED  BY <1>1, InitScripts, Typing, PTL DEF Spec

\* A watchdog that restores has its directory, which blocks every later scan.
LEMMA ExclusiveNow == TypeOK /\ (~ shared => ScriptsInv) => Exclusive
<1> SUFFICES ASSUME ScriptsInv, NEW t \in Tokens, NEW u \in Tokens, t < u, Restoring(t)
             PROVE  prepare[u] \in {"idle", "scan", "failed"}
    BY DEF Exclusive
<1>1. Local(t) /\ Follows(t, u)
    BY DEF ScriptsInv
<1>2. dir[t].made
    BY <1>1 DEF Local, Decides, Restoring
<1> QED  BY <1>1, <1>2 DEF Follows, Beyond

\* A confirm script that writes has a directory and a watchdog that waits.
LEMMA SerializedNow == TypeOK /\ (~ shared => ScriptsInv) => SerializedOnce
<1> SUFFICES ASSUME ScriptsInv, NEW t \in Tokens, NEW u \in Tokens, NEW n \in Tries,
                    Restoring(t), Writing(u, n)
             PROVE  FALSE
    BY DEF Serialized, SerializedOnce
<1>1. Local(t) /\ Local(u) /\ Follows(t, u) /\ Follows(u, t)
    BY DEF ScriptsInv
<1>2. dir[t].made /\ watchdog[t] \in {"rules", "persistence", "marker", "arming"}
    BY <1>1 DEF Local, Decides, Restoring
<1>3. dir[u].expected /\ dir[u].made /\ watchdog[u] \in {"armed", "acquire"} /\ prepare[u] = "done"
    BY <1>1 DEF Writing, Local, Confirms, Relies, Waits, Prepared
<1>4. CASE t < u
    BY <1>1, <1>2, <1>3, <1>4 DEF Follows, Beyond
<1>5. CASE u < t
    BY <1>1, <1>2, <1>3, <1>5 DEF Follows, Beyond
<1>6. CASE t = u
    BY <1>2, <1>3, <1>6
<1> QED  BY <1>4, <1>5, <1>6 DEF Tokens

\* No rollback runs over a newer activation, however many transactions follow
\* each other and however often each asks to be confirmed, until the action lock
\* is taken twice (the scan of the prepare script, nftables.go:217-247).
THEOREM Exclusion == Spec => []Exclusive
BY Scripting, Typing, ExclusiveNow, PTL

\* The watchdogs and the confirm scripts of all transactions write one at a time
\* until the action lock of one of them is taken twice (nftables.go:428-468, 698):
\* its removal by a script that does not have it (626) is the only way to lose it.
THEOREM Serialization == Spec => []SerializedOnce
BY Scripting, Typing, SerializedNow, PTL

-----------------------------------------------------------------------------
(* What is recorded and reported: the inductive invariant.                 *)

\* What the host is like while and after a rollback.
RolledBack(t) ==
  /\ watchdog[t] \in {"persistence", "marker", "arming", "complete", "settle"} =>
       (reboots = 0 => rules = snapshot[t].rules)
  /\ watchdog[t] \in {"marker", "arming", "complete", "settle"} => persistence = snapshot[t].persistence
  /\ watchdog[t] \in {"arming", "complete", "settle"} => marker = snapshot[t].marker
  /\ watchdog[t] \in {"complete", "settle"} => armed = snapshot[t].armed
  /\ Recorded(t, "rollback_confirmed") \/ client[t].report = "rollback_confirmed" =>
       /\ Restored(t)
       /\ watchdog[t] \in {"remove", "rmdir", "done", "dead"} /\ prepare[t] \in {"done", "failing", "failed"}

\* What it is like while and after a confirmation.
Ended == {"remove", "rmdir", "done", "dead"}
CommittedTo(t) ==
  \/ \E n \in Tries : confirm[t][n] \in {"complete", "done"}
  \/ dir[t].confirmed \/ dir[t].status = "confirmed"
  \/ client[t].report = "confirmed"
Confirmed(t) ==
  /\ \A n \in Tries :
       /\ confirm[t][n] \in Past => rules = want[t]
       /\ confirm[t][n] \in {"marker", "arming", "record", "commit"} => persistence = want[t]
       /\ confirm[t][n] \in {"arming", "record", "commit"} => marker = want[t]
       /\ confirm[t][n] \in {"record", "commit"} => (want[t] # Absent => armed)
  /\ Recorded(t, "confirmed") =>
       /\ Installed(t) /\ prepare[t] = "done"
       /\ watchdog[t] \in {"armed", "acquire", "recheck"} \cup Ended
  /\ CommittedTo(t) =>
       /\ Installed(t) /\ prepare[t] = "done"
       /\ watchdog[t] \in Ended \/ (watchdog[t] \in {"armed", "acquire", "recheck"} /\ dir[t].confirmed)

\* The directory is there as long as the watchdog may need it.
Reached(t) == watchdog[t] \in {"armed", "acquire", "recheck"} \cup RollbackStages => dir[t].made

Hosted(t) == Reached(t) /\ RolledBack(t) /\ Confirmed(t)

\* The host is that of the latest transaction.
HostInv == \A t \in Tokens : Latest(t) => Hosted(t)

USE DEF Ended

-----------------------------------------------------------------------------
(* The steps of the latest transaction.                                    *)

\* The prepare script.
LEMMA PrepareHosted ==
    ASSUME TypeOK, NEW s \in Tokens, Local(s), Hosted(s), Prepare(s)
    PROVE  Hosted(s)'
<1> USE DEF TypeOK, Directories, Clients, Local, Launched, Prepared, Asked, Confirms, Decides, Waits,
    Relies, NoDir, Free, Watchdog, Reapable,
    Hosted, Reached, RolledBack, Confirmed, CommittedTo, Ended, Recorded, Restored, Installed,
    host, NewDir, Preparing, Record, SetDir, Started, Status, Watching
<1>1. CASE Scan(s)
    <2>1. prepare[s] = "scan" /\ UNCHANGED <<host, recovery, want, snapshot, watchdog, confirm, client, reboots>>
        BY <1>1 DEF Scan
    <2>2. UNCHANGED dir \/ dir' = [u \in Tokens |-> IF u = s THEN NewDir ELSE NoDir]
        BY <1>1 DEF Scan
    <2>3. ~ NewDir.confirmed /\ NewDir.status = "none"
        OBVIOUS
    <2>4. dir'[s] = dir[s] \/ dir'[s] = NewDir
        BY <2>2
    <2> HIDE DEF NewDir
    <2>5. (dir'[s].confirmed => dir[s].confirmed) /\ dir'[s].status \in {dir[s].status, "none"}
        BY <2>3, <2>4
    <2>6. Reached(s)' /\ RolledBack(s)' /\ Confirmed(s)'
        BY <1>1, <2>1, <2>5 DEF Scan
    <2> QED  BY <2>6
<1>2. CASE TakeSnapshot(s)
    BY <1>2 DEF TakeSnapshot
<1>3. CASE RecordPending(s)
    BY <1>3 DEF RecordPending
<1>4. CASE Launch(s)
    BY <1>4 DEF Launch
<1>5. CASE AwaitReady(s)
    BY <1>5 DEF AwaitReady
<1>6. CASE Build(s)
    BY <1>6 DEF Build
<1>7. CASE Activate(s)
    BY <1>7 DEF Activate
<1>8. CASE Publish(s)
    BY <1>8 DEF Publish
<1>9. CASE PrepareFails(s)
    BY <1>9 DEF PrepareFails
<1>10. CASE FinishPrepare(s)
    <2>1. CASE prepare[s] = "failing"
        <3>1. /\ SetDir(s, IF dir[s].made THEN [dir[s] EXCEPT !.abort = TRUE] ELSE dir[s])
              /\ UNCHANGED <<host, recovery, want, snapshot, watchdog, confirm, client, reboots>>
              /\ Preparing(s, "failed")
            BY <1>10, <2>1 DEF FinishPrepare
        <3> QED  BY <2>1, <3>1
    <2>2. CASE prepare[s] = "failing_unwatched"
        <3>1. /\ SetDir(s, NoDir) /\ Record(s, "activation_failed")
              /\ UNCHANGED <<host, want, snapshot, watchdog, confirm, client, reboots>>
              /\ Preparing(s, "failed")
            BY <1>10, <2>2 DEF FinishPrepare
        <3> QED  BY <2>2, <3>1
    <2>3. CASE prepare[s] = "failing_unrecorded"
        <3>1. /\ SetDir(s, NoDir)
              /\ UNCHANGED <<host, recovery, want, snapshot, watchdog, confirm, client, reboots>>
              /\ Preparing(s, "failed")
            BY <1>10, <2>3 DEF FinishPrepare
        <3> QED  BY <2>3, <3>1
    <2> QED  BY <1>10, <2>1, <2>2, <2>3 DEF FinishPrepare
<1> QED  BY <1>1, <1>2, <1>3, <1>4, <1>5, <1>6, <1>7, <1>8, <1>9, <1>10 DEF Prepare

\* The watchdog.
LEMMA WatchHosted ==
    ASSUME TypeOK, NEW s \in Tokens, Local(s), Hosted(s), Watch(s), ~ shared'
    PROVE  Hosted(s)'
<1> USE DEF TypeOK, Directories, Clients, Local, Launched, Prepared, Asked, Confirms, Decides, Waits,
    Relies, NoDir, Free, Watchdog, Reapable,
    Hosted, Reached, RolledBack, Confirmed, CommittedTo, Ended, Recorded, Restored, Installed,
    host, Alive, Holder, Record, RollingBack, Sees, SetDir, Status, Watching
<1>1. CASE Load(s)
    <2>1. CASE Watching(s, "armed") /\ UNCHANGED <<dir, recovery>>
        BY <1>1, <2>1 DEF Load
    <2>2. CASE Watching(s, "dead") /\ Status(s, "rollback_failed") /\ Record(s, "rollback_failed")
        <3>1. watchdog[s] = "loading" /\ UNCHANGED <<host, want, snapshot, prepare, confirm, client, reboots>>
            BY <1>1 DEF Load
        <3> QED  BY <2>2, <3>1
    <2> QED  BY <1>1, <2>1, <2>2 DEF Load
<1>2. CASE SeeConfirmed(s)
    BY <1>2 DEF SeeConfirmed
<1>3. CASE Expire(s)
    BY <1>3 DEF Expire
<1>4. CASE Lock(s)
    BY <1>4 DEF Lock
<1>5. CASE Seize(s)
    BY <1>5 DEF Seize
<1>6. CASE LockFails(s)
    BY <1>6 DEF LockFails
<1>7. CASE BeginRollback(s)
    BY <1>7 DEF BeginRollback
<1>8. CASE Restore(s)
    BY <1>8 DEF Restore
<1>9. CASE Complete(s)
    BY <1>9 DEF Complete
<1>10. CASE Settle(s)
    BY <1>10 DEF Settle
<1>11. CASE RollbackFails(s)
    BY <1>11 DEF RollbackFails
<1>12. CASE RemoveFiles(s)
    BY <1>12 DEF RemoveFiles
<1>13. CASE RemoveDirectory(s)
    BY <1>13 DEF RemoveDirectory
<1> QED  BY <1>1, <1>2, <1>3, <1>4, <1>5, <1>6, <1>7, <1>8, <1>9, <1>10, <1>11, <1>12, <1>13 DEF Watch

\* The confirm script.
LEMMA ConfirmHosted ==
    ASSUME TypeOK, NEW s \in Tokens, NEW n \in Tries, Local(s), Hosted(s), Confirm(s, n), ~ shared'
    PROVE  Hosted(s)'
<1> USE DEF TypeOK, Directories, Clients, Local, Launched, Prepared, Asked, Confirms, Decides, Waits,
    Relies, NoDir, Free, Watchdog, Reapable,
    Hosted, Reached, RolledBack, Confirmed, CommittedTo, Ended, Recorded, Restored, Installed,
    host, Alive, Confirming, Record, SetDir, Status
<1>1. CASE Check(s, n)
    BY <1>1 DEF Check
<1>2. CASE Acquire(s, n)
    <2>1. confirm[s][n] = "lock" /\ UNCHANGED <<host, recovery, want, snapshot, prepare, watchdog, client, reboots>>
        BY <1>2 DEF Acquire
    <2>2. CASE SetDir(s, [dir[s] EXCEPT !.lock = n, !.pid = FALSE]) /\ Confirming(s, n, "claim")
        BY <2>1, <2>2
    <2>3. CASE UNCHANGED dir /\ Confirming(s, n, "trap")
        BY <2>1, <2>3
    <2> QED  BY <1>2, <2>2, <2>3 DEF Acquire
<1>3. CASE Claim(s, n)
    <2>1. confirm[s][n] = "claim" /\ UNCHANGED <<host, recovery, want, snapshot, prepare, watchdog, client, reboots>>
        BY <1>3 DEF Claim
    <2>2. CASE SetDir(s, [dir[s] EXCEPT !.pid = TRUE, !.status = "confirming"]) /\ Confirming(s, n, "verify")
        BY <2>1, <2>2
    <2>3. CASE UNCHANGED dir /\ Confirming(s, n, "trap")
        BY <2>1, <2>3
    <2> QED  BY <1>3, <2>2, <2>3 DEF Claim
<1>4. CASE Verify(s, n)
    BY <1>4 DEF Verify
<1>5. CASE Persist(s, n)
    BY <1>5 DEF Persist
<1>6. CASE RecordConfirmed(s, n)
    BY <1>6 DEF RecordConfirmed
<1>7. CASE Commit(s, n)
    BY <1>7 DEF Commit
<1>8. CASE Acknowledge(s, n)
    BY <1>8 DEF Acknowledge
<1>9. CASE ConfirmFails(s, n)
    BY <1>9 DEF ConfirmFails
<1>10. CASE FinishConfirmation(s, n)
    BY <1>10 DEF FinishConfirmation
<1> QED  BY <1>1, <1>2, <1>3, <1>4, <1>5, <1>6, <1>7, <1>8, <1>9, <1>10 DEF Confirm

\* The provider, once it has started.
LEMMA ProviderHosted ==
    ASSUME TypeOK, NEW s \in Tokens, Local(s), Hosted(s), Provide(s)
    PROVE  Hosted(s)'
<1> USE DEF TypeOK, Directories, Clients, Local, Launched, Prepared, Asked, Confirms, Decides, Waits,
    Relies, NoDir, Free, Watchdog, Reapable,
    Hosted, Reached, RolledBack, Confirmed, CommittedTo, Ended, Recorded, Restored, Installed,
    host, Client, Confirming, Report
<1>1. CASE PrepareReturns(s)
    BY <1>1 DEF PrepareReturns
<1>2. CASE Attempt(s)
    BY <1>2 DEF Attempt
<1>3. CASE ConfirmReturns(s)
    <2>1. UNCHANGED <<host, recovery, want, snapshot, dir, prepare, watchdog, confirm, reboots>>
        BY <1>3 DEF ConfirmReturns
    <2>2. client[s].tries \in Tries
        <3>1. client[s].pc = "confirming"
            BY <1>3 DEF ConfirmReturns
        <3>2. client[s].tries > 0 /\ client[s].tries \in 0 .. Attempts
            BY <3>1
        <3> QED  BY <3>2, NftablesAssumption DEF Tries
    <2>3. CASE confirm[s][client[s].tries] = "done" /\ Report(s, "confirmed")
        <3>1. CommittedTo(s)
            BY <2>2, <2>3
        <3>2. client'[s].report = "confirmed" /\ Installed(s) /\ prepare[s] = "done"
            BY <2>3, <3>1
        <3> QED  BY <2>1, <3>1, <3>2
    <2>4. CASE Client(s, [client[s] EXCEPT !.pc = "asking"])
        BY <2>1, <2>4
    <2> QED  BY <1>3, <2>3, <2>4 DEF ConfirmReturns
<1>4. CASE Ask(s)
    <2>1. UNCHANGED <<host, recovery, want, snapshot, dir, prepare, watchdog, confirm, reboots>>
        BY <1>4 DEF Ask
    <2>2. PICK o \in Final : /\ Report(s, o)
                             /\ o = "confirmed" => CommittedTo(s) \/ (Recorded(s, o) /\ ~ dir[s].made)
                             /\ o = "rollback_confirmed" => Recorded(s, o)
        BY <1>4 DEF Ask, Outcome
    <2> QED  BY <2>1, <2>2
<1>5. CASE GiveUp(s)
    BY <1>5 DEF GiveUp
<1> QED  BY <1>1, <1>2, <1>3, <1>4, <1>5 DEF Provide

-----------------------------------------------------------------------------
(* The steps of other transactions.                                        *)

\* A transaction whose directory is gone writes nothing, and records only
\* its own outcome.
Contained(s) ==
  /\ recovery' = recovery \/ recovery'.token = s
  /\ ~ dir[s].made => UNCHANGED <<rules, persistence, marker, armed>>
  /\ UNCHANGED reboots /\ prepare[s] # "idle"

LEMMA StepContained ==
    ASSUME TypeOK, NEW s \in Tokens, Local(s)
    PROVE  /\ Prepare(s) \/ Watch(s) \/ Provide(s) => Contained(s)
           /\ \A n \in Tries : Confirm(s, n) => Contained(s)
<1> USE DEF Local, Launched, Prepared, Asked, Decides, Contained, host, Record
<1>1. ASSUME Prepare(s) PROVE Contained(s)
    <2>1. CASE Activate(s)
        BY <2>1 DEF Activate
    <2> QED  BY <1>1, <2>1 DEF Prepare, Scan, TakeSnapshot, RecordPending, Launch, AwaitReady, Build, Publish,
        PrepareFails,
       FinishPrepare
<1>2. ASSUME Watch(s) PROVE Contained(s)
    <2>1. CASE Restore(s)
        BY <2>1 DEF Restore
    <2> QED  BY <1>2, <2>1 DEF Watch, Load, SeeConfirmed, Sees, Expire, Lock, Seize, LockFails, BeginRollback,
        Complete,
                Settle, RollbackFails, RollingBack, RemoveFiles, RemoveDirectory
<1>3. ASSUME NEW n \in Tries, Confirm(s, n) PROVE Contained(s)
    <2>1. confirm[s][n] # "idle"
        BY <1>3 DEF Confirm, Check, Acquire, Claim, Verify, Persist, RecordConfirmed, Commit, Acknowledge,
           ConfirmFails, Alive, FinishConfirmation
    <2>2. prepare[s] = "done"
        BY <2>1
    <2>3. CASE Persist(s, n)
        <3>1. dir[s].made
            BY <2>3 DEF Persist, Confirms, Relies, Waits
        <3> QED  BY <2>2, <2>3, <3>1 DEF Persist
    <2> QED  BY <1>3, <2>2, <2>3 DEF Confirm, Check, Acquire, Claim, Verify, RecordConfirmed, Commit, Acknowledge,
        ConfirmFails,
                Alive, FinishConfirmation
<1>4. ASSUME Provide(s) PROVE Contained(s)
    <2>0. CASE PrepareReturns(s)
        BY <2>0 DEF PrepareReturns
    <2>1. CASE Ask(s)
        BY <2>1 DEF Ask
    <2>2. CASE Attempt(s)
        BY <2>2 DEF Attempt
    <2>3. CASE ConfirmReturns(s) \/ GiveUp(s)
        BY <2>3 DEF ConfirmReturns, GiveUp
    <2> QED  BY <1>4, <2>0, <2>1, <2>2, <2>3 DEF Provide
<1> QED  BY <1>1, <1>2, <1>3, <1>4

\* The latest transaction keeps what it has left while those before it end.
LEMMA ElsewhereHosted ==
    ASSUME TypeOK, ScriptsInv, NEW s \in Tokens, Elsewhere(s), Contained(s),
           NEW t \in Tokens, t # s, Latest(t), Hosted(t)
    PROVE  Hosted(t)'
<1>1. /\ dir'[t] = dir[t] /\ prepare'[t] = prepare[t] /\ watchdog'[t] = watchdog[t] /\ confirm'[t] = confirm[t]
      /\ client'[t] = client[t] /\ want'[t] = want[t] /\ snapshot'[t] = snapshot[t]
    BY DEF Elsewhere
<1>2. s < t
    BY DEF Tokens, Latest, Contained
<1>3. Local(t) /\ Follows(s, t)
    BY DEF ScriptsInv
<1>4. \A o : Recorded(t, o)' => Recorded(t, o)
    <2>1. recovery' = recovery \/ recovery'.token # t
        BY DEF Contained
    <2> QED  BY <2>1 DEF Recorded
<1>5. Reached(t)'
    BY <1>1 DEF Hosted, Reached
<1>6. CASE Beyond(t)
    <2>1. UNCHANGED <<rules, persistence, marker, armed, reboots>>
        BY <1>2, <1>3, <1>6 DEF Follows, Contained
    <2>2. RolledBack(t)'
        BY <1>1, <1>4, <2>1 DEF Hosted, RolledBack, Restored
    <2>3. Confirmed(t)'
        BY <1>1, <1>4, <2>1 DEF Hosted, Confirmed, CommittedTo, Installed
    <2> QED  BY <1>5, <2>2, <2>3 DEF Hosted
<1>7. CASE ~ Beyond(t)
    <2>1. watchdog[t] = "none" /\ prepare[t] \in {"idle", "scan", "failed"} /\ \A n \in Tries : confirm[t][n] = "idle"
        BY <1>3, <1>7 DEF Beyond, Local, Prepared
    <2>2. ~ Recorded(t, "rollback_confirmed") /\ client[t].report # "rollback_confirmed"
        BY <2>1 DEF Hosted, RolledBack
    <2>3. ~ Recorded(t, "confirmed") /\ ~ CommittedTo(t)
        BY <2>1 DEF Hosted, Confirmed
    <2>4. RolledBack(t)'
        BY <1>1, <1>4, <2>1, <2>2 DEF RolledBack
    <2>5. ~ CommittedTo(t)'
        BY <1>1, <2>3 DEF CommittedTo
    <2>6. Confirmed(t)'
        BY <1>1, <1>4, <2>1, <2>3, <2>5 DEF Confirmed
    <2> QED  BY <1>5, <2>4, <2>6 DEF Hosted
<1> QED  BY <1>6, <1>7

\* A scan goes on only where no other transaction is, and a later one has
\* not started.
LEMMA ScanElsewhere ==
    ASSUME TypeOK, ScriptsInv, NEW s \in Tokens, Scan(s), NEW t \in Tokens, t # s, Latest(t), Hosted(t)
    PROVE  Hosted(t)'
<1>1. prepare[s] = "scan" /\ UNCHANGED <<host, recovery, want, snapshot, watchdog, confirm, client, reboots>>
    BY DEF Scan
<1>2. s < t /\ Local(t) /\ Follows(s, t) /\ prepare'[t] = prepare[t]
    <2>1. s < t
        BY <1>1 DEF Latest, Tokens
    <2>2. prepare'[t] = prepare[t]
        BY DEF TypeOK, Scan, Preparing
    <2> QED  BY <2>1, <2>2 DEF ScriptsInv
<1>3. prepare[t] = "idle"
    BY <1>1, <1>2 DEF Follows
<1>4. /\ watchdog[t] = "none" /\ ~ dir[t].confirmed /\ dir[t].status # "confirmed"
      /\ \A n \in Tries : confirm[t][n] = "idle"
    BY <1>2, <1>3 DEF Local, Launched, Prepared
<1>5. ~ dir'[t].confirmed /\ dir'[t].status # "confirmed"
    <2>1. dir'[t] = dir[t] \/ dir'[t] = NoDir
        BY DEF Scan
    <2>2. ~ NoDir.confirmed /\ NoDir.status = "none"
        BY DEF NoDir
    <2> QED  BY <1>4, <2>1, <2>2
<1>6. Reached(t)' /\ RolledBack(t)'
    BY <1>1, <1>2, <1>3, <1>4 DEF Hosted, Reached, RolledBack, Recorded, Restored, host
<1>7. Confirmed(t)'
    BY <1>1, <1>3, <1>4, <1>5 DEF Hosted, Confirmed, CommittedTo, Recorded, Installed, host
<1> QED  BY <1>6, <1>7 DEF Hosted

\* A transaction that starts has left nothing yet.
LEMMA StartHosted ==
    ASSUME TypeOK, ScriptsInv, NEW s \in Tokens, NEW v \in Rules, Start(s, v),
           NEW t \in Tokens, Latest(t)', Hosted(t)
    PROVE  Hosted(t)'
<1>1. prepare'[s] = "scan" /\ UNCHANGED <<host, recovery, snapshot, dir, watchdog, confirm, reboots>>
    BY DEF TypeOK, Start, Preparing
<1>2. ~ s > t
    BY <1>1 DEF Latest
<1>3. CASE t = s
    <2>1. client[t].pc = "idle" /\ Local(t)
        BY <1>3 DEF Start, ScriptsInv
    <2>2. watchdog[t] = "none" /\ prepare[t] = "idle" /\ \A n \in Tries : confirm[t][n] = "idle"
        BY <2>1 DEF Local, Asked, Launched, Prepared
    <2>3. client'[t].report = client[t].report
        BY <1>3 DEF TypeOK, Clients, Start, Client
    <2>4. Reached(t)' /\ RolledBack(t)'
        BY <1>1, <2>2, <2>3 DEF Hosted, Reached, RolledBack, Recorded, Restored, host
    <2>5. ~ Recorded(t, "confirmed") /\ ~ CommittedTo(t)
        BY <2>2 DEF Hosted, Confirmed
    <2>6. ~ Recorded(t, "confirmed")' /\ ~ CommittedTo(t)' /\ \A n \in Tries : confirm'[t][n] = "idle"
        BY <1>1, <2>2, <2>3, <2>5 DEF Recorded, CommittedTo
    <2>7. Confirmed(t)'
        BY <2>6 DEF Confirmed
    <2> QED  BY <2>4, <2>7 DEF Hosted
<1>4. CASE t # s
    <2>1. want'[t] = want[t] /\ client'[t] = client[t] /\ prepare'[t] = prepare[t]
        BY <1>4 DEF TypeOK, Start, Client, Preparing
    <2> QED  BY <1>1, <2>1 DEF Hosted, Reached, RolledBack, Confirmed, CommittedTo, Recorded, Restored,
        Installed, host
<1> QED  BY <1>3, <1>4

\* What is loaded at boot is what is persisted.
LEMMA RebootHosted ==
    ASSUME TypeOK, ScriptsInv, Reboot, NEW t \in Tokens, Hosted(t)
    PROVE  Hosted(t)'
<1>1. /\ watchdog'[t] = IF watchdog[t] \in {"none", "done", "failed"} THEN watchdog[t] ELSE "dead"
      /\ prepare'[t] = IF prepare[t] \in {"idle", "done"} THEN prepare[t] ELSE "failed"
      /\ rules' = IF armed THEN persistence ELSE Absent
      /\ reboots' # 0
      /\ UNCHANGED <<persistence, marker, armed, recovery, want, snapshot, client>>
    BY NftablesAssumption DEF TypeOK, Reboot
<1>3. ASSUME NEW n \in Tries
      PROVE  confirm'[t][n] \in {"idle", "done", "dead"} /\ (confirm'[t][n] = "done" => confirm[t][n] = "done")
    BY DEF TypeOK, Reboot, Alive
<1>4. ~ dir'[t].confirmed /\ dir'[t].status = "none"
    BY DEF Reboot, NoDir
<1>5. Installed(t) => Installed(t)'
    BY <1>1 DEF Installed
<1>6. Reached(t)' /\ RolledBack(t)'
    BY <1>1 DEF Hosted, Reached, RolledBack, Recorded, Restored
<1>7. Recorded(t, "confirmed")' => Recorded(t, "confirmed")
    BY <1>1 DEF Recorded
<1>8. CommittedTo(t)' => CommittedTo(t)
    BY <1>1, <1>3, <1>4 DEF CommittedTo
<1>9. Confirmed(t)'
    BY <1>1, <1>3, <1>4, <1>5, <1>7, <1>8 DEF Hosted, Confirmed
<1> QED  BY <1>6, <1>9 DEF Hosted

-----------------------------------------------------------------------------
(* The invariant, and what it says.                                        *)

LEMMA InitHosts == Init => HostInv
<1> SUFFICES ASSUME Init, NEW t \in Tokens PROVE Hosted(t)
    BY DEF HostInv
<1>1. /\ watchdog[t] = "none" /\ dir[t] = NoDir /\ client[t] = NoClient
      /\ \A n \in Tries : confirm[t][n] = "idle"
    BY DEF Init
<1>2. ~ NoDir.confirmed /\ NoDir.status = "none" /\ NoClient.report = "none"
    BY DEF NoDir, NoClient
<1>3. \A o : ~ Recorded(t, o)
    BY DEF Init, Recorded, Tokens
<1> QED  BY <1>1, <1>2, <1>3 DEF Hosted, Reached, RolledBack, Confirmed, CommittedTo

\* Nothing that has started goes back to where it has not.
LEMMA StillLatest ==
    ASSUME TypeOK, ScriptsInv, [Next]_vars, ~ shared', NEW t \in Tokens, Latest(t)'
    PROVE  Latest(t)
<1>1. ASSUME NEW u \in Tokens, prepare'[u] = "idle" PROVE prepare[u] = "idle"
    <2>1. ASSUME NEW s \in Tokens, Scan(s) PROVE prepare[u] = "idle"
        BY <1>1, <2>1 DEF TypeOK, Scan, Preparing
    <2>2. ASSUME NEW s \in Tokens, Kept(s) PROVE prepare[u] = "idle"
        BY <1>1, <2>2 DEF Kept, Elsewhere, Onward
    <2>3. ASSUME NEW s \in Tokens, NEW v \in Rules, Start(s, v) PROVE prepare[u] = "idle"
        BY <1>1, <2>3 DEF TypeOK, Start, Preparing
    <2>4. CASE Reboot
        BY <1>1, <2>4 DEF Reboot
    <2>5. CASE UNCHANGED vars
        BY <1>1, <2>5 DEF vars
    <2>6. ASSUME NEW s \in Tokens, NEW n \in Tries, Confirm(s, n) PROVE Kept(s)
        BY <2>6, ConfirmKept DEF ScriptsInv
    <2> QED  BY <2>1, <2>2, <2>3, <2>4, <2>5, <2>6, PrepareKept, WatchKept, ProviderKept DEF Next, Provide,
        ScriptsInv
<1> QED  BY <1>1 DEF Latest

LEMMA NextHosts == TypeOK /\ ScriptsInv /\ HostInv /\ [Next]_vars /\ ~ shared' => HostInv'
<1> SUFFICES ASSUME TypeOK, ScriptsInv, HostInv, [Next]_vars, ~ shared', NEW t \in Tokens, Latest(t)'
             PROVE  Hosted(t)'
    BY DEF HostInv
<1>1. Latest(t) /\ Hosted(t)
    BY StillLatest DEF HostInv
<1>2. ASSUME NEW s \in Tokens PROVE Local(s)
    BY DEF ScriptsInv
<1>3. ASSUME NEW s \in Tokens, Prepare(s) PROVE Hosted(t)'
    BY <1>1, <1>2, <1>3, PrepareHosted, ScanElsewhere, PrepareKept, StepContained, ElsewhereHosted DEF Kept
<1>4. ASSUME NEW s \in Tokens, Watch(s) PROVE Hosted(t)'
    BY <1>1, <1>2, <1>4, WatchHosted, WatchKept, StepContained, ElsewhereHosted DEF Kept
<1>5. ASSUME NEW s \in Tokens, NEW n \in Tries, Confirm(s, n) PROVE Hosted(t)'
    BY <1>1, <1>2, <1>5, ConfirmHosted, ConfirmKept, StepContained, ElsewhereHosted DEF Kept
<1>6. ASSUME NEW s \in Tokens, NEW v \in Rules, Start(s, v) PROVE Hosted(t)'
    BY <1>1, <1>6, StartHosted
<1>7. ASSUME NEW s \in Tokens, Provide(s) PROVE Hosted(t)'
    BY <1>1, <1>2, <1>7, ProviderHosted, ProviderKept, StepContained, ElsewhereHosted DEF Kept
<1>8. CASE Reboot
    BY <1>1, <1>8, RebootHosted
<1>9. CASE UNCHANGED vars
    BY <1>1, <1>9 DEF vars, host, Hosted, Reached, RolledBack, Confirmed, CommittedTo, Recorded, Restored,
       Installed
<1> QED  BY <1>3, <1>4, <1>5, <1>6, <1>7, <1>8, <1>9 DEF Next, Provide

\* What the latest transaction has left on the host, recorded and reported
\* is kept by every step of every script.
THEOREM Hosting == Spec => [](~ shared => HostInv)
<1>1. TypeOK /\ (~ shared => ScriptsInv) /\ (~ shared => HostInv) /\ [Next]_vars => (~ shared => HostInv)'
    BY NextHosts, StaysShared
<1> QED  BY <1>1, InitHosts, Scripting, Typing, PTL DEF Spec

\* A recorded rollback has put the host back as the transaction found it
\* (nftables.go:500-541).
THEOREM RolledBackForGood == Spec => []RollbackRestores
<1>1. (~ shared => HostInv) => RollbackRestores
    BY DEF HostInv, Hosted, RolledBack, RollbackRestores
<1> QED  BY <1>1, Hosting, PTL

\* A recorded confirmation holds in the live table, in its file and in both
\* markers, also after a reboot (nftables.go:755-758).
THEOREM ConfirmedForGood == Spec => []ConfirmedHolds
<1>1. (~ shared => HostInv) => ConfirmedHolds
    BY DEF HostInv, Hosted, Confirmed, ConfirmedHolds
<1> QED  BY <1>1, Hosting, PTL

\* What the provider has reported stays true until the next transaction
\* (confirmOrRecoverNftablesTransaction, nftables.go:1147-1158).
THEOREM ReportedForGood == Spec => []ReportHolds
<1>1. (~ shared => HostInv) => ReportHolds
    BY DEF HostInv, Hosted, RolledBack, Confirmed, CommittedTo, ReportHolds
<1> QED  BY <1>1, Hosting, PTL
=============================================================================
