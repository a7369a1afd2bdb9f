------------------------ MODULE NftablesTransaction ------------------------
(***************************************************************************)
(* The activation of one nftables table (internal/core/provider/           *)
(* nftables.go): the client runs a prepare script that takes snapshots,    *)
(* starts a detached watchdog and activates the new rules; then confirm    *)
(* scripts over fresh connections make the change permanent; the watchdog  *)
(* restores the snapshots unless that happens in time.  Asking for the     *)
(* outcome reads what the scripts leave behind.                            *)
(*                                                                         *)
(* A step is a command, or a few commands of which only one is visible to  *)
(* the other scripts.  There is no clock: the watchdog's countdown may end *)
(* at any time after the prepare script has, and Faults says what else may *)
(* happen.  One table, whose applies follow each other.                    *)
(***************************************************************************)
EXTENDS Naturals

CONSTANTS Transactions,  \* how many of them run, one after the other
          Attempts,      \* bound: the confirm scripts of each; the code has none but its deadline
          Versions,      \* rule sets of the table
          Faults,        \* what can go wrong beside failing commands
          MaxReboots     \* bound

FaultKinds == {"lost",     \* a connection breaks and its script goes on
               "failing"}  \* a command of the watchdog fails

ASSUME NftablesAssumption ==
  /\ Transactions \in Nat /\ Attempts \in Nat /\ MaxReboots \in Nat
  /\ Faults \subseteq FaultKinds
  /\ "absent" \notin Versions

Tokens == 1 .. Transactions
Tries  == 1 .. Attempts
Absent == "absent"
Rules  == Versions \cup {Absent}
Free     == 0              \* the action lock: nobody's, a confirm script's
Watchdog == Attempts + 1   \* number or the watchdog's

VARIABLES rules,        \* the live table
          persistence,  \* the file that is loaded at boot
          marker,       \* what was confirmed last
          armed,        \* whether anything is loaded at boot
          recovery,     \* the last record: a token and an outcome
          want,         \* what each transaction activates
          snapshot,     \* the host as each transaction found it
          dir,          \* the transaction directories
          prepare,      \* where each prepare script is
          watchdog,     \* where each watchdog is
          confirm,      \* where each confirm script is
          client,       \* what the provider is doing for each transaction
          reboots,
          shared        \* history: whether the action lock was ever taken while
                        \* somebody was at work under it, or after the decision

host == <<rules, persistence, marker, armed>>
vars == <<host, recovery, want, snapshot, dir, prepare, watchdog, confirm, client, reboots, shared>>

NoDir  == [made |-> FALSE, status |-> "none", expected |-> FALSE, abort |-> FALSE,
           confirmed |-> FALSE, lock |-> Free, pid |-> FALSE]
NewDir == [NoDir EXCEPT !.made = TRUE]
NoSnapshot == [rules |-> Absent, persistence |-> Absent, marker |-> Absent, armed |-> FALSE]
NoClient == [pc |-> "idle", prepared |-> FALSE, tries |-> 0, report |-> "none"]

\* A managed table that was confirmed before, or none; the live table may have
\* drifted or may belong to somebody else.
Init ==
  /\ rules \in Rules
  /\ persistence \in Rules
  /\ marker = persistence
  /\ armed \in BOOLEAN
  /\ persistence # Absent => armed
  /\ recovery = [token |-> 0, outcome |-> "none"]
  /\ want = [t \in Tokens |-> Absent]
  /\ snapshot = [t \in Tokens |-> NoSnapshot]
  /\ dir = [t \in Tokens |-> NoDir]
  /\ prepare = [t \in Tokens |-> "idle"]
  /\ watchdog = [t \in Tokens |-> "none"]
  /\ confirm = [t \in Tokens |-> [n \in Tries |-> "idle"]]
  /\ client = [t \in Tokens |-> NoClient]
  /\ reboots = 0
  /\ shared = FALSE

-----------------------------------------------------------------------------
(* Small steps that the scripts share.                                     *)

Preparing(t, pc)     == prepare' = [prepare EXCEPT ![t] = pc]
Watching(t, pc)      == watchdog' = [watchdog EXCEPT ![t] = pc]
Confirming(t, n, pc) == confirm' = [confirm EXCEPT ![t][n] = pc]
Record(t, outcome)   == recovery' = [token |-> t, outcome |-> outcome]
SetDir(t, d)         == dir' = [dir EXCEPT ![t] = d]

\* Writing a file below the transaction directory needs the directory.
Status(t, s) == SetDir(t, IF dir[t].made THEN [dir[t] EXCEPT !.status = s] ELSE dir[t])

\* The action lock is made by mkdir.  finish_confirmation removes it whoever has
\* it, so that it can be taken a second time: while a confirm script relies on it,
\* or by a confirm script when the transaction is decided.
AtWork(t)   == \E n \in Tries : confirm[t][n] \in
                 {"claim", "verify", "persistence", "marker", "arming", "record", "commit"}
Decided(t)  == dir[t].confirmed \/ watchdog[t] \notin {"armed", "acquire"}
Taken(again) == shared' = (shared \/ again)

-----------------------------------------------------------------------------
(* The prepare script.                                                     *)

\* Mutant: only a failed rollback blocks the next transaction.
ReapableUnlessFailed(u) == dir[u].status # "rollback_failed"

Reapable(u) == dir[u].status \in {"confirmed", "rollback_complete"}

\* Directories of transactions that are over are removed, any other one
\* refuses the activation.
Scan(t) ==
  /\ prepare[t] = "scan"
  /\ \/ /\ \A u \in Tokens : dir[u].made => Reapable(u)
        /\ dir' = [u \in Tokens |-> IF u = t THEN NewDir ELSE NoDir]
        /\ Preparing(t, "snapshot")
     \/ /\ \E u \in Tokens : dir[u].made /\ ~ Reapable(u)
        /\ Preparing(t, "failed")
        /\ UNCHANGED dir
  /\ UNCHANGED <<host, recovery, want, snapshot, watchdog, confirm, client, reboots, shared>>

TakeSnapshot(t) ==
  /\ prepare[t] = "snapshot"
  /\ snapshot' = [snapshot EXCEPT ![t] = [rules |-> rules, persistence |-> persistence,
                                          marker |-> marker, armed |-> armed]]
  /\ Status(t, "preparing")
  /\ Preparing(t, "record")
  /\ UNCHANGED <<host, recovery, want, watchdog, confirm, client, reboots, shared>>

RecordPending(t) ==
  /\ prepare[t] = "record"
  /\ Record(t, "pending")
  /\ Preparing(t, "launch")
  /\ UNCHANGED <<host, want, snapshot, dir, watchdog, confirm, client, reboots, shared>>

Launch(t) ==
  /\ prepare[t] = "launch"
  /\ Watching(t, "loading")
  /\ Preparing(t, "await")
  /\ UNCHANGED <<host, recovery, want, snapshot, dir, confirm, client, reboots, shared>>

Started(t) == watchdog[t] \notin {"none", "loading", "dead"}

AwaitReady(t) ==
  /\ prepare[t] = "await"
  /\ Started(t)
  /\ Preparing(t, "build")
  /\ UNCHANGED <<host, recovery, want, snapshot, dir, watchdog, confirm, client, reboots, shared>>

\* The activation file is written into the directory; nft reads it from there.
Build(t) ==
  /\ prepare[t] = "build"
  /\ Preparing(t, IF dir[t].made THEN "activate" ELSE "failing")
  /\ UNCHANGED <<host, recovery, want, snapshot, dir, watchdog, confirm, client, reboots, shared>>

Activate(t) ==
  /\ prepare[t] = "activate"
  /\ rules' = want[t]
  /\ Preparing(t, "publish")
  /\ UNCHANGED <<persistence, marker, armed, recovery, want, snapshot, dir, watchdog,
                 confirm, client, reboots, shared>>

Publish(t) ==
  /\ prepare[t] = "publish"
  /\ SetDir(t, IF dir[t].made
               THEN [dir[t] EXCEPT !.status = "awaiting_confirmation", !.expected = TRUE]
               ELSE dir[t])
  /\ Preparing(t, IF dir[t].made THEN "done" ELSE "failing")
  /\ UNCHANGED <<host, recovery, want, snapshot, watchdog, confirm, client, reboots, shared>>

\* Any command may fail; the wait ends when the watchdog has died.
PrepareFails(t) ==
  /\ prepare[t] \in {"snapshot", "record", "launch", "await", "build", "activate", "publish"}
  /\ prepare[t] = "await" => watchdog[t] = "dead"
  /\ Preparing(t, IF prepare[t] = "snapshot" THEN "failing_unrecorded"
                  ELSE IF prepare[t] \in {"record", "launch", "await"} THEN "failing_unwatched"
                  ELSE "failing")
  /\ UNCHANGED <<host, recovery, want, snapshot, dir, watchdog, confirm, client, reboots, shared>>

\* finish_prepare: with a watchdog it asks for the rollback, without one it
\* removes the directory and records that nothing was activated.
FinishPrepare(t) ==
  /\ \/ /\ prepare[t] = "failing"
        /\ SetDir(t, IF dir[t].made THEN [dir[t] EXCEPT !.abort = TRUE] ELSE dir[t])
        /\ UNCHANGED recovery
     \/ /\ prepare[t] = "failing_unwatched"
        /\ SetDir(t, NoDir)
        /\ Record(t, "activation_failed")
     \/ /\ prepare[t] = "failing_unrecorded"
        /\ SetDir(t, NoDir)
        /\ UNCHANGED recovery
  /\ Preparing(t, "failed")
  /\ UNCHANGED <<host, want, snapshot, watchdog, confirm, client, reboots, shared>>

Prepare(t) ==
  \/ Scan(t) \/ TakeSnapshot(t) \/ RecordPending(t) \/ Launch(t) \/ AwaitReady(t)
  \/ Build(t) \/ Activate(t) \/ Publish(t) \/ PrepareFails(t) \/ FinishPrepare(t)

-----------------------------------------------------------------------------
(* The watchdog.                                                           *)

\* It reads its parameters and writes its process id before it is ready.
Load(t) ==
  /\ watchdog[t] = "loading"
  /\ \/ Watching(t, "armed") /\ UNCHANGED <<dir, recovery>>
     \/ /\ "failing" \in Faults
        /\ Watching(t, "dead")
        /\ Status(t, "rollback_failed")
        /\ Record(t, "rollback_failed")
  /\ UNCHANGED <<host, want, snapshot, prepare, confirm, client, reboots, shared>>

\* Mutant: the confirmation is looked for during the countdown only.
SeesWhileWaiting(t) == watchdog[t] = "armed" /\ dir[t].confirmed

Sees(t) ==
  /\ watchdog[t] \in {"armed", "acquire", "recheck"}
  /\ dir[t].confirmed

SeeConfirmed(t) ==
  /\ Sees(t)
  /\ Watching(t, "remove")
  /\ Status(t, "confirmed")
  /\ UNCHANGED <<host, recovery, want, snapshot, prepare, confirm, client, reboots, shared>>

\* The countdown of ten seconds or more is longer than an activation takes.
Expire(t) ==
  /\ watchdog[t] = "armed"
  /\ dir[t].abort \/ prepare[t] \in {"done", "failing", "failed"}
  /\ ~ dir[t].confirmed
  /\ Watching(t, "acquire")
  /\ UNCHANGED <<host, recovery, want, snapshot, dir, prepare, confirm, client, reboots, shared>>

Lock(t) ==
  /\ watchdog[t] = "acquire"
  /\ dir[t].made
  /\ dir[t].lock = Free
  /\ SetDir(t, [dir[t] EXCEPT !.lock = Watchdog, !.pid = FALSE])
  /\ Watching(t, "recheck")
  /\ Taken(AtWork(t))
  /\ UNCHANGED <<host, recovery, want, snapshot, prepare, confirm, client, reboots>>

Alive(t, n) == confirm[t][n] \notin {"idle", "done", "dead"}
Holder(t)   == {n \in Tries : dir[t].lock = n}

\* Mutant: the owner is not killed.
SeizeAlive(t) ==
  /\ watchdog[t] = "acquire"
  /\ dir[t].made
  /\ dir[t].lock # Free
  /\ SetDir(t, [dir[t] EXCEPT !.lock = Watchdog, !.pid = FALSE])
  /\ Watching(t, "recheck")
  /\ UNCHANGED <<host, recovery, want, snapshot, prepare, confirm, client, reboots, shared>>

\* After five seconds the owner of the lock, which has left its process id there
\* by then, is killed and the lock is taken from it.
Seize(t) ==
  /\ watchdog[t] = "acquire"
  /\ dir[t].made
  /\ dir[t].lock # Free
  /\ dir[t].pid \/ \A n \in Holder(t) : ~ Alive(t, n)
  /\ confirm' = [confirm EXCEPT ![t] = [n \in Tries |->
                   IF n \in Holder(t) /\ dir[t].pid /\ Alive(t, n) THEN "dead"
                   ELSE confirm[t][n]]]
  /\ SetDir(t, [dir[t] EXCEPT !.lock = Watchdog, !.pid = FALSE])
  /\ Watching(t, "recheck")
  /\ UNCHANGED <<host, recovery, want, snapshot, prepare, client, reboots, shared>>

\* The lock cannot be made: a later transaction has reaped the directory.
LockFails(t) ==
  /\ watchdog[t] = "acquire"
  /\ ~ dir[t].made
  /\ Record(t, "rollback_failed")
  /\ Watching(t, "failed")
  /\ UNCHANGED <<host, want, snapshot, dir, prepare, confirm, client, reboots, shared>>

\* Mutants: no look at the confirmation under the lock; no record.
BeginRollbackUnchecked(t) ==
  /\ watchdog[t] = "recheck"
  /\ Status(t, "rollback_pending")
  /\ Record(t, "rollback_pending")
  /\ Watching(t, "rules")
  /\ UNCHANGED <<host, want, snapshot, prepare, confirm, client, reboots, shared>>
BeginRollbackUnrecorded(t) ==
  /\ watchdog[t] = "recheck"
  /\ ~ dir[t].confirmed
  /\ Status(t, "rollback_pending")
  /\ Watching(t, "rules")
  /\ UNCHANGED <<host, recovery, want, snapshot, prepare, confirm, client, reboots, shared>>

BeginRollback(t) ==
  /\ watchdog[t] = "recheck"
  /\ ~ dir[t].confirmed
  /\ Status(t, "rollback_pending")
  /\ Record(t, "rollback_pending")
  /\ Watching(t, "rules")
  /\ UNCHANGED <<host, want, snapshot, prepare, confirm, client, reboots, shared>>

\* The batch that restores the rules is written into the directory.
Restore(t) ==
  /\ \/ /\ watchdog[t] = "rules" /\ Watching(t, "persistence")
        /\ dir[t].made
        /\ rules' = snapshot[t].rules
        /\ UNCHANGED <<persistence, marker, armed>>
     \/ /\ watchdog[t] = "persistence" /\ Watching(t, "marker")
        /\ persistence' = snapshot[t].persistence
        /\ UNCHANGED <<rules, marker, armed>>
     \/ /\ watchdog[t] = "marker" /\ Watching(t, "arming")
        /\ marker' = snapshot[t].marker
        /\ UNCHANGED <<rules, persistence, armed>>
     \/ /\ watchdog[t] = "arming" /\ Watching(t, "complete")
        /\ armed' = snapshot[t].armed
        /\ UNCHANGED <<rules, persistence, marker>>
  /\ UNCHANGED <<recovery, want, snapshot, dir, prepare, confirm, client, reboots, shared>>

\* The order of the last two records matters to those who ask in between.
Complete(t) ==
  /\ watchdog[t] = "complete"
  /\ Status(t, "rollback_complete")
  /\ Watching(t, "settle")
  /\ UNCHANGED <<host, recovery, want, snapshot, prepare, confirm, client, reboots, shared>>

Settle(t) ==
  /\ watchdog[t] = "settle"
  /\ Record(t, "rollback_confirmed")
  /\ Watching(t, "remove")
  /\ UNCHANGED <<host, want, snapshot, dir, prepare, confirm, client, reboots, shared>>

\* rm -rf: first the files, which go together, then the directory.
RemoveFiles(t) ==
  /\ watchdog[t] = "remove"
  /\ SetDir(t, [NoDir EXCEPT !.made = dir[t].made])
  /\ Watching(t, "rmdir")
  /\ UNCHANGED <<host, recovery, want, snapshot, prepare, confirm, client, reboots, shared>>

RemoveDirectory(t) ==
  /\ watchdog[t] = "rmdir"
  /\ SetDir(t, NoDir)
  /\ Watching(t, "done")
  /\ UNCHANGED <<host, recovery, want, snapshot, prepare, confirm, client, reboots, shared>>

RollingBack(t) == watchdog[t] \in {"rules", "persistence", "marker", "arming", "complete", "settle"}

RollbackFails(t) ==
  /\ RollingBack(t)
  /\ "failing" \in Faults \/ ~ dir[t].made
  /\ Status(t, "rollback_failed")
  /\ Record(t, "rollback_failed")
  /\ Watching(t, "failed")
  /\ UNCHANGED <<host, want, snapshot, prepare, confirm, client, reboots, shared>>

Watch(t) ==
  \/ Load(t) \/ SeeConfirmed(t) \/ Expire(t) \/ Lock(t) \/ Seize(t) \/ LockFails(t)
  \/ BeginRollback(t) \/ Restore(t) \/ Complete(t) \/ Settle(t) \/ RollbackFails(t)
  \/ RemoveFiles(t) \/ RemoveDirectory(t)

-----------------------------------------------------------------------------
(* The confirm scripts.                                                    *)

Check(t, n) ==
  /\ confirm[t][n] = "check"
  /\ Confirming(t, n, IF dir[t].status = "awaiting_confirmation" THEN "lock" ELSE "trap")
  /\ UNCHANGED <<host, recovery, want, snapshot, dir, prepare, watchdog, client, reboots, shared>>

Acquire(t, n) ==
  /\ confirm[t][n] = "lock"
  /\ \/ /\ dir[t].made /\ dir[t].lock = Free
        /\ SetDir(t, [dir[t] EXCEPT !.lock = n, !.pid = FALSE])
        /\ Confirming(t, n, "claim")
        /\ Taken(AtWork(t) \/ Decided(t))
     \/ /\ ~ dir[t].made \/ dir[t].lock # Free
        /\ Confirming(t, n, "trap")
        /\ UNCHANGED <<dir, shared>>
  /\ UNCHANGED <<host, recovery, want, snapshot, prepare, watchdog, client, reboots>>

\* Its process id is written into the lock, which must still be there.
Claim(t, n) ==
  /\ confirm[t][n] = "claim"
  /\ \/ /\ dir[t].lock # Free
        /\ SetDir(t, [dir[t] EXCEPT !.pid = TRUE, !.status = "confirming"])
        /\ Confirming(t, n, "verify")
     \/ dir[t].lock = Free /\ Confirming(t, n, "trap") /\ UNCHANGED dir
  /\ UNCHANGED <<host, recovery, want, snapshot, prepare, watchdog, client, reboots, shared>>

\* The live table must be the one that was activated, whose digest is a file of
\* the directory.
Verify(t, n) ==
  /\ confirm[t][n] = "verify"
  /\ Confirming(t, n, IF dir[t].expected /\ rules = want[t] THEN "persistence" ELSE "trap")
  /\ UNCHANGED <<host, recovery, want, snapshot, dir, prepare, watchdog, client, reboots, shared>>

\* The files are copied from the directory; those of an absent table are removed.
Persist(t, n) ==
  /\ dir[t].expected \/ want[t] = Absent
  /\ \/ /\ confirm[t][n] = "persistence" /\ Confirming(t, n, "marker")
        /\ persistence' = want[t]
        /\ UNCHANGED <<marker, armed>>
     \/ /\ confirm[t][n] = "marker" /\ Confirming(t, n, "arming")
        /\ marker' = want[t]
        /\ UNCHANGED <<persistence, armed>>
     \/ /\ confirm[t][n] = "arming" /\ Confirming(t, n, "record")
        /\ armed' = (armed \/ want[t] # Absent)
        /\ UNCHANGED <<persistence, marker>>
  /\ UNCHANGED <<rules, recovery, want, snapshot, dir, prepare, watchdog, client, reboots, shared>>

RecordConfirmed(t, n) ==
  /\ confirm[t][n] = "record"
  /\ Record(t, "confirmed")
  /\ Confirming(t, n, "commit")
  /\ UNCHANGED <<host, want, snapshot, dir, prepare, watchdog, client, reboots, shared>>

\* From here on the watchdog cleans up and does not roll back.
Commit(t, n) ==
  /\ confirm[t][n] = "commit"
  /\ dir[t].made
  /\ SetDir(t, [dir[t] EXCEPT !.confirmed = TRUE])
  /\ Confirming(t, n, "complete")
  /\ UNCHANGED <<host, recovery, want, snapshot, prepare, watchdog, client, reboots, shared>>

Acknowledge(t, n) ==
  /\ confirm[t][n] = "complete"
  /\ Status(t, "confirmed")
  /\ Confirming(t, n, "done")
  /\ UNCHANGED <<host, recovery, want, snapshot, prepare, watchdog, client, reboots, shared>>

ConfirmFails(t, n) ==
  /\ Alive(t, n)
  /\ confirm[t][n] # "trap"
  /\ Confirming(t, n, "trap")
  /\ UNCHANGED <<host, recovery, want, snapshot, dir, prepare, watchdog, client, reboots, shared>>

\* finish_confirmation: it asks for the rollback and removes the lock, whoever
\* has it.
FinishConfirmation(t, n) ==
  /\ confirm[t][n] = "trap"
  /\ SetDir(t, IF dir[t].made THEN [dir[t] EXCEPT !.abort = TRUE, !.lock = Free, !.pid = FALSE]
               ELSE dir[t])
  /\ Confirming(t, n, "dead")
  /\ UNCHANGED <<host, recovery, want, snapshot, prepare, watchdog, client, reboots, shared>>

Confirm(t, n) ==
  \/ Check(t, n) \/ Acquire(t, n) \/ Claim(t, n) \/ Verify(t, n) \/ Persist(t, n)
  \/ RecordConfirmed(t, n) \/ Commit(t, n) \/ Acknowledge(t, n)
  \/ ConfirmFails(t, n) \/ FinishConfirmation(t, n)

-----------------------------------------------------------------------------
(* The provider.                                                           *)

Client(t, c) == client' = [client EXCEPT ![t] = c]
Report(t, outcome) == Client(t, [client[t] EXCEPT !.pc = "ended", !.report = outcome])

\* One apply after the other: the lock of the host sees to that, and by the time
\* the next apply has planned, the script of the last has looked at the directories.
Start(t, v) ==
  /\ client[t].pc = "idle"
  /\ \A u \in Tokens : u < t => client[u].pc = "ended" /\ prepare[u] # "scan"
  /\ want' = [want EXCEPT ![t] = v]
  /\ Client(t, [client[t] EXCEPT !.pc = "preparing"])
  /\ Preparing(t, "scan")
  /\ UNCHANGED <<host, recovery, snapshot, dir, watchdog, confirm, reboots, shared>>

PrepareReturns(t) ==
  /\ client[t].pc = "preparing"
  /\ prepare[t] \in {"done", "failed"} \/ "lost" \in Faults
  /\ \E prepared \in BOOLEAN :
       /\ prepared => prepare[t] = "done"
       /\ prepare[t] = "done" /\ ~ prepared => "lost" \in Faults
       /\ Client(t, [client[t] EXCEPT !.pc = "asking", !.prepared = prepared])
  /\ UNCHANGED <<host, recovery, want, snapshot, dir, prepare, watchdog, confirm, reboots, shared>>

\* A fresh connection runs the next confirm script.
Attempt(t) ==
  /\ client[t].pc = "asking"
  /\ client[t].prepared
  /\ client[t].tries < Attempts
  /\ Client(t, [client[t] EXCEPT !.pc = "confirming", !.tries = @ + 1])
  /\ Confirming(t, client[t].tries + 1, "check")
  /\ UNCHANGED <<host, recovery, want, snapshot, dir, prepare, watchdog, reboots, shared>>

ConfirmReturns(t) ==
  /\ client[t].pc = "confirming"
  /\ LET c == confirm[t][client[t].tries] IN
       \/ c = "done" /\ Report(t, "confirmed")
       \/ /\ c = "dead" \/ "lost" \in Faults
          /\ Client(t, [client[t] EXCEPT !.pc = "asking"])
  /\ UNCHANGED <<host, recovery, want, snapshot, dir, prepare, watchdog, confirm, reboots, shared>>

\* What the outcome script prints: the status of a directory that is there, the
\* record of one that is gone.
Outcome(t) ==
  IF dir[t].made
  THEN CASE dir[t].status \in {"preparing", "awaiting_confirmation", "confirming"} -> "pending"
         [] dir[t].status \in {"rollback_pending", "confirmed"} -> dir[t].status
         [] OTHER -> "rollback_failed"
  ELSE IF recovery.token = t THEN recovery.outcome ELSE "missing"

Final == {"confirmed", "rollback_confirmed", "rollback_failed", "activation_failed"}

Ask(t) ==
  /\ client[t].pc = "asking"
  /\ \/ Outcome(t) \in Final /\ Report(t, Outcome(t))
     \/ Outcome(t) = "missing" /\ ~ client[t].prepared /\ Report(t, "activation_failed")
  /\ UNCHANGED <<host, recovery, want, snapshot, dir, prepare, watchdog, confirm, reboots, shared>>

\* The deadline, a cancellation, or the end of the process.
GiveUp(t) ==
  /\ client[t].pc \in {"preparing", "asking", "confirming"}
  /\ Report(t, "rollback_pending")
  /\ UNCHANGED <<host, recovery, want, snapshot, dir, prepare, watchdog, confirm, reboots, shared>>

-----------------------------------------------------------------------------
(* The host.                                                               *)

\* Processes and the directories below /run are gone; the service loads what is
\* persisted if anything was ever confirmed.
Reboot ==
  /\ reboots < MaxReboots
  /\ reboots' = reboots + 1
  /\ rules' = IF armed THEN persistence ELSE Absent
  /\ dir' = [t \in Tokens |-> NoDir]
  /\ prepare' = [t \in Tokens |-> IF prepare[t] \in {"idle", "done"} THEN prepare[t] ELSE "failed"]
  /\ watchdog' = [t \in Tokens |-> IF watchdog[t] \in {"none", "done", "failed"}
                                   THEN watchdog[t] ELSE "dead"]
  /\ confirm' = [t \in Tokens |-> [n \in Tries |-> IF Alive(t, n) THEN "dead" ELSE confirm[t][n]]]
  /\ UNCHANGED <<persistence, marker, armed, recovery, want, snapshot, client, shared>>

Next ==
  \/ \E t \in Tokens :
       \/ Prepare(t) \/ Watch(t)
       \/ \E n \in Tries : Confirm(t, n)
       \/ \E v \in Rules : Start(t, v)
       \/ PrepareReturns(t) \/ Attempt(t) \/ ConfirmReturns(t) \/ Ask(t) \/ GiveUp(t)
  \/ Reboot

Spec == Init /\ [][Next]_vars

\* The scripts run on the host and end; nothing is asked of the provider, which
\* may die or lose its way to the host at any time.
Fairness ==
  \A t \in Tokens :
    /\ WF_vars(Prepare(t))
    /\ WF_vars(Watch(t))
    /\ \A n \in Tries : WF_vars(Confirm(t, n))

FairSpec == Spec /\ Fairness

-----------------------------------------------------------------------------
(* Properties.                                                             *)

Latest(t) == \A u \in Tokens : u > t => prepare[u] = "idle"
Recorded(t, outcome) == recovery = [token |-> t, outcome |-> outcome]

\* A reboot after the rollback loads what is persisted.
Restored(t) ==
  /\ persistence = snapshot[t].persistence
  /\ marker = snapshot[t].marker
  /\ armed = snapshot[t].armed
  /\ reboots = 0 => rules = snapshot[t].rules

Installed(t) ==
  /\ rules = want[t] /\ persistence = want[t] /\ marker = want[t]
  /\ want[t] # Absent => armed

\* As long as the record says that the rollback is confirmed, the live table,
\* its file, its marker and the arming marker are as the transaction found them:
\* no confirm script that is still running has written over them
\* (nftables.go:500-541), unless the action lock was taken twice.
RollbackRestores ==
  ~ shared => \A t \in Tokens : Latest(t) /\ Recorded(t, "rollback_confirmed") => Restored(t)

\* As long as the record says confirmed, all four hold the new table, also after
\* a reboot, although the record is written before the watchdog is told
\* (nftables.go:755-758), unless the action lock was taken twice.
ConfirmedHolds ==
  ~ shared => \A t \in Tokens : Latest(t) /\ Recorded(t, "confirmed") => Installed(t)

\* What the provider has reported stays true until the next transaction: no
\* rollback follows a reported success, and nothing is installed after a
\* reported rollback (confirmOrRecoverNftablesTransaction, nftables.go:1147-1158),
\* whatever becomes of the attempts to confirm that were made before; unless the
\* action lock was taken twice.
ReportHolds ==
  ~ shared => \A t \in Tokens : Latest(t) =>
    /\ client[t].report = "confirmed" => Installed(t)
    /\ client[t].report = "rollback_confirmed" => Restored(t)

Restoring(t)  == \/ watchdog[t] = "rules" /\ dir[t].made
                 \/ watchdog[t] \in {"persistence", "marker", "arming"}
Writing(t, n) == confirm[t][n] \in {"persistence", "marker", "arming", "record"}

\* A confirm script and the watchdog never write at the same time: the action
\* lock serializes them (docs/nftables.md:165, nftables.go:428-468, 698).  It does
\* not when an attempt is made again: the script that does not get the lock
\* removes it (626), and the next one to come takes it from an owner at work.
Serialized == \A t, u \in Tokens, n \in Tries : Restoring(t) => ~ Writing(u, n)

\* Nothing but such a second taking lets them write together: no kill, reboot or
\* lost connection, and no script of one transaction and watchdog of another.
SerializedOnce == ~ shared => Serialized

\* While a watchdog is restoring its snapshot no later transaction gets past the
\* scan of the directories, so that no rollback runs over a newer activation
\* (nftables.go:217-247), unless the action lock was taken twice.
Exclusive ==
  ~ shared => \A t, u \in Tokens :
                t < u /\ Restoring(t) => prepare[u] \in {"idle", "scan", "failed"}

Settled(t) ==
  \/ Recorded(t, "confirmed") /\ Installed(t) /\ ~ dir[t].made
  \/ Recorded(t, "rollback_confirmed") /\ Restored(t) /\ ~ dir[t].made
  \/ Recorded(t, "rollback_failed") /\ "failing" \in Faults /\ watchdog[t] = "failed"

\* Unless the host reboots or the action lock is taken twice, the last activation
\* is confirmed or rolled back in the end, for good, and leaves no directory behind,
\* whatever becomes of the provider, its attempts to confirm and its connections;
\* a rollback whose commands fail is recorded as failed (docs/nftables.md:163-168).
\* Its record may be lost to the watchdog of an earlier one, which records what it
\* did although its directory has been removed (540).
EventuallySettled ==
  \A t \in Tokens : prepare[t] = "publish" ~> [](\/ Settled(t) \/ ~ Latest(t) \/ recovery.token # t
                                            \/ reboots > 0 \/ shared)
=============================================================================
