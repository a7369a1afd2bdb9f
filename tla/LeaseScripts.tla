---------------------------- MODULE LeaseScripts ----------------------------
(***************************************************************************)
(* The acquire, renew and release scripts of internal/core/backend/lock.go *)
(* command by command, as they interleave on the host.  LeaseLock runs     *)
(* each of them as one step; here it is seen how far that is justified.    *)
(*                                                                         *)
(* A command works on the path of the lock directory, so after a takeover  *)
(* it works on the directory of the new owner.  A script that fails or is  *)
(* killed stops between two commands.  Each run (client) is a token; all   *)
(* clocks agree here.                                                      *)
(***************************************************************************)
EXTENDS Integers

CONSTANTS Clients,
          Nobody,
          TTL,
          MaxTime   \* bound: the clock stops here

ASSUME ScriptsAssumption ==
  /\ Nobody \notin Clients
  /\ TTL \in Nat \ {0}
  /\ MaxTime \in Nat

VARIABLES now,
          lock,    \* the directory at the lock path
          script,  \* the scripts of each run: one to acquire or renew, one to release
          stage,   \* where each run is: it seeks the lock, holds it, is about to
                   \* give it up, or waits for nothing but the end of its release
          told,    \* the expiry each run was last told of
          judges,  \* history: the runs whose acquire script has read the
                   \* directory that is there now
          swapped  \* history: whether a rename ever moved a directory that
                   \* its script had not read

history == <<judges, swapped>>
vars == <<now, lock, script, stage, told, history>>

\* Of a directory (NewDir), owner and expires_at are the files in it, tmp the
\* temporary files of the renewals, mtime its time of modification.  maker (the
\* run that made it) and claim (the expiry that its maker was granted) are kept
\* for the properties alone; no command reads them.
Missing  == [maker |-> Nobody, claim |-> 0]
Slots    == {"main", "cleanup"}
Procs    == Clients \X Slots

Exists      == lock # Missing
Idle        == [pc |-> "none", at |-> 0, seen |-> 0]
Run(p)      == p[1]
\* mutant: the TTL is counted twice
ExpiresTwice(p) == script[p].at + TTL + TTL
Expires(p)  == script[p].at + TTL

Init ==
  /\ now = 0
  /\ lock = Missing
  /\ script = [p \in Procs |-> Idle]
  /\ stage = [c \in Clients |-> "seek"]
  /\ told = [c \in Clients |-> 0]
  /\ judges = {}
  /\ swapped = FALSE

-----------------------------------------------------------------------------
(* Sending and ending scripts.                                             *)

Send(c, slot, step) ==
  /\ script[<<c, slot>>] = Idle
  /\ script' = [script EXCEPT ![<<c, slot>>] = [pc |-> step, at |-> now, seen |-> 0]]
  /\ UNCHANGED <<now, lock, told, history>>

\* A run tries again and again until it is told that it has the lock.
SendAcquire(c) ==
  /\ stage[c] = "seek"
  /\ Send(c, "main", "mkdir")
  /\ UNCHANGED stage

\* Assumed: a run sends its renewals and its release before its lease runs out;
\* a script ends within the second in which it was sent.
InTime(c) == now < told[c]

SendRenew(c) ==
  /\ stage[c] = "hold" /\ InTime(c)
  /\ Send(c, "main", "renew: owner")
  /\ UNCHANGED stage

Enter(c, s) == stage' = [stage EXCEPT ![c] = s]

\* The work is over.  A renewal under way is cancelled: nobody waits for it any
\* more, but it may go on.
SendRelease(c) ==
  /\ stage[c] \in {"hold", "quit"} /\ InTime(c)
  /\ Enter(c, "over")
  /\ Send(c, "cleanup", "release: owner")

Goto(p, step) == script' = [script EXCEPT ![p].pc = step]
Exit(p)       == script' = [script EXCEPT ![p] = Idle]

\* A run that gets no proper answer gives up seeking, or gives up its work.
Disappoint(c) == Enter(c, IF stage[c] = "seek" THEN "over"
                          ELSE IF stage[c] = "hold" THEN "quit" ELSE stage[c])

\* The script fails or is killed, or only its connection breaks and it goes on.
Broken(p) ==
  /\ script[p] # Idle
  /\ Exit(p) \/ UNCHANGED script
  /\ Disappoint(Run(p))
  /\ UNCHANGED <<now, lock, told, history>>

-----------------------------------------------------------------------------
(* The acquire script.                                                     *)

\* Making an entry in the directory, or removing one, sets its mtime.
NewDir(p) == [maker |-> Run(p), claim |-> Expires(p), owner |-> Nobody,
              expires_at |-> 0, tmp |-> {}, mtime |-> now]

\* mutant: mkdir -p, which does not mind a directory that exists
MkdirParents(p) ==
  /\ script[p].pc = "mkdir"
  /\ lock' = IF Exists THEN lock ELSE NewDir(p)
  /\ Goto(p, "owner")
  /\ UNCHANGED <<now, stage, told, history>>

Mkdir(p) ==
  /\ script[p].pc = "mkdir"
  /\ \/ ~ Exists /\ lock' = NewDir(p) /\ Goto(p, "owner")
     \/ Exists /\ UNCHANGED lock /\ Goto(p, "cat")
  /\ UNCHANGED <<now, stage, told, history>>

\* A command on a directory that is gone fails and ends the script (set -e).
Fails(p) == ~ Exists /\ Exit(p) /\ Disappoint(Run(p)) /\ UNCHANGED lock

WriteOwner(p) ==
  /\ script[p].pc = "owner"
  /\ \/ Fails(p)
     \/ /\ Exists
        /\ lock' = [lock EXCEPT !.owner = Run(p), !.mtime = now]
        /\ Goto(p, "expires")
        /\ UNCHANGED stage
  /\ UNCHANGED <<now, told, history>>

WriteExpires(p) ==
  /\ script[p].pc = "expires"
  /\ \/ Fails(p)
     \/ /\ Exists
        /\ lock' = [lock EXCEPT !.expires_at = Expires(p), !.mtime = now]
        /\ Goto(p, "chmod")
        /\ UNCHANGED stage
  /\ UNCHANGED <<now, told, history>>

\* chmod fails unless both files are there; then the script says acquired.
Chmod(p) ==
  /\ script[p].pc = "chmod"
  /\ Exit(p)
  /\ \/ /\ Exists /\ lock.owner # Nobody /\ lock.expires_at # 0
        /\ \/ /\ stage[Run(p)] = "seek"
              /\ Enter(Run(p), "hold")
              /\ told' = [told EXCEPT ![Run(p)] = Expires(p)]
           \/ stage[Run(p)] # "seek" /\ UNCHANGED <<stage, told>>
     \/ /\ ~ (Exists /\ lock.owner # Nobody /\ lock.expires_at # 0)
        /\ Disappoint(Run(p))
        /\ UNCHANGED told
  /\ UNCHANGED <<now, lock, history>>

Judges(p) == judges' = IF Exists THEN judges \cup {Run(p)} ELSE judges

CatExpiry(p) ==
  /\ script[p].pc = "cat"
  /\ \/ /\ Exists /\ lock.expires_at # 0
        /\ script' = [script EXCEPT ![p].pc = "compare", ![p].seen = lock.expires_at]
     \/ /\ ~ (Exists /\ lock.expires_at # 0)
        /\ Goto(p, "stat")
  /\ Judges(p)
  /\ UNCHANGED <<now, lock, stage, told, swapped>>

\* Without an expiry the directory counts as live for a TTL from its mtime.
Created(p) == IF Exists THEN lock.mtime ELSE script[p].at

Stat(p) ==
  /\ script[p].pc = "stat"
  /\ script' = [script EXCEPT ![p].pc = "compare", ![p].seen = Created(p) + TTL]
  /\ Judges(p)
  /\ UNCHANGED <<now, lock, stage, told, swapped>>

\* mutant: any directory is taken over
CompareNothing(p) ==
  /\ script[p].pc = "compare"
  /\ Goto(p, "mv")
  /\ UNCHANGED <<now, lock, stage, told, history>>

Compare(p) ==
  /\ script[p].pc = "compare"
  /\ \/ script[p].seen > script[p].at /\ Exit(p)
     \/ script[p].seen =< script[p].at /\ Goto(p, "mv")
  /\ UNCHANGED <<now, lock, stage, told, history>>

\* The rename takes whatever directory is at the path by then.
MvStale(p) ==
  /\ script[p].pc = "mv"
  /\ \/ ~ Exists /\ Exit(p) /\ UNCHANGED <<lock, history>>
     \/ /\ Exists
        /\ lock' = Missing
        /\ Goto(p, "mkdir again")
        /\ judges' = {}
        /\ swapped' = (swapped \/ Run(p) \notin judges)
  /\ UNCHANGED <<now, stage, told>>

MkdirAgain(p) ==
  /\ script[p].pc = "mkdir again"
  /\ \/ ~ Exists /\ lock' = NewDir(p) /\ Goto(p, "owner")
     \/ Exists /\ UNCHANGED lock /\ Exit(p)
  /\ UNCHANGED <<now, stage, told, history>>

-----------------------------------------------------------------------------
(* The renew script.                                                       *)

\* The answer "lost" ends the run's work.
Lost(p) == Exit(p) /\ Disappoint(Run(p))

Owns(p) == Exists /\ lock.owner = Run(p)

RenewOwner(p) ==
  /\ script[p].pc = "renew: owner"
  /\ \/ Owns(p) /\ Goto(p, "renew: expiry") /\ UNCHANGED stage
     \/ ~ Owns(p) /\ Lost(p)
  /\ UNCHANGED <<now, lock, told, history>>

\* The expires_at that is read is a number and later than the run's time.
LiveAt(p) == Exists /\ lock.expires_at > script[p].at

RenewExpiry(p) ==
  /\ script[p].pc = "renew: expiry"
  /\ \/ LiveAt(p) /\ Goto(p, "renew: tmp") /\ UNCHANGED stage
     \/ ~ LiveAt(p) /\ Lost(p)
  /\ UNCHANGED <<now, lock, told, history>>

RenewTmp(p) ==
  /\ script[p].pc = "renew: tmp"
  /\ \/ Fails(p)
     \/ /\ Exists
        /\ lock' = [lock EXCEPT !.tmp = @ \cup {Run(p)}, !.mtime = now]
        /\ Goto(p, "renew: mv")
        /\ UNCHANGED stage
  /\ UNCHANGED <<now, told, history>>

\* The rename is the moment of the renewal; it needs the temporary file.
RenewMv(p) ==
  /\ script[p].pc = "renew: mv"
  /\ Exit(p)
  /\ \/ /\ Exists /\ Run(p) \in lock.tmp
        /\ lock' = [lock EXCEPT !.tmp = @ \ {Run(p)}, !.expires_at = Expires(p),
                                !.claim = Expires(p), !.mtime = now]
        /\ IF stage[Run(p)] = "hold"
           THEN told' = [told EXCEPT ![Run(p)] = Expires(p)] ELSE UNCHANGED told
        /\ UNCHANGED stage
     \/ /\ ~ (Exists /\ Run(p) \in lock.tmp)
        /\ Disappoint(Run(p))
        /\ UNCHANGED <<lock, told>>
  /\ UNCHANGED <<now, history>>

-----------------------------------------------------------------------------
(* The release script.                                                     *)

ReleaseOwner(p) ==
  /\ script[p].pc = "release: owner"
  /\ \/ Owns(p) /\ Goto(p, "release: expiry")
     \/ ~ Owns(p) /\ Exit(p)
  /\ UNCHANGED <<now, lock, stage, told, history>>

ReleaseExpiry(p) ==
  /\ script[p].pc = "release: expiry"
  /\ \/ LiveAt(p) /\ Goto(p, "release: rm")
     \/ ~ LiveAt(p) /\ Exit(p)
  /\ UNCHANGED <<now, lock, stage, told, history>>

\* rm -rf removes the files, then the directory if it is still empty.
ReleaseRm(p) ==
  /\ script[p].pc = "release: rm"
  /\ \/ ~ Exists /\ UNCHANGED lock /\ Exit(p)
     \/ /\ Exists
        /\ lock' = [lock EXCEPT !.owner = Nobody, !.expires_at = 0, !.tmp = {}, !.mtime = now]
        /\ Goto(p, "release: rmdir")
  /\ UNCHANGED <<now, stage, told, history>>

Empty == lock.owner = Nobody /\ lock.expires_at = 0 /\ lock.tmp = {}

ReleaseRmdir(p) ==
  /\ script[p].pc = "release: rmdir"
  /\ Exit(p)
  /\ \/ Exists /\ Empty /\ lock' = Missing /\ judges' = {}
     \/ ~ (Exists /\ Empty) /\ UNCHANGED <<lock, judges>>
  /\ UNCHANGED <<now, stage, told, swapped>>

-----------------------------------------------------------------------------
Command(p) ==
  \/ Mkdir(p) \/ WriteOwner(p) \/ WriteExpires(p) \/ Chmod(p)
  \/ CatExpiry(p) \/ Stat(p) \/ Compare(p) \/ MvStale(p) \/ MkdirAgain(p)
  \/ RenewOwner(p) \/ RenewExpiry(p) \/ RenewTmp(p) \/ RenewMv(p)
  \/ ReleaseOwner(p) \/ ReleaseExpiry(p) \/ ReleaseRm(p) \/ ReleaseRmdir(p)

Tick ==
  /\ now < MaxTime
  /\ \A p \in Procs : script[p] = Idle
  /\ now' = now + 1
  /\ UNCHANGED <<lock, script, stage, told, history>>

Next ==
  \/ Tick
  \/ \E c \in Clients : SendAcquire(c) \/ SendRenew(c) \/ SendRelease(c)
  \/ \E p \in Procs : Command(p) \/ Broken(p)

Spec == Init /\ [][Next]_vars

-----------------------------------------------------------------------------
(* Properties.                                                             *)

Holds(c) == stage[c] = "hold" /\ told[c] > now

(* Of the runs that contend for a lock directory, fresh or stale, only one *)
(* is told that it has it, and it stays the only one until its lease runs  *)
(* out: docs/locking.md:11-12, "stale takeover still has one winner".      *)
(* Two contenders break it (lock.go:298-303): both find the directory      *)
(* expired, and the slower rename hits the one that the faster has made.   *)
OneWinner == \A c, d \in Clients : Holds(c) /\ Holds(d) => c = d

(* That rename, of a directory that its script has not read, is the only   *)
(* way to a second winner: not the debris of a killed script, nor a        *)
(* renewal or a release beside a takeover, however many runs contend.      *)
OneWinnerUntilSwapped == ~ swapped => OneWinner

\* The expiry that an acquire script reads off the directory.
Effective == IF lock.expires_at # 0 THEN lock.expires_at ELSE lock.mtime + TTL

(* Whatever a script that failed or was killed leaves at the lock path, it *)
(* shuts out the other runs for at most one TTL from now.                  *)
BoundedDebris == Exists => Effective =< now + TTL

(* Until then the directory at the lock path, taken as the lease of the    *)
(* run that made it, changes only as LeaseCell allows: no interleaving of  *)
(* the commands takes a live lease away, cuts it short or gives it to      *)
(* somebody else.                                                          *)
Lease == [owner |-> lock.maker, exp |-> lock.claim]
Over  == {c \in Clients : stage[c] = "over"}
Cell  == INSTANCE LeaseCell WITH MaxSkew <- 0, cell <- Lease, left <- Over
CellUntilSwapped == Cell!Init /\ [][swapped' \/ Cell!Next]_<<Lease, Over, now>>
=============================================================================
