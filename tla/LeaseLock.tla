----------------------------- MODULE LeaseLock -----------------------------
(***************************************************************************)
(* The renewable lease of one host (internal/core/backend/lock.go): runs   *)
(* of apf contend for one lock directory through the acquire, renew and    *)
(* release scripts that they send over SSH.  A run is one call of          *)
(* WithLease and is identified by the owner token that Acquire generates.  *)
(* A script runs as one step here; LeaseScripts takes it apart.            *)
(*                                                                         *)
(* A call is sent, may run on the host at any later time and is answered   *)
(* at any time after that.  The transport may fail before or after the     *)
(* script has run; a script whose caller no longer waits is an orphan and  *)
(* may still run.                                                          *)
(***************************************************************************)
EXTENDS Integers

CONSTANTS Clients,   \* the runs, each with a token of its own
          Nobody,    \* the owner of a lock directory that does not exist
          TTL,       \* LeaseLocker.TTL
          Poll,      \* LeaseLocker.PollInterval
          Timeout,   \* the lock timeout of each run
          Skew,      \* how far each run's clock is ahead of the slowest one
          MaxSkew,
          MaxDelay,  \* bound on the delay of a call, a timer or a cancelled work
          MaxStart,  \* bound: no run starts later
          MaxTime    \* bound: the clock stops here

ASSUME LeaseAssumption ==
  /\ Nobody \notin Clients
  /\ TTL \in Nat \ {0} /\ Poll \in Nat \ {0} /\ MaxSkew \in Nat
  /\ Timeout \in [Clients -> Nat]
  /\ Skew \in [Clients -> 0 .. MaxSkew]
  /\ MaxDelay \in Nat /\ MaxStart \in Nat /\ MaxTime \in Nat

VARIABLES now,       \* time of the slowest clock
          cell,      \* the lock directory: its owner and its expires_at
          phase,     \* where each run is in WithLease
          deadline,  \* Acquire's deadline
          expiry,    \* Lease.expiresAt
          alarm,     \* the poll timer, then the renewal ticker
          call,      \* the remote call each run waits for
          orphans    \* scripts on their way to the host that nobody waits for

vars == <<now, cell, phase, deadline, expiry, alarm, call, orphans>>

Phases   == {"idle", "acquiring", "waiting", "working", "draining", "releasing",
             "done", "timedout", "failed", "crashed"}
Ended    == {"done", "timedout", "failed", "crashed"}
Scripts  == {"acquire", "renew", "release"}
Replies  == {"acquired", "busy", "renewed", "released", "missing", "lost"}
Leases   == [owner : Clients \cup {Nobody}, exp : Nat]
Calls    == [op : Scripts \cup {"none"}, at : Nat, reply : Replies \cup {"none"}]
Orphans  == [client : Clients, op : Scripts, at : Nat]

Free     == [owner |-> Nobody, exp |-> 0]
NoCall   == [op |-> "none", at |-> 0, reply |-> "none"]
Clock(c) == now + Skew[c]
IntervalWhole == TTL      \* mutant: renewing only when the lease has run out
Interval == IF TTL \div 3 > 0 THEN TTL \div 3 ELSE 1

TypeOK ==
  /\ now \in Nat
  /\ cell \in Leases
  /\ phase \in [Clients -> Phases]
  /\ deadline \in [Clients -> Nat]
  /\ expiry \in [Clients -> Nat]
  /\ alarm \in [Clients -> Nat]
  /\ call \in [Clients -> Calls]
  /\ orphans \subseteq Orphans

Init ==
  /\ now = 0
  /\ cell = Free
  /\ phase = [c \in Clients |-> "idle"]
  /\ deadline = [c \in Clients |-> 0]
  /\ expiry = [c \in Clients |-> 0]
  /\ alarm = [c \in Clients |-> 0]
  /\ call = [c \in Clients |-> NoCall]
  /\ orphans = {}

-----------------------------------------------------------------------------
(* The scripts, run on the host with the times their caller put in them.   *)

TakeableEarly(at) == cell.exp >= at      \* mutant: the comparison swapped
Takeable(at) == cell.owner = Nobody \/ cell.exp =< at

AcquireScript(c, at, reply) ==
  \/ /\ Takeable(at)
     /\ cell' = [owner |-> c, exp |-> at + TTL]
     /\ reply = "acquired"
  \/ /\ ~ Takeable(at)
     /\ UNCHANGED cell
     /\ reply = "busy"

OwnLiveAnyOwner(c, at) == cell.exp > at  \* mutant: the owner is not compared

\* The checks that renew and release make before they touch the directory.
OwnLive(c, at) == cell.owner = c /\ cell.exp > at

RenewScript(c, at, reply) ==
  \/ /\ OwnLive(c, at)
     /\ cell' = [cell EXCEPT !.exp = at + TTL]
     /\ reply = "renewed"
  \/ /\ ~ OwnLive(c, at)
     /\ UNCHANGED cell
     /\ reply = "lost"

ReleaseScript(c, at, reply) ==
  \/ /\ OwnLive(c, at)
     /\ cell' = Free
     /\ reply = "released"
  \/ /\ ~ OwnLive(c, at)
     /\ UNCHANGED cell
     /\ reply = IF cell.owner = Nobody THEN "missing" ELSE "lost"

RunScript(c, op, at, reply) ==
  \/ op = "acquire" /\ AcquireScript(c, at, reply)
  \/ op = "renew"   /\ RenewScript(c, at, reply)
  \/ op = "release" /\ ReleaseScript(c, at, reply)

Execute(c) ==
  /\ call[c].op # "none"
  /\ call[c].reply = "none"
  /\ \E reply \in Replies :
       /\ RunScript(c, call[c].op, call[c].at, reply)
       /\ call' = [call EXCEPT ![c].reply = reply]
  /\ UNCHANGED <<now, phase, deadline, expiry, alarm, orphans>>

ExecuteOrphan(o) ==
  /\ \E reply \in Replies : RunScript(o.client, o.op, o.at, reply)
  /\ orphans' = orphans \ {o}
  /\ UNCHANGED <<now, phase, deadline, expiry, alarm, call>>

-----------------------------------------------------------------------------
(* The run: Acquire, the work with its renewals, Release.                  *)

Issue(c, op) ==
  call' = [call EXCEPT ![c] = [op |-> op, at |-> Clock(c), reply |-> "none"]]

\* The script of a call that is given up before it has run stays behind.
LeftBehind(c) ==
  IF call[c].op \in Scripts /\ call[c].reply = "none"
  THEN {[client |-> c, op |-> call[c].op, at |-> call[c].at]} ELSE {}

GoTo(c, p) == phase' = [phase EXCEPT ![c] = p]
Hang(c)    == call' = [call EXCEPT ![c] = NoCall]
Abandon(c) == Hang(c) /\ orphans' = orphans \cup LeftBehind(c)

\* WithLease returns, or its process dies: what it kept is gone.
End(c, p) ==
  /\ GoTo(c, p)
  /\ deadline' = [deadline EXCEPT ![c] = 0]
  /\ expiry' = [expiry EXCEPT ![c] = 0]
  /\ alarm' = [alarm EXCEPT ![c] = 0]

Start(c) ==
  /\ phase[c] = "idle"
  /\ now =< MaxStart
  /\ GoTo(c, "acquiring")
  /\ deadline' = [deadline EXCEPT ![c] = Clock(c) + Timeout[c]]
  /\ Issue(c, "acquire")
  /\ UNCHANGED <<now, cell, expiry, alarm, orphans>>

Acquired(c) ==
  /\ phase[c] = "acquiring"
  /\ call[c].reply = "acquired"
  /\ GoTo(c, "working")
  /\ expiry' = [expiry EXCEPT ![c] = call[c].at + TTL]
  /\ alarm' = [alarm EXCEPT ![c] = Clock(c) + Interval]
  /\ Hang(c)
  /\ UNCHANGED <<now, cell, deadline, orphans>>

\* mutants: the deadline forgotten; the last poll before the deadline left out
LastAttemptNever(c) == Timeout[c] = 0
LastAttemptEarly(c) == Timeout[c] = 0 \/ call[c].at + Poll >= deadline[c]

\* The attempt that is made at or after the deadline is the last one.
LastAttempt(c) == Timeout[c] = 0 \/ call[c].at >= deadline[c]

GiveUp(c) ==
  /\ phase[c] = "acquiring"
  /\ call[c].reply = "busy"
  /\ LastAttempt(c)
  /\ End(c, "timedout")
  /\ Hang(c)
  /\ UNCHANGED <<now, cell, orphans>>

PollWait(c) ==
  LET remaining == deadline[c] - call[c].at
  IN  IF Poll > remaining THEN remaining ELSE Poll

Backoff(c) ==
  /\ phase[c] = "acquiring"
  /\ call[c].reply = "busy"
  /\ ~ LastAttempt(c)
  /\ GoTo(c, "waiting")
  /\ alarm' = [alarm EXCEPT ![c] = Clock(c) + PollWait(c)]
  /\ Hang(c)
  /\ UNCHANGED <<now, cell, deadline, expiry, orphans>>

Retry(c) ==
  /\ phase[c] = "waiting"
  /\ Clock(c) >= alarm[c]
  /\ GoTo(c, "acquiring")
  /\ Issue(c, "acquire")
  /\ UNCHANGED <<now, cell, deadline, expiry, alarm, orphans>>

\* renewLoop takes a tick of its ticker, which keeps to its schedule and drops
\* the ticks that nobody was there to take.
StartRenew(c) ==
  /\ phase[c] = "working"
  /\ call[c].op = "none"
  /\ Clock(c) >= alarm[c]
  /\ Issue(c, "renew")
  /\ \E t \in Clock(c) + 1 .. Clock(c) + Interval :
       /\ (t - alarm[c]) % Interval = 0
       /\ alarm' = [alarm EXCEPT ![c] = t]
  /\ UNCHANGED <<now, cell, phase, deadline, expiry, orphans>>

Renewed(c) ==
  /\ phase[c] = "working"
  /\ call[c].reply = "renewed"
  /\ expiry' = [expiry EXCEPT ![c] = call[c].at + TTL]
  /\ Hang(c)
  /\ UNCHANGED <<now, cell, phase, deadline, alarm, orphans>>

\* The work's context is cancelled; the work returns in a while and nothing
\* renews the lease any more.  alarm keeps the time of the cancellation.
Drain(c) ==
  /\ GoTo(c, "draining")
  /\ alarm' = [alarm EXCEPT ![c] = Clock(c)]
  /\ UNCHANGED <<deadline, expiry>>

RenewLost(c) ==
  /\ phase[c] = "working"
  /\ call[c].reply = "lost"
  /\ Drain(c)
  /\ Hang(c)
  /\ UNCHANGED <<now, cell, orphans>>

\* The work returns, with or without an error: the renewals stop, a renewal
\* under way is killed, and the release is sent.
Finish(c) ==
  /\ phase[c] \in {"working", "draining"}
  /\ GoTo(c, "releasing")
  /\ Issue(c, "release")
  /\ orphans' = orphans \cup LeftBehind(c)
  /\ UNCHANGED <<now, cell, deadline, expiry, alarm>>

Released(c) ==
  /\ phase[c] = "releasing"
  /\ call[c].reply \in {"released", "missing", "lost"}
  /\ End(c, IF call[c].reply = "lost" THEN "failed" ELSE "done")
  /\ Hang(c)
  /\ UNCHANGED <<now, cell, orphans>>

-----------------------------------------------------------------------------
(* What can go wrong.                                                      *)

\* The transport fails, or the release exceeds its time: the caller cannot
\* know whether the script has run.
CallFails(c) ==
  /\ call[c].op # "none"
  /\ \/ phase[c] = "working" /\ Drain(c)
     \/ phase[c] # "working" /\ End(c, "failed")
  /\ Abandon(c)
  /\ UNCHANGED <<now, cell>>

\* The context of the run is cancelled.
Cancel(c) ==
  /\ \/ phase[c] \in {"acquiring", "waiting"} /\ End(c, "failed")
     \/ phase[c] = "working" /\ Drain(c)
  /\ Abandon(c)
  /\ UNCHANGED <<now, cell>>

Crash(c) ==
  /\ phase[c] \notin Ended \cup {"idle"}
  /\ End(c, "crashed")
  /\ Abandon(c)
  /\ UNCHANGED <<now, cell>>

OnTimer(c) == \/ phase[c] \in {"waiting", "draining"}
              \/ phase[c] = "working" /\ call[c].op = "none"

\* How late calls, timers and cancelled work may be: MaxDelay.
Timely(c) ==
  /\ call[c].op # "none" => Clock(c) < call[c].at + MaxDelay
  /\ OnTimer(c) => Clock(c) < alarm[c] + MaxDelay

Tick ==
  /\ now < MaxTime
  /\ \A c \in Clients : Timely(c)
  /\ now' = now + 1
  /\ UNCHANGED <<cell, phase, deadline, expiry, alarm, call, orphans>>

Answer(c) == \/ Acquired(c) \/ GiveUp(c) \/ Backoff(c) \/ Renewed(c)
             \/ RenewLost(c) \/ Released(c)

Step(c) == \/ Start(c) \/ Execute(c) \/ Answer(c) \/ Retry(c) \/ StartRenew(c)
           \/ Finish(c) \/ CallFails(c) \/ Cancel(c) \/ Crash(c)

Next == \/ Tick
        \/ \E c \in Clients : Step(c)
        \/ \E o \in orphans : ExecuteOrphan(o)

Spec == Init /\ [][Next]_vars

\* Fairness: an awaited script runs or fails, its answer is handled, timers
\* fire, cancelled work returns and time passes.  Nothing makes a run start,
\* finish its work, fail or crash, and an orphan need never run.
Fairness ==
  /\ WF_vars(Tick)
  /\ \A c \in Clients : WF_vars(Execute(c)) /\ WF_vars(Answer(c))
                        /\ WF_vars(Retry(c)) /\ WF_vars(StartRenew(c))
                        /\ WF_vars(phase[c] = "draining" /\ Finish(c))

FairSpec == Spec /\ Fairness

-----------------------------------------------------------------------------
(* Properties.                                                             *)

InWork(c) == phase[c] \in {"working", "draining"}

\* The lease a run was told of has not run out, by its own clock and with the
\* skew of the clocks as a margin.
Valid(c) == InWork(c) /\ Clock(c) + MaxSkew < expiry[c]

(* Two runs never hold a lease at once that neither of them sees expired,  *)
(* whatever calls are delayed, lost or left behind and whichever run       *)
(* crashes: takeover by the acquire script, the renew and release checks   *)
(* and the expiry the run keeps agree with each other.                     *)
Exclusive == \A c, d \in Clients : Valid(c) /\ Valid(d) => c = d

(* While calls, timers and cancelled work are prompt enough, the work of   *)
(* two runs never overlaps at all: the renewal at a third of the TTL and   *)
(* the cancellation of the work on a failed renewal come in time.          *)
WorkExclusive == \A c, d \in Clients : InWork(c) /\ InWork(d) => c = d

(* A lease whose release was confirmed never comes back: neither a renewal *)
(* nor an acquisition left on its way can give it to that run again.       *)
ReleasedIsGone == \A c \in Clients : phase[c] = "done" => cell.owner # c

(* The lock directory changes only as LeaseCell allows: no run loses a     *)
(* lease that has not run out before it has sent its release, and no       *)
(* renewal, however late it reaches the host, cuts a lease short.          *)
Gone == {c \in Clients : phase[c] \in {"releasing"} \cup Ended}
Cell == INSTANCE LeaseCell WITH left <- Gone
ImplementsCell == Cell!Spec

-----------------------------------------------------------------------------
(* Why the lease is exclusive: the inductive invariant of the proofs.      *)

\* What c has been told of a lease until e is covered by the lock directory,
\* as far as anybody may still rely on it.
Backed(c, e) == (cell.owner = c /\ cell.exp >= e) \/ e =< now + MaxSkew

CoveredInv ==
  \A c \in Clients :
    /\ InWork(c) => Backed(c, expiry[c])
    /\ call[c].reply \in {"acquired", "renewed"} => Backed(c, call[c].at + TTL)

\* What a run waits for in each phase.
CallInv ==
  \A c \in Clients :
    /\ call[c].op = "acquire" <=> phase[c] = "acquiring"
    /\ call[c].op = "release" <=> phase[c] = "releasing"
    /\ call[c].op = "renew"   => phase[c] = "working"
    /\ call[c].op = "none"    => call[c].reply = "none"
    /\ call[c].reply \in {"acquired", "busy"} => call[c].op = "acquire"
    /\ call[c].reply = "renewed" => call[c].op = "renew"
    /\ call[c].reply \in {"released", "missing"} => call[c].op = "release"
    /\ call[c].at =< Clock(c)

\* Which scripts a run can have left behind.
OrphanInv ==
  \A o \in orphans :
    /\ o.at =< Clock(o.client)
    /\ o.op = "acquire" => phase[o.client] \in {"failed", "crashed"}
    /\ o.op = "renew"   => phase[o.client] \in {"draining", "releasing"} \cup Ended
    /\ o.op = "release" => phase[o.client] \in {"failed", "crashed"}

Extends(o) == o.op \in {"acquire", "renew"}

OneExtension ==
  \A o1, o2 \in orphans :
    o1.client = o2.client /\ Extends(o1) /\ Extends(o2) => o1 = o2

\* A renewal on its way to the host never asks for less than the owner has.
GrowingInv ==
  \A c \in Clients : cell.owner = c =>
    /\ cell.exp =< Clock(c) + TTL
    /\ call[c].op = "renew" /\ call[c].reply = "none" => cell.exp =< call[c].at + TTL
    /\ \A o \in orphans : o.client = c /\ o.op = "renew" => cell.exp =< o.at + TTL

GoneInv ==
  \A c \in Clients :
    phase[c] = "done" \/ call[c].reply \in {"released", "missing"} => cell.owner # c

LeaseInv ==
  TypeOK /\ CoveredInv /\ CallInv /\ OrphanInv /\ OneExtension /\ GrowingInv /\ GoneInv

-----------------------------------------------------------------------------
(* A run that starts when every other run is over and waits for a whole    *)
(* TTL never times out, whatever lock directory or orphaned script the     *)
(* others have left: a crashed holder delays it, but does not shut it out. *)
Deserted(c) == /\ phase[c] = "idle"
               /\ \A d \in Clients \ {c} : phase[d] \in Ended
StaleLeaseYields ==
  \A c \in Clients : Timeout[c] >= TTL + MaxSkew =>
    [](Deserted(c) => [](phase[c] # "timedout"))

(* Acquire returns: a run that asks for the lock gets it, times out or     *)
(* fails, however the other runs behave.                                   *)
AcquireSettles ==
  \A c \in Clients :
    phase[c] = "acquiring" ~> phase[c] \notin {"acquiring", "waiting"}
=============================================================================
