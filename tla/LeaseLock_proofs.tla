-------------------------- MODULE LeaseLock_proofs --------------------------
(* What LeaseLock promises for any runs, timeouts, clocks and bounds.       *)
EXTENDS LeaseLock, TLAPS

\* The renewal interval is at least one second, as in renewLoop.
LEMMA IntervalPositive == Interval \in Nat \ {0}
<1>1. TTL \div 3 \in Int
  BY LeaseAssumption
<1> QED  BY <1>1 DEF Interval

\* The clock of a run is a natural number, at most MaxSkew ahead of now.
LEMMA ClockBounds ==
  ASSUME now \in Nat, NEW c \in Clients
  PROVE  Clock(c) \in Nat /\ now =< Clock(c) /\ Clock(c) =< now + MaxSkew
<1>1. Skew[c] \in 0 .. MaxSkew /\ MaxSkew \in Nat
  BY LeaseAssumption
<1> QED  BY <1>1 DEF Clock

-----------------------------------------------------------------------------
(* The variables keep their types.                                         *)

\* Every step keeps the types.
LEMMA TypeInductive == TypeOK /\ [Next]_vars => TypeOK'
<1> SUFFICES ASSUME TypeOK, [Next]_vars PROVE TypeOK'
  OBVIOUS
<1> USE LeaseAssumption, IntervalPositive
<1>1. CASE Tick
  BY <1>1 DEF Tick, TypeOK
<1>2. ASSUME NEW c \in Clients, Step(c) PROVE TypeOK'
  <2> USE DEF TypeOK
  <2>0. Clock(c) \in Nat
    BY ClockBounds
  <2>1. CASE Start(c)
    BY <2>0, <2>1 DEF Start, GoTo, Issue, Phases, Calls, Scripts
  <2>2. CASE Execute(c)
    BY <2>2 DEF Execute, RunScript, AcquireScript, RenewScript, ReleaseScript,
                Leases, Free, Calls, Replies, Scripts
  <2>3. CASE Acquired(c)
    BY <2>0, <2>3 DEF Acquired, GoTo, Hang, NoCall, Phases, Calls, Scripts
  <2>4. CASE GiveUp(c)
    BY <2>4 DEF GiveUp, End, GoTo, Hang, NoCall, Phases, Calls
  <2>5. CASE Backoff(c)
    <3>1. PollWait(c) \in Nat
      BY <2>5 DEF Backoff, LastAttempt, PollWait, Calls
    <3> QED  BY <2>0, <2>5, <3>1 DEF Backoff, GoTo, Hang, NoCall, Phases, Calls
  <2>6. CASE Renewed(c)
    BY <2>6 DEF Renewed, Hang, NoCall, Calls
  <2>7. CASE RenewLost(c)
    BY <2>0, <2>7 DEF RenewLost, Drain, GoTo, Hang, NoCall, Phases, Calls
  <2>8. CASE Released(c)
    BY <2>8 DEF Released, End, GoTo, Hang, NoCall, Phases, Calls
  <2>9. CASE Retry(c)
    BY <2>0, <2>9 DEF Retry, GoTo, Issue, Phases, Calls, Scripts
  <2>10. CASE StartRenew(c)
    BY <2>0, <2>10 DEF StartRenew, Issue, Calls, Scripts
  <2>11. LeftBehind(c) \subseteq Orphans
    BY DEF LeftBehind, Orphans, Calls
  <2>12. CASE Finish(c)
    BY <2>0, <2>11, <2>12 DEF Finish, GoTo, Issue, Phases, Calls, Scripts
  <2>13. CASE CallFails(c)
    <3>1. CASE Drain(c)
      BY <2>0, <2>11, <2>13, <3>1
      DEF CallFails, Drain, GoTo, Abandon, Hang, NoCall, Phases, Calls
    <3>2. CASE End(c, "failed")
      BY <2>11, <2>13, <3>2
      DEF CallFails, End, GoTo, Abandon, Hang, NoCall, Phases, Calls
    <3> QED  BY <2>13, <3>1, <3>2 DEF CallFails
  <2>14. CASE Cancel(c)
    <3>1. CASE Drain(c)
      BY <2>0, <2>11, <2>14, <3>1
      DEF Cancel, Drain, GoTo, Abandon, Hang, NoCall, Phases, Calls
    <3>2. CASE End(c, "failed")
      BY <2>11, <2>14, <3>2
      DEF Cancel, End, GoTo, Abandon, Hang, NoCall, Phases, Calls
    <3> QED  BY <2>14, <3>1, <3>2 DEF Cancel
  <2>15. CASE Crash(c)
    BY <2>11, <2>15 DEF Crash, End, GoTo, Abandon, Hang, NoCall, Phases, Calls
  <2> QED
    BY <1>2, <2>1, <2>2, <2>3, <2>4, <2>5, <2>6, <2>7, <2>8, <2>9, <2>10,
       <2>12, <2>13, <2>14, <2>15 DEF Step, Answer
<1>3. ASSUME NEW o \in orphans, ExecuteOrphan(o) PROVE TypeOK'
  BY <1>3 DEF ExecuteOrphan, RunScript, AcquireScript, RenewScript, ReleaseScript,
              TypeOK, Leases, Free, Orphans
<1>4. CASE UNCHANGED vars
  BY <1>4 DEF vars, TypeOK
<1> QED  BY <1>1, <1>2, <1>3, <1>4 DEF Next

(* Every state is well typed.                                              *)
THEOREM Typing == Spec => []TypeOK
<1>1. Init => TypeOK
  BY LeaseAssumption
  DEF Init, TypeOK, Free, Leases, Phases, NoCall, Calls, Orphans
<1> QED  BY <1>1, TypeInductive, PTL DEF Spec
-----------------------------------------------------------------------------
(* The lease is exclusive: LeaseInv is inductive.                          *)

\* The steps that neither touch the lock directory nor leave a script behind.
LEMMA QuietSteps ==
  ASSUME LeaseInv, TypeOK', NEW c \in Clients,
         \/ Start(c) \/ Answer(c) \/ Retry(c) \/ StartRenew(c)
  PROVE  LeaseInv'
<1> USE LeaseAssumption, ClockBounds
    DEF LeaseInv, CoveredInv, CallInv, OrphanInv, OneExtension, GrowingInv, GoneInv,
        TypeOK, Calls, Orphans, Clock, Backed, InWork, GoTo, Hang, NoCall, Issue, Ended
<1>1. CASE Start(c)
  BY <1>1 DEF Start
<1>2. CASE Acquired(c)
  BY <1>2 DEF Acquired
<1>3. CASE GiveUp(c)
  BY <1>3 DEF GiveUp, End
<1>4. CASE Backoff(c)
  BY <1>4 DEF Backoff
<1>5. CASE Renewed(c)
  BY <1>5 DEF Renewed
<1>6. CASE RenewLost(c)
  BY <1>6 DEF RenewLost, Drain
<1>7. CASE Released(c)
  BY <1>7 DEF Released, End
<1>8. CASE Retry(c)
  BY <1>8 DEF Retry
<1>9. CASE StartRenew(c)
  BY <1>9 DEF StartRenew
<1> QED
  BY <1>1, <1>2, <1>3, <1>4, <1>5, <1>6, <1>7, <1>8, <1>9 DEF Answer

\* The steps that leave a call, and perhaps its script, behind.
LEMMA AbandoningSteps ==
  ASSUME LeaseInv, TypeOK', NEW c \in Clients,
         Finish(c) \/ CallFails(c) \/ Cancel(c) \/ Crash(c)
  PROVE  LeaseInv'
<1> USE LeaseAssumption, ClockBounds
    DEF LeaseInv, TypeOK, Calls, Orphans, Clock, GoTo, Hang, Abandon, NoCall, Issue
\* The script left behind was sent with the call that is given up.
<1>1. /\ orphans' = orphans \cup LeftBehind(c)
      /\ \A o \in LeftBehind(c) :
           /\ o.client = c /\ o.op = call[c].op /\ o.at = call[c].at
           /\ o.op \in Scripts /\ call[c].reply = "none"
      /\ \A o1, o2 \in LeftBehind(c) : o1 = o2
  BY DEF LeftBehind, Finish, CallFails, Cancel, Crash
<1>2. UNCHANGED <<now, cell>>
  BY DEF Finish, CallFails, Cancel, Crash
\* The phase that is left and the phase that is entered.
<1>3. /\ phase' = [phase EXCEPT ![c] = phase'[c]]
      /\ \/ phase[c] \in {"working", "draining"} /\ phase'[c] = "releasing"
         \/ phase[c] = "working" /\ phase'[c] = "draining"
         \/ phase[c] \notin Ended /\ phase'[c] \in {"failed", "crashed"}
  <2>1. phase[c] \notin Ended
    BY DEF Finish, CallFails, Cancel, Crash, Ended, CallInv, Scripts
  <2> QED  BY <2>1 DEF Finish, CallFails, Cancel, Crash, Drain, End
<1>4. /\ call' = [call EXCEPT ![c] = call'[c]]
      /\ \/ phase'[c] = "releasing" /\ call'[c] = [op |-> "release", at |-> Clock(c), reply |-> "none"]
         \/ phase'[c] # "releasing" /\ call'[c] = NoCall
  BY DEF Finish, CallFails, Cancel, Crash, Drain, End
<1>5. expiry' = [expiry EXCEPT ![c] = expiry'[c]] /\ (phase'[c] = "draining" => expiry'[c] = expiry[c])
  BY DEF Finish, CallFails, Cancel, Crash, Drain, End
<1>6. \A d \in Clients \ {c} : call'[d] = call[d] /\ phase'[d] = phase[d] /\ Clock(d)' = Clock(d)
  BY <1>2, <1>3, <1>4
<1>7. /\ phase'[c] \in {"releasing", "draining", "failed", "crashed"}
      /\ call'[c].at =< Clock(c)' /\ call'[c].reply = "none"
      /\ call'[c].op = IF phase'[c] = "releasing" THEN "release" ELSE "none"
  BY <1>2, <1>3, <1>4
<1>8. CoveredInv'
  BY <1>2, <1>3, <1>4, <1>5 DEF CoveredInv, Backed, InWork, Ended
<1>9. CallInv'
  <2> SUFFICES ASSUME NEW d \in Clients
               PROVE  /\ call'[d].op = "acquire" <=> phase'[d] = "acquiring"
                      /\ call'[d].op = "release" <=> phase'[d] = "releasing"
                      /\ call'[d].op = "renew" => phase'[d] = "working"
                      /\ call'[d].op = "none" => call'[d].reply = "none"
                      /\ call'[d].reply \in {"acquired", "busy"} => call'[d].op = "acquire"
                      /\ call'[d].reply = "renewed" => call'[d].op = "renew"
                      /\ call'[d].reply \in {"released", "missing"} => call'[d].op = "release"
                      /\ call'[d].at =< Clock(d)'
    BY DEF CallInv
  <2>1. CASE d = c
    BY <1>7, <2>1
  <2>2. CASE d # c
    <3>1. call'[d] = call[d] /\ phase'[d] = phase[d] /\ Clock(d)' = Clock(d)
      BY <1>6, <2>2
    <3> HIDE DEF Clock
    <3> QED  BY <3>1 DEF CallInv
  <2> QED  BY <2>1, <2>2
<1>10. OrphanInv'
  BY <1>1, <1>2, <1>3 DEF OrphanInv, CallInv, Ended, Scripts
<1>11. OneExtension'
  BY <1>1, <1>3 DEF OneExtension, OrphanInv, CallInv, Ended, Extends
<1>12. GrowingInv'
  <2> SUFFICES ASSUME NEW d \in Clients, cell.owner = d
               PROVE  /\ cell.exp =< Clock(d) + TTL
                      /\ call'[d].op = "renew" /\ call'[d].reply = "none"
                            => cell.exp =< call'[d].at + TTL
                      /\ \A o \in orphans' : o.client = d /\ o.op = "renew" => cell.exp =< o.at + TTL
    BY <1>2 DEF GrowingInv
  <2>1. /\ cell.exp =< Clock(d) + TTL
        /\ call[d].op = "renew" /\ call[d].reply = "none" => cell.exp =< call[d].at + TTL
        /\ \A o \in orphans : o.client = d /\ o.op = "renew" => cell.exp =< o.at + TTL
    BY DEF GrowingInv
  <2>2. call'[d].op = "renew" => call'[d] = call[d]
    BY <1>6, <1>7
  <2>3. \A o \in LeftBehind(c) : o.client = d /\ o.op = "renew" => cell.exp =< o.at + TTL
    BY <1>1, <2>1
  <2> QED  BY <1>1, <2>1, <2>2, <2>3
<1>13. GoneInv'
  BY <1>2, <1>3, <1>4 DEF GoneInv
<1> QED  BY <1>8, <1>9, <1>10, <1>11, <1>12, <1>13

\* What a script does to what the runs have been told.  A lease that may be
\* taken over at the clock of some run is not relied on by anybody any more.
LEMMA ScriptsKeepClaims ==
  ASSUME TypeOK, NEW c \in Clients, NEW op, NEW at \in Nat, NEW reply,
         RunScript(c, op, at, reply), now' = now, at =< Clock(c),
         op = "renew" /\ cell.owner = c => cell.exp =< at + TTL
  PROVE  /\ \A d \in Clients, e \in Nat :
              Backed(d, e) /\ (op = "release" => c # d) => Backed(d, e)'
         /\ reply \in {"acquired", "renewed"} => Backed(c, at + TTL)'
<1> USE LeaseAssumption, ClockBounds DEF TypeOK, Leases, Backed, Clock
<1>1. CASE op = "acquire" /\ AcquireScript(c, at, reply)
  BY <1>1 DEF AcquireScript, Takeable
<1>2. CASE op = "renew" /\ RenewScript(c, at, reply)
  BY <1>2 DEF RenewScript, OwnLive
<1>3. CASE op = "release" /\ ReleaseScript(c, at, reply)
  BY <1>3 DEF ReleaseScript, OwnLive, Free
<1> QED  BY <1>1, <1>2, <1>3 DEF RunScript

\* What a script does to the lock directory.
LEMMA ScriptEffects ==
  ASSUME TypeOK, NEW c \in Clients, NEW op, NEW at \in Nat, NEW reply,
         RunScript(c, op, at, reply)
  PROVE  \/ cell' = cell /\ reply = "busy" /\ op = "acquire"
         \/ cell' = cell /\ reply = "lost" /\ op \in {"renew", "release"}
         \/ cell' = cell /\ reply = "missing" /\ op = "release" /\ cell.owner = Nobody
         \/ /\ cell' = [owner |-> c, exp |-> at + TTL]
            /\ \/ op = "acquire" /\ reply = "acquired"
               \/ op = "renew" /\ reply = "renewed" /\ cell.owner = c
         \/ cell' = Free /\ op = "release" /\ reply = "released"
BY DEF RunScript, AcquireScript, RenewScript, ReleaseScript, OwnLive, TypeOK, Leases

\* The steps that run a script.
LEMMA ExecuteSteps ==
  ASSUME LeaseInv, TypeOK', NEW c \in Clients, Execute(c)
  PROVE  LeaseInv'
<1> USE LeaseAssumption, ClockBounds DEF LeaseInv, TypeOK, Calls, Orphans, Leases, Clock
<1>1. PICK at \in Nat, op \in Scripts, reply \in Replies :
         /\ at = call[c].at /\ op = call[c].op
         /\ RunScript(c, op, at, reply)
         /\ call' = [call EXCEPT ![c].reply = reply]
  BY DEF Execute
<1>2. UNCHANGED <<now, phase, deadline, expiry, alarm, orphans>> /\ call[c].reply = "none"
  BY DEF Execute
<1>3. /\ \A d \in Clients : call'[d].op = call[d].op /\ call'[d].at = call[d].at
      /\ \A d \in Clients \ {c} : call'[d].reply = call[d].reply
      /\ call'[c].reply = reply
  BY <1>1
<1>4. at =< Clock(c)
  BY <1>1 DEF CallInv
<1>5. \/ cell' = cell /\ reply = "busy" /\ op = "acquire"
      \/ cell' = cell /\ reply = "lost" /\ op \in {"renew", "release"}
      \/ cell' = cell /\ reply = "missing" /\ op = "release" /\ cell.owner = Nobody
      \/ /\ cell' = [owner |-> c, exp |-> at + TTL]
         /\ \/ op = "acquire" /\ reply = "acquired"
            \/ op = "renew" /\ reply = "renewed" /\ cell.owner = c
      \/ cell' = Free /\ op = "release" /\ reply = "released"
  BY <1>1, ScriptEffects
<1>6. CoveredInv'
  <2>1. op = "renew" /\ cell.owner = c => cell.exp =< at + TTL
    BY <1>1, <1>2 DEF GrowingInv
  <2>2. /\ \A d \in Clients, e \in Nat :
              Backed(d, e) /\ (op = "release" => c # d) => Backed(d, e)'
        /\ reply \in {"acquired", "renewed"} => Backed(c, at + TTL)'
    BY <1>1, <1>2, <1>4, <2>1, ScriptsKeepClaims
  <2>3. ASSUME NEW d \in Clients, InWork(d)' PROVE Backed(d, expiry[d])'
    <3>1. op = "release" => c # d
      BY <1>1, <1>2, <2>3 DEF CallInv, InWork
    <3>2. PICK e \in Nat : e = expiry[d] /\ e = expiry'[d]
      BY <1>2
    <3>3. Backed(d, e)'
      BY <1>2, <2>2, <2>3, <3>1, <3>2 DEF CoveredInv, InWork
    <3> QED  BY <3>2, <3>3 DEF Backed
  <2>4. ASSUME NEW d \in Clients, call'[d].reply \in {"acquired", "renewed"}
        PROVE  Backed(d, call[d].at + TTL)'
    <3>1. PICK t \in Nat : t = call[d].at /\ t = call'[d].at
      BY <1>3
    <3>2. CASE d = c
      BY <1>1, <1>3, <2>2, <2>4, <3>1, <3>2 DEF Backed
    <3>3. CASE d # c
      <4>1. op = "release" => c # d
        BY <3>3
      <4>2. Backed(d, t + TTL)
        BY <1>3, <2>4, <3>1, <3>3 DEF CoveredInv
      <4>3. Backed(d, t + TTL)'
        BY <2>2, <4>1, <4>2
      <4> QED  BY <3>1, <4>3 DEF Backed
    <3> QED  BY <3>2, <3>3
  <2> QED  BY <2>3, <2>4 DEF CoveredInv
<1>7. CallInv'
  BY <1>1, <1>2, <1>3, <1>5 DEF CallInv
<1>8. OrphanInv' /\ OneExtension'
  BY <1>2 DEF OrphanInv, OneExtension
<1>9. GrowingInv'
  <2> SUFFICES ASSUME NEW d \in Clients, cell'.owner = d
               PROVE  /\ cell'.exp =< Clock(d)' + TTL
                      /\ call'[d].op = "renew" /\ call'[d].reply = "none"
                           => cell'.exp =< call'[d].at + TTL
                      /\ \A o \in orphans : o.client = d /\ o.op = "renew"
                           => cell'.exp =< o.at + TTL
    BY <1>2 DEF GrowingInv
  <2>1. CASE cell' = cell
    BY <1>1, <1>2, <1>3, <2>1 DEF GrowingInv
  <2>2. CASE /\ cell' = [owner |-> c, exp |-> at + TTL]
             /\ op \in {"acquire", "renew"} /\ reply \in {"acquired", "renewed"}
    <3>1. phase[c] \in {"acquiring", "working"}
      BY <1>1, <2>2 DEF CallInv
    <3>2. c = d
      BY <2>2
    <3>3. \A o \in orphans : ~ (o.client = d /\ o.op = "renew")
      BY <3>1, <3>2 DEF OrphanInv, Ended
    <3>4. call'[d].reply # "none"
      BY <1>3, <2>2, <3>2
    <3> QED  BY <1>2, <1>4, <2>2, <3>2, <3>3, <3>4
  <2>3. CASE cell' = Free
    BY <2>3 DEF Free
  <2> QED  BY <1>5, <2>1, <2>2, <2>3
<1>10. GoneInv'
  BY <1>1, <1>2, <1>3, <1>5 DEF GoneInv, CallInv, Free
<1> QED  BY <1>6, <1>7, <1>8, <1>9, <1>10

\* A script left behind by a run that is gone keeps the invariant.
LEMMA ExecuteOrphanSteps ==
  ASSUME LeaseInv, TypeOK', NEW o \in orphans, ExecuteOrphan(o)
  PROVE  LeaseInv'
<1> USE LeaseAssumption, ClockBounds DEF TypeOK, Calls, Orphans, Leases, Clock
<1>1. PICK reply \in Replies : RunScript(o.client, o.op, o.at, reply)
  BY DEF ExecuteOrphan
<1>2. /\ UNCHANGED <<now, phase, deadline, expiry, alarm, call>>
      /\ orphans' = orphans \ {o} /\ o \in Orphans
  BY DEF ExecuteOrphan, LeaseInv
<1>3. CoveredInv'
  <2>1. \A d \in Clients, e \in Nat :
          Backed(d, e) /\ (o.op = "release" => o.client # d) => Backed(d, e)'
    BY <1>1, <1>2, ScriptsKeepClaims DEF LeaseInv, GrowingInv, OrphanInv
  <2> QED  BY <1>1, <1>2, <2>1 DEF LeaseInv, CoveredInv, OrphanInv, CallInv, InWork
<1>4. CallInv' /\ OrphanInv' /\ OneExtension'
  BY <1>2 DEF LeaseInv, CallInv, OrphanInv, OneExtension
<1>5. GrowingInv'
  BY <1>1, <1>2, ScriptEffects
  DEF LeaseInv, GrowingInv, CallInv, OrphanInv, OneExtension, Extends, Ended, Free
<1>6. GoneInv'
  BY <1>1, <1>2, ScriptEffects DEF LeaseInv, GoneInv, CallInv, OrphanInv, Free
<1> QED  BY <1>3, <1>4, <1>5, <1>6 DEF LeaseInv

\* Time only lets leases run out.
LEMMA TickStep == ASSUME LeaseInv, TypeOK', Tick PROVE LeaseInv'
<1> USE LeaseAssumption, ClockBounds DEF Tick, LeaseInv, TypeOK, Leases, Calls, Orphans, Clock
<1>1. CoveredInv'
  BY DEF CoveredInv, Backed, InWork
<1>2. CallInv' /\ OneExtension' /\ GoneInv'
  BY DEF CallInv, OneExtension, GoneInv
<1>3. OrphanInv'
  BY DEF OrphanInv
<1>4. GrowingInv'
  BY DEF GrowingInv
<1> QED  BY <1>1, <1>2, <1>3, <1>4

\* LeaseInv is inductive.
LEMMA LeaseInductive == LeaseInv /\ [Next]_vars => LeaseInv'
<1> SUFFICES ASSUME LeaseInv, [Next]_vars PROVE LeaseInv'
  OBVIOUS
<1>1. TypeOK'
  BY TypeInductive DEF LeaseInv
<1>2. CASE Tick
  BY <1>1, <1>2, TickStep
<1>3. CASE \E c \in Clients : Step(c)
  BY <1>1, <1>3, QuietSteps, ExecuteSteps, AbandoningSteps DEF Step
<1>4. CASE \E o \in orphans : ExecuteOrphan(o)
  BY <1>1, <1>4, ExecuteOrphanSteps
<1>5. CASE UNCHANGED vars
  BY <1>1, <1>5
  DEF vars, LeaseInv, CoveredInv, CallInv, OrphanInv, OneExtension, GrowingInv, GoneInv,
      Backed, InWork, Clock
<1> QED  BY <1>2, <1>3, <1>4, <1>5 DEF Next

\* LeaseInv holds in every state.
LEMMA LeaseInvariance == Spec => []LeaseInv
<1>1. Init => LeaseInv
  <2> SUFFICES ASSUME Init PROVE LeaseInv
    OBVIOUS
  <2>1. TypeOK
    BY LeaseAssumption
    DEF Init, TypeOK, Free, Leases, Phases, NoCall, Calls, Orphans
  <2> QED
    BY <2>1, ClockBounds, LeaseAssumption
    DEF Init, LeaseInv, CoveredInv, CallInv, OrphanInv, OneExtension, GrowingInv, GoneInv,
        InWork, Free, NoCall
<1> QED  BY <1>1, LeaseInductive, PTL DEF Spec

(* However calls are delayed, lost or left behind and whichever runs crash, *)
(* two runs of WithLease never both hold a lease that has not run out by    *)
(* their own clocks, for any number of runs and any TTL, timeouts and clock *)
(* skew.                                                                    *)
THEOREM Exclusivity == Spec => []Exclusive
<1>1. LeaseInv => Exclusive
  <2> SUFFICES ASSUME LeaseInv, NEW c \in Clients, NEW d \in Clients, Valid(c), Valid(d)
               PROVE  c = d
    BY DEF Exclusive
  <2>1. \A e \in Clients : Valid(e) => cell.owner = e
    BY ClockBounds, LeaseAssumption
    DEF LeaseInv, TypeOK, CoveredInv, Backed, Valid
  <2> QED  BY <2>1
<1> QED  BY <1>1, LeaseInvariance, PTL

(* A run whose release was confirmed never owns the lock directory again,   *)
(* not even through a renewal that is still on its way to the host.         *)
THEOREM ReleaseIsFinal == Spec => []ReleasedIsGone
<1>1. LeaseInv => ReleasedIsGone
  BY DEF LeaseInv, GoneInv, ReleasedIsGone
<1> QED  BY <1>1, LeaseInvariance, PTL

-----------------------------------------------------------------------------
(* The work is exclusive where calls, timers and work are prompt enough.   *)

\* No call and no timer is later than MaxDelay; a renewal was sent before the
\* next tick of its ticker.
Prompt(c) ==
  /\ call[c].op # "none" => Clock(c) =< call[c].at + MaxDelay
  /\ OnTimer(c) => Clock(c) =< alarm[c] + MaxDelay
  /\ call[c].op = "renew" => call[c].at < alarm[c] /\ alarm[c] =< call[c].at + Interval

\* What is left of the lease when the next renewal is due, when it is sent, and
\* when the work is cancelled.
InTime(c) ==
  /\ phase[c] = "working" /\ call[c].op = "none" => alarm[c] + TTL =< expiry[c] + Interval + MaxDelay
  /\ call[c].op = "renew" => call[c].at + TTL =< expiry[c] + Interval + 2 * MaxDelay
  /\ phase[c] = "draining" => alarm[c] + TTL =< expiry[c] + Interval + 3 * MaxDelay

TimesInv == \A c \in Clients : Prompt(c) /\ InTime(c)

\* A renewal, its delays and the end of cancelled work fit into a lease.
Fits == 4 * MaxDelay + Interval + MaxSkew < TTL

LEMMA StepInTime ==
  ASSUME LeaseInv, TypeOK', NEW c \in Clients, Prompt(c), InTime(c), Step(c)
  PROVE  (Prompt(c) /\ InTime(c))'
<1>1. /\ call[c] \in Calls /\ alarm[c] \in Nat /\ expiry[c] \in Nat /\ MaxDelay \in Nat /\ TTL \in Nat
      /\ call[c].at \in Nat /\ Clock(c) \in Nat /\ Interval \in Nat \ {0}
  BY LeaseAssumption, ClockBounds, IntervalPositive DEF LeaseInv, TypeOK, Calls
<1>2. /\ call[c].op = "acquire" <=> phase[c] = "acquiring"
      /\ call[c].op = "release" <=> phase[c] = "releasing"
      /\ call[c].op = "renew" => phase[c] = "working"
      /\ call[c].op = "none" => call[c].reply = "none"
      /\ call[c].reply \in {"acquired", "busy"} => call[c].op = "acquire"
      /\ call[c].reply = "renewed" => call[c].op = "renew"
      /\ call[c].op \in {"acquire", "renew", "release", "none"}
  BY <1>1 DEF LeaseInv, CallInv, Calls, Scripts
<1>3. /\ call \in [Clients -> Calls] /\ phase \in [Clients -> Phases]
      /\ alarm \in [Clients -> Nat] /\ expiry \in [Clients -> Nat]
  BY DEF LeaseInv, TypeOK
<1>4. ~ Execute(c) => Clock(c)' = Clock(c)
  BY DEF Clock, Step, Answer, Start, Acquired, GiveUp, Backoff, Renewed, RenewLost, Released, Retry, StartRenew,
         Finish, CallFails, Cancel, Crash
<1> HIDE DEF Interval, Clock
<1> USE <1>1, <1>2, <1>3 DEF Prompt, InTime, OnTimer, GoTo, Hang, NoCall, Issue, Ended
<1>5. CASE Start(c)
  BY <1>4, <1>5 DEF Start, Execute
<1>6. CASE Execute(c)
  BY <1>6 DEF Execute, Clock
<1>7. CASE Acquired(c)
  BY <1>4, <1>7 DEF Acquired, Execute
<1>8. CASE GiveUp(c) \/ Released(c) \/ Crash(c)
  BY <1>4, <1>8 DEF GiveUp, Released, Crash, End, Abandon, Execute
<1>9. CASE Backoff(c)
  <2>1. deadline[c] \in Nat /\ Poll \in Nat \ {0}
    BY LeaseAssumption DEF LeaseInv, TypeOK
  <2>2. PollWait(c) \in Nat
    BY <1>9, <2>1 DEF Backoff, LastAttempt, PollWait
  <2>3. /\ call'[c] = NoCall /\ phase'[c] = "waiting" /\ alarm'[c] = Clock(c) + PollWait(c)
        /\ Clock(c)' = Clock(c)
    BY <1>4, <1>9 DEF Backoff, Execute
  <2> QED  BY <2>2, <2>3
<1>10. CASE Retry(c)
  BY <1>4, <1>10 DEF Retry, Execute
<1>11. CASE StartRenew(c)
  BY <1>4, <1>11 DEF StartRenew, Execute
<1>12. CASE Renewed(c)
  BY <1>4, <1>12 DEF Renewed, Execute
<1>13. CASE RenewLost(c)
  BY <1>4, <1>13 DEF RenewLost, Drain, Execute
<1>14. CASE Finish(c)
  BY <1>4, <1>14 DEF Finish, Execute
<1>15. CASE CallFails(c)
  BY <1>4, <1>15 DEF CallFails, Drain, End, Abandon, Execute
<1>16. CASE Cancel(c)
  BY <1>4, <1>16 DEF Cancel, Drain, End, Abandon, Execute
<1> QED
  BY <1>5, <1>6, <1>7, <1>8, <1>9, <1>10, <1>11, <1>12, <1>13, <1>14, <1>15, <1>16 DEF Step, Answer

\* Nothing that another run does changes the times of a run.
LEMMA OthersInTime ==
  ASSUME LeaseInv, NEW c \in Clients, NEW d \in Clients, d # c, Step(d), Prompt(c), InTime(c)
  PROVE  (Prompt(c) /\ InTime(c))'
<1>1. /\ call'[c] = call[c] /\ alarm'[c] = alarm[c] /\ expiry'[c] = expiry[c] /\ phase'[c] = phase[c]
      /\ now' = now
  BY DEF LeaseInv, TypeOK, Step, Answer, Start, Execute, Acquired, GiveUp, Backoff, Renewed,
         RenewLost, Released, Retry, StartRenew, Finish, CallFails, Cancel, Crash,
         Drain, End, Abandon, GoTo, Hang, Issue
<1> QED  BY <1>1 DEF Prompt, InTime, OnTimer, Clock

LEMMA TimesInductive == LeaseInv /\ TimesInv /\ [Next]_vars => TimesInv'
<1> SUFFICES ASSUME LeaseInv, TimesInv, [Next]_vars, NEW c \in Clients PROVE (Prompt(c) /\ InTime(c))'
  BY DEF TimesInv
<1>0. Prompt(c) /\ InTime(c) /\ TypeOK'
  BY LeaseInductive DEF TimesInv, LeaseInv
<1>1. CASE Tick
  <2>1. /\ call[c].at \in Nat /\ alarm[c] \in Nat /\ MaxDelay \in Nat /\ Clock(c) \in Int
        /\ Clock(c)' = Clock(c) + 1 /\ Timely(c)
    BY <1>1, ClockBounds, LeaseAssumption DEF LeaseInv, TypeOK, Calls, Tick, Clock
  <2>2. UNCHANGED <<call, alarm, expiry, phase>>
    BY <1>1 DEF Tick
  <2>3. InTime(c)'
    BY <1>0, <2>2 DEF InTime
  <2>4. Prompt(c)'
    BY <1>0, <2>1, <2>2 DEF Prompt, OnTimer, Timely
  <2> QED  BY <2>3, <2>4
<1>2. ASSUME NEW d \in Clients, Step(d) PROVE (Prompt(c) /\ InTime(c))'
  BY <1>0, <1>2, StepInTime, OthersInTime
<1>3. ASSUME NEW o \in orphans, ExecuteOrphan(o) PROVE (Prompt(c) /\ InTime(c))'
  BY <1>0, <1>3 DEF ExecuteOrphan, Prompt, InTime, OnTimer, Clock
<1>4. CASE UNCHANGED vars
  BY <1>0, <1>4 DEF vars, Prompt, InTime, OnTimer, Clock
<1> QED  BY <1>1, <1>2, <1>3, <1>4 DEF Next

(* The work of two runs never overlaps, whatever calls are lost or left     *)
(* behind, for every TTL that leaves room for a renewal interval and four   *)
(* delays: of the call that got the lease, of the ticker, of the renewal    *)
(* and of the work's return (renewLoop, WithLease).                         *)
THEOREM ExclusiveWork == ASSUME Fits PROVE Spec => []WorkExclusive
<1>1. Init => TimesInv
  <2> SUFFICES ASSUME Init, NEW c \in Clients PROVE Prompt(c) /\ InTime(c)
    BY DEF TimesInv
  <2>1. call[c].op = "none" /\ phase[c] = "idle"
    BY DEF Init, NoCall
  <2> QED  BY <2>1 DEF Prompt, InTime, OnTimer
<1>2. LeaseInv /\ TimesInv => WorkExclusive
  <2> SUFFICES ASSUME LeaseInv, TimesInv, NEW c \in Clients, InWork(c) PROVE cell.owner = c
    BY DEF WorkExclusive
  <2>1. /\ Prompt(c) /\ InTime(c) /\ Backed(c, expiry[c])
        /\ call[c].at \in Nat /\ alarm[c] \in Nat /\ expiry[c] \in Nat
        /\ now \in Nat /\ now =< Clock(c) /\ Clock(c) \in Nat
    BY ClockBounds DEF TimesInv, LeaseInv, TypeOK, Calls, CoveredInv
  <2>2. MaxDelay \in Nat /\ MaxSkew \in Nat /\ TTL \in Nat /\ Interval \in Nat
    BY LeaseAssumption, IntervalPositive
  <2>3. call[c].op \in {"acquire", "renew", "release", "none"}
        /\ (call[c].op = "acquire" <=> phase[c] = "acquiring")
        /\ (call[c].op = "release" <=> phase[c] = "releasing")
    BY DEF LeaseInv, TypeOK, Calls, Scripts, CallInv
  <2> HIDE DEF Interval, Clock
  <2>4. Clock(c) + TTL =< expiry[c] + Interval + 4 * MaxDelay
    BY <2>1, <2>2, <2>3 DEF Prompt, InTime, OnTimer, InWork
  <2>5. now + MaxSkew < expiry[c]
    BY <2>1, <2>2, <2>4 DEF Fits
  <2> QED  BY <2>1, <2>2, <2>5 DEF Backed
<1> QED  BY <1>1, <1>2, TimesInductive, LeaseInvariance, PTL DEF Spec

-----------------------------------------------------------------------------
(* The lock directory changes only as LeaseCell allows.                    *)

\* A script that runs changes the directory by one step of LeaseCell, or not.
LEMMA ScriptRefines ==
  ASSUME TypeOK, NEW c \in Clients, NEW op, NEW at \in Nat, NEW reply,
         RunScript(c, op, at, reply), now' = now, at =< Clock(c),
         op = "renew" /\ cell.owner = c => cell.exp =< at + TTL,
         Gone' = Gone, op = "release" => c \in Gone
  PROVE  [Cell!Next]_<<cell, Gone, now>>
<1> USE LeaseAssumption, ClockBounds DEF TypeOK, Leases
<1>1. at + TTL \in 0 .. Cell!Horizon
  BY DEF Cell!Horizon
<1>2. CASE op = "acquire" /\ AcquireScript(c, at, reply)
  BY <1>1, <1>2 DEF AcquireScript, Takeable, Cell!Next, Cell!Grant
<1>3. CASE op = "renew" /\ RenewScript(c, at, reply)
  <2>1. CASE UNCHANGED cell
    BY <2>1
  <2>2. CASE OwnLive(c, at) /\ cell' = [cell EXCEPT !.exp = at + TTL]
    <3>1. at + TTL \in cell.exp .. Cell!Horizon
      BY <1>1, <1>3, <2>2 DEF OwnLive
    <3>2. cell' = [owner |-> c, exp |-> at + TTL]
      BY <2>2 DEF OwnLive
    <3> QED  BY <2>2, <3>1, <3>2 DEF OwnLive, Cell!Next, Cell!Prolong
  <2> QED  BY <1>3, <2>1, <2>2 DEF RenewScript
<1>4. CASE op = "release" /\ ReleaseScript(c, at, reply)
  BY <1>4 DEF ReleaseScript, OwnLive, Free, Cell!Next, Cell!GiveUp, Cell!Free
<1> QED  BY <1>2, <1>3, <1>4 DEF RunScript

(* LeaseLock implements LeaseCell: nobody but the owner gives up or         *)
(* prolongs a lease, nobody takes one that has not run out, and no renewal, *)
(* however late it reaches the host, cuts a lease short.                    *)
THEOREM Refinement == Spec => ImplementsCell
<1>1. Init => Cell!Init
  BY DEF Init, Free, Gone, Ended, Cell!Init, Cell!Free
<1>2. LeaseInv /\ [Next]_vars => [Cell!Next]_<<cell, Gone, now>>
  <2> SUFFICES ASSUME LeaseInv, [Next]_vars PROVE [Cell!Next]_<<cell, Gone, now>>
    OBVIOUS
  <2>1. CASE Tick
    BY <2>1 DEF Tick, Gone, Cell!Next, Cell!Tick
  <2>2. ASSUME NEW c \in Clients, Execute(c) PROVE [Cell!Next]_<<cell, Gone, now>>
    <3>1. PICK at \in Nat, op \in Scripts, reply \in Replies :
             at = call[c].at /\ op = call[c].op /\ RunScript(c, op, at, reply)
      BY <2>2 DEF Execute, LeaseInv, TypeOK, Calls
    <3>2. now' = now /\ at =< Clock(c) /\ (op = "renew" /\ cell.owner = c => cell.exp =< at + TTL)
      BY <2>2, <3>1 DEF Execute, LeaseInv, CallInv, GrowingInv
    <3>3. Gone' = Gone /\ (op = "release" => c \in Gone)
      BY <2>2, <3>1 DEF Execute, LeaseInv, CallInv, Gone
    <3> QED  BY <3>1, <3>2, <3>3, ScriptRefines DEF LeaseInv
  <2>3. ASSUME NEW o \in orphans, ExecuteOrphan(o) PROVE [Cell!Next]_<<cell, Gone, now>>
    <3>1. PICK c \in Clients, at \in Nat, op \in Scripts, reply \in Replies :
             /\ c = o.client /\ at = o.at /\ op = o.op
             /\ RunScript(c, op, at, reply)
      BY <2>3 DEF ExecuteOrphan, LeaseInv, TypeOK, Orphans
    <3>2. now' = now /\ at =< Clock(c) /\ (op = "renew" /\ cell.owner = c => cell.exp =< at + TTL)
      BY <2>3, <3>1 DEF ExecuteOrphan, LeaseInv, OrphanInv, GrowingInv
    <3>3. Gone' = Gone /\ (op = "release" => c \in Gone)
      BY <2>3, <3>1 DEF ExecuteOrphan, LeaseInv, OrphanInv, Gone, Ended
    <3> QED  BY <3>1, <3>2, <3>3, ScriptRefines DEF LeaseInv
  <2>4. ASSUME NEW c \in Clients, Step(c), ~ Execute(c) PROVE [Cell!Next]_<<cell, Gone, now>>
    <3> USE DEF Step, Answer, Start, Acquired, GiveUp, Backoff, Renewed, RenewLost, Released,
                Retry, StartRenew, Finish, CallFails, Cancel, Crash
    <3>1. UNCHANGED <<cell, now>>
      BY <2>4
    <3>2. phase[c] \in Ended => call[c].op = "none" /\ call[c].reply = "none"
      BY DEF LeaseInv, CallInv, TypeOK, Calls, Scripts, Ended
    <3>3. /\ \A d \in Clients \ {c} : phase'[d] = phase[d]
          /\ c \in Gone => phase'[c] \in {"releasing"} \cup Ended
      BY <2>4, <3>2 DEF GoTo, Drain, End, Ended, Gone, LeaseInv, TypeOK
    <3> HIDE DEF Step
    <3>4. Gone' = Gone \/ Gone' = Gone \cup {c}
      BY <3>3 DEF Gone
    <3> QED  BY <3>1, <3>4 DEF Cell!Next, Cell!Leave
  <2>5. CASE UNCHANGED vars
    BY <2>5 DEF vars, Gone
  <2> QED  BY <2>1, <2>2, <2>3, <2>4, <2>5 DEF Next
<1> QED  BY <1>1, <1>2, LeaseInvariance, PTL DEF Spec, ImplementsCell, Cell!Spec

-----------------------------------------------------------------------------
(* A crashed holder delays a run that waits long enough, and no more.      *)

\* All other runs are over, and whatever lock directory or script they have left
\* runs out before the deadline of c.
Outlasts(c) ==
  /\ \A d \in Clients \ {c} : phase[d] \in Ended
  /\ phase[c] # "timedout"
  /\ phase[c] \in {"acquiring", "waiting"} =>
       /\ \A o \in orphans : o.at + TTL =< deadline[c]
       /\ call[c].reply # "acquired" /\ cell.owner # Nobody => cell.exp =< deadline[c]
       /\ call[c].reply = "busy" => call[c].at < deadline[c]

\* A run that is over takes no step.
LEMMA EndedRests ==
  ASSUME LeaseInv, NEW d \in Clients, phase[d] \in Ended
  PROVE  ~ Step(d)
<1>1. call[d].op = "none" /\ call[d].reply = "none"
  BY DEF LeaseInv, TypeOK, Calls, Scripts, CallInv, Ended
<1> QED
  BY <1>1 DEF Ended, Step, Start, Execute, Answer, Acquired, GiveUp, Backoff, Renewed, RenewLost,
              Released, Retry, StartRenew, Finish, CallFails, Cancel, Crash

\* A script, its own or one left behind, makes a lease that ends a TTL after it was
\* sent, or none.
LEMMA LeaseEnds ==
  ASSUME TypeOK, NEW d \in Clients, NEW op, NEW at \in Nat, NEW reply,
         RunScript(d, op, at, reply)
  PROVE  cell' = cell \/ cell'.owner = Nobody \/ cell'.exp = at + TTL
BY LeaseAssumption DEF RunScript, AcquireScript, RenewScript, ReleaseScript, TypeOK, Leases, Free

\* When c starts, everything that is left is at most a TTL and the skew ahead.
LEMMA StartOutlasts ==
  ASSUME LeaseInv, NEW c \in Clients, Timeout[c] >= TTL + MaxSkew, Outlasts(c), Start(c)
  PROVE  Outlasts(c)'
<1>1. /\ now \in Nat /\ TTL \in Nat /\ MaxSkew \in Nat /\ Timeout[c] \in Nat
      /\ cell \in Leases /\ deadline \in [Clients -> Nat] /\ call \in [Clients -> Calls]
      /\ phase \in [Clients -> Phases]
  BY LeaseAssumption DEF LeaseInv, TypeOK
<1>2. /\ phase' = [phase EXCEPT ![c] = "acquiring"]
      /\ deadline'[c] = Clock(c) + Timeout[c] /\ call'[c].reply = "none"
      /\ UNCHANGED <<cell, orphans>>
  BY <1>1 DEF Start, GoTo, Issue
<1>3. \A d \in Clients : Clock(d) \in Nat /\ Clock(d) =< Clock(c) + MaxSkew
  BY <1>1, ClockBounds
<1>4. ASSUME NEW o \in orphans PROVE o.at + TTL =< deadline'[c]
  <2>1. o.client \in Clients /\ o.at \in Nat /\ o.at =< Clock(o.client)
    BY DEF LeaseInv, TypeOK, Orphans, OrphanInv
  <2> QED  BY <1>1, <1>2, <1>3, <2>1
<1>5. ASSUME cell.owner # Nobody PROVE cell.exp =< deadline'[c]
  <2>1. cell.owner \in Clients /\ cell.exp \in Nat /\ cell.exp =< Clock(cell.owner) + TTL
    BY <1>1, <1>5 DEF LeaseInv, Leases, GrowingInv
  <2> QED  BY <1>1, <1>2, <1>3, <2>1
<1> QED  BY <1>1, <1>2, <1>4, <1>5 DEF Outlasts

\* The attempt at the deadline finds the lock free or run out.
LEMMA StepOutlasts ==
  ASSUME LeaseInv, NEW c \in Clients, Timeout[c] >= TTL + MaxSkew, Outlasts(c), Step(c)
  PROVE  Outlasts(c)'
<1>1. /\ TTL \in Nat \ {0} /\ MaxSkew \in Nat /\ Timeout[c] \in Nat
      /\ cell \in Leases /\ deadline \in [Clients -> Nat] /\ call \in [Clients -> Calls]
      /\ phase \in [Clients -> Phases]
  BY LeaseAssumption DEF LeaseInv, TypeOK
<1> DEFINE Others == \A d \in Clients \ {c} : phase'[d] = phase[d]
<1>2. CASE Start(c)
  BY <1>2, StartOutlasts
<1>3. CASE Execute(c)
  <2>1. PICK reply \in Replies : /\ RunScript(c, call[c].op, call[c].at, reply)
                                 /\ call' = [call EXCEPT ![c].reply = reply]
    BY <1>3 DEF Execute
  <2>2. /\ UNCHANGED <<phase, deadline, orphans>>
        /\ call'[c].reply = reply /\ call'[c].at = call[c].at
        /\ call[c].at \in Nat /\ call[c].reply = "none"
    BY <1>1, <1>3, <2>1 DEF Execute, Calls
  <2>3. CASE phase[c] \notin {"acquiring", "waiting"}
    BY <2>2, <2>3 DEF Outlasts
  <2>4. CASE phase[c] \in {"acquiring", "waiting"}
    <3>1. call[c].op = "acquire"
      BY <1>1, <1>3, <2>4 DEF Execute, LeaseInv, CallInv, Calls, Scripts
    <3>2. AcquireScript(c, call[c].at, reply)
      BY <2>1, <3>1 DEF RunScript
    <3>3. CASE reply = "acquired"
      BY <2>2, <2>4, <3>3 DEF Outlasts
    <3>4. CASE /\ ~ Takeable(call[c].at) /\ cell' = cell /\ reply = "busy"
      <4>1. cell.owner # Nobody /\ cell.exp > call[c].at /\ cell.exp =< deadline[c]
        BY <1>1, <2>2, <2>4, <3>4 DEF Takeable, Outlasts, Leases
      <4>2. call[c].at < deadline[c]
        BY <1>1, <2>2, <4>1 DEF Leases
      <4> QED  BY <2>2, <2>4, <3>4, <4>1, <4>2 DEF Outlasts
    <3> QED  BY <3>2, <3>3, <3>4 DEF AcquireScript
  <2> QED  BY <2>3, <2>4
<1>4. CASE GiveUp(c)
  <2>1. Timeout[c] # 0 /\ call[c].at < deadline[c] /\ call[c].at \in Nat /\ deadline[c] \in Nat
    BY <1>1, <1>4 DEF GiveUp, Outlasts, Calls
  <2> QED  BY <1>4, <2>1 DEF GiveUp, LastAttempt
<1>5. CASE Backoff(c)
  <2>1. /\ phase' = [phase EXCEPT ![c] = "waiting"] /\ call' = [call EXCEPT ![c] = NoCall]
        /\ phase[c] = "acquiring" /\ call[c].reply = "busy"
        /\ UNCHANGED <<cell, deadline, orphans>>
    BY <1>5 DEF Backoff, GoTo, Hang
  <2> QED  BY <1>1, <2>1 DEF Outlasts, NoCall
<1>6. CASE Retry(c)
  <2>1. /\ phase' = [phase EXCEPT ![c] = "acquiring"] /\ call'[c].reply = "none"
        /\ phase[c] = "waiting" /\ UNCHANGED <<cell, deadline, orphans>>
    BY <1>1, <1>6 DEF Retry, GoTo, Issue
  <2>2. call[c].reply = "none"
    BY <1>1, <2>1 DEF LeaseInv, CallInv, Calls, Scripts
  <2> QED  BY <1>1, <2>1, <2>2 DEF Outlasts
\* All the others leave the attempts behind, and nothing times out any more.
<1>7. CASE Acquired(c) \/ Renewed(c) \/ RenewLost(c) \/ Released(c) \/ StartRenew(c) \/ Finish(c)
           \/ CallFails(c) \/ Cancel(c) \/ Crash(c)
  <2>1. /\ Others
        /\ phase'[c] \in {"working", "draining", "releasing", "done", "failed", "crashed"}
    BY <1>1, <1>7 DEF Acquired, Renewed, RenewLost, Released, StartRenew, Finish, CallFails, Cancel,
                      Crash, End, GoTo, Drain
  <2> QED  BY <2>1 DEF Outlasts
<1> QED  BY <1>2, <1>3, <1>4, <1>5, <1>6, <1>7 DEF Step, Answer

LEMMA NextOutlasts ==
  ASSUME NEW c \in Clients, Timeout[c] >= TTL + MaxSkew
  PROVE  LeaseInv /\ Outlasts(c) /\ [Next]_vars => Outlasts(c)'
<1> SUFFICES ASSUME LeaseInv, Outlasts(c), [Next]_vars PROVE Outlasts(c)'
  OBVIOUS
<1>1. CASE Tick \/ UNCHANGED vars
  BY <1>1 DEF Tick, vars, Outlasts
<1>2. ASSUME NEW d \in Clients, Step(d) PROVE Outlasts(c)'
  <2>1. d = c
    BY <1>2, EndedRests DEF Outlasts
  <2> QED  BY <1>2, <2>1, StepOutlasts
<1>3. ASSUME NEW o \in orphans, ExecuteOrphan(o) PROVE Outlasts(c)'
  <2>1. PICK reply \in Replies : RunScript(o.client, o.op, o.at, reply)
    BY <1>3 DEF ExecuteOrphan
  <2>2. /\ orphans' = orphans \ {o} /\ UNCHANGED <<phase, deadline, call>>
        /\ o.client \in Clients /\ o.at \in Nat /\ TypeOK
    BY <1>3 DEF ExecuteOrphan, LeaseInv, TypeOK, Orphans
  <2>3. cell' = cell \/ cell'.owner = Nobody \/ cell'.exp = o.at + TTL
    BY <2>1, <2>2, LeaseEnds
  <2> QED  BY <2>2, <2>3 DEF Outlasts
<1> QED  BY <1>1, <1>2, <1>3 DEF Next

\* A run that starts when all others are over, and waits for a whole TTL and the
\* skew of the clocks, is never told that the lock is taken for good (the deadline
\* of Acquire against the takeover of the acquire script).
THEOREM StaleLeases == Spec => StaleLeaseYields
<1> SUFFICES ASSUME NEW c \in Clients, Timeout[c] >= TTL + MaxSkew
             PROVE  Spec => [](Deserted(c) => [](phase[c] # "timedout"))
  BY DEF StaleLeaseYields
<1>1. Deserted(c) => Outlasts(c)
  BY DEF Deserted, Outlasts
<1>2. Outlasts(c) => phase[c] # "timedout"
  BY DEF Outlasts
<1>3. LeaseInv /\ Outlasts(c) /\ [Next]_vars => Outlasts(c)'
  BY NextOutlasts
<1> QED  BY <1>1, <1>2, <1>3, LeaseInvariance, PTL DEF Spec
=============================================================================
