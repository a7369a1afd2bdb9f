----------------------------- MODULE LeaseCell -----------------------------
(***************************************************************************)
(* What the lock directory of one host promises, whatever the scripts,     *)
(* delays, lost answers and crashes that bring its changes about: one      *)
(* lease at a time, taken only when it is free or has run out, never cut   *)
(* short, and free again before it runs out only when the run that owns it *)
(* has left.  LeaseLock and LeaseScripts are shown to implement it.        *)
(***************************************************************************)
EXTENDS Integers

CONSTANTS Clients,  \* the owner tokens, one for each run of apf
          Nobody,   \* the owner of a lock directory that does not exist
          TTL,      \* the lifetime of a lease
          MaxSkew   \* how far a run's clock may be ahead of the slowest one

VARIABLES cell,     \* the lease on the host: its owner and its expiry
          left,     \* the runs that do not, or no longer, rely on the lease
          now       \* the time of the slowest clock

Leases == [owner : Clients \cup {Nobody}, exp : Nat]
Free   == [owner |-> Nobody, exp |-> 0]

Init == cell = Free /\ left = {} /\ now = 0

\* The latest expiry that any run can ask for.
Horizon == now + MaxSkew + TTL

Grant(c) ==
  /\ cell.owner = Nobody \/ cell.exp =< now + MaxSkew
  /\ \E e \in 0 .. Horizon : cell' = [owner |-> c, exp |-> e]
  /\ UNCHANGED <<left, now>>

\* A lease that has run out is cleared away.
Evict ==
  /\ cell.exp =< now + MaxSkew
  /\ cell' = Free
  /\ UNCHANGED <<left, now>>

Prolong(c) ==
  /\ cell.owner = c
  /\ \E e \in cell.exp .. Horizon : cell' = [owner |-> c, exp |-> e]
  /\ UNCHANGED <<left, now>>

GiveUp(c) ==
  /\ cell.owner = c /\ c \in left
  /\ cell' = Free
  /\ UNCHANGED <<left, now>>

Leave(c) == left' = left \cup {c} /\ UNCHANGED <<cell, now>>

Tick == now' = now + 1 /\ UNCHANGED <<cell, left>>

Next == Tick \/ Evict \/ \E c \in Clients : Grant(c) \/ Prolong(c) \/ GiveUp(c) \/ Leave(c)

Spec == Init /\ [][Next]_<<cell, left, now>>
=============================================================================
