------------------------------ MODULE UrlTest ------------------------------
(***************************************************************************)
(* An automatic group of the engine (UrlTest of outbound/group.rs).  Its    *)
(* measuring loop is started by the first connection through the group and  *)
(* ends itself when the group has not been used for a while.  `touch` is    *)
(* two writes on any thread; the loop is a task, and its end is two steps.  *)
(***************************************************************************)
EXTENDS Naturals

CONSTANTS
  Members,      \* the group's members
  Delays,       \* what a probe may find, in milliseconds
  Tolerance,    \* how much faster another must be
  Users,        \* threads that open connections
  IdleLimit,    \* idle: how long the group may rest before the loop ends
  NoBest

ASSUME UrlAssumption ==
  Delays \subseteq Nat /\ Tolerance \in Nat /\ IdleLimit \in Nat

VARIABLES
  rested,   \* time since last_used, no further than it is told apart
  running,  \* UrlTestState.running
  user,     \* where each thread is in `touch`
  loop,     \* where the loop is; "none" when there is none
  best      \* UrlTestState.best

urlVars == <<rested, running, user, loop, best>>

\* touch: last_used.store, then running.swap; the first starts a loop.
Touch(u) ==
  /\ user[u] = "out"
  /\ user' = [user EXCEPT ![u] = "stored"]
  /\ rested' = 0
  /\ UNCHANGED <<running, loop, best>>

Swap(u) ==
  /\ user[u] = "stored"
  /\ user' = [user EXCEPT ![u] = "out"]
  /\ running' = TRUE
  /\ loop' = IF running THEN loop ELSE "round"
  /\ UNCHANGED <<rested, best>>

\* round: the members answer or not, each at its own moment.  The best so far is
\* kept unless the fastest of now is faster than it was when it was measured.
Kept(new) == best # NoBest /\ best.delay <= new.delay + Tolerance

Round ==
  /\ loop = "round"
  /\ loop' = "sleep"
  /\ \/ UNCHANGED best
     \/ \E m \in Members, d \in Delays :
          LET new == [member |-> m, delay |-> d] IN ~Kept(new) /\ best' = new
  /\ UNCHANGED <<rested, running, user>>

\* The sleep of an interval and the look at last_used.
Check ==
  /\ loop = "sleep"
  /\ loop' = IF rested > IdleLimit THEN "clear" ELSE "round"
  /\ UNCHANGED <<rested, running, user, best>>

ClearMutant ==    \* the loop returns and leaves the flag
  /\ loop = "clear"
  /\ loop' = "none"
  /\ UNCHANGED <<running, rested, user, best>>

Clear ==
  /\ loop = "clear"
  /\ loop' = "none"
  /\ running' = FALSE
  /\ UNCHANGED <<rested, user, best>>

Rest ==
  /\ rested <= IdleLimit
  /\ rested' = rested + 1
  /\ UNCHANGED <<running, user, loop, best>>

----------------------------------------------------------------------------

UrlInit ==
  /\ rested = 0
  /\ running = FALSE
  /\ user = [u \in Users |-> "out"]
  /\ loop = "none"
  /\ best = NoBest

LoopRuns == Round \/ Check \/ Clear

UrlNext == (\E u \in Users : Touch(u) \/ Swap(u)) \/ LoopRuns \/ Rest

----------------------------------------------------------------------------
(* A group that goes on being used goes on being measured: the end of the   *)
(* loop and a use at that very moment may cost this use its round, never    *)
(* the uses after it (group.rs, touch and the end of its loop).             *)
UsedIsMeasured ==
  ([]<>\E u \in Users : user[u] = "stored") => []<>(loop = "round")
=============================================================================
