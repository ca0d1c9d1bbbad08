---------------------------- MODULE WaitContract ----------------------------
(***************************************************************************)
(* What a caller of yk_wait_for_key_status may rely on, with no word of    *)
(* how the function polls: time is spent in portions of at most MaxPause,  *)
(* never starting a portion once the limit is reached; the limit may be    *)
(* raised once, by Extension; and the wait ends with a verdict.            *)
(***************************************************************************)
EXTENDS Integers

CONSTANTS
    Limits,       \* the time limits a caller may pass, in milliseconds
    MaxPause,     \* the longest pause between two looks at the key
    Extension     \* how much the limit is raised while the user is awaited

VARIABLES
    spent,        \* milliseconds spent pausing so far
    limit,        \* the limit in force
    raised,       \* the limit has been raised
    verdict       \* "none" until the wait ends, then "yes" or "no"

vars == <<spent, limit, raised, verdict>>

Init ==
    /\ spent = 0
    /\ limit \in Limits
    /\ raised = FALSE
    /\ verdict = "none"

Pause ==
    /\ verdict = "none"
    /\ spent < limit
    /\ \E d \in 1 .. MaxPause : spent' = spent + d

\* A pause after which the wait goes on, the limit raised or not.
GoOn ==
    /\ Pause
    /\ verdict' = "none"
    /\ \/ UNCHANGED <<limit, raised>>
       \/ /\ ~raised
          /\ raised' = TRUE
          /\ limit' = limit + Extension

\* A pause after which the wait ends.
Conclude ==
    /\ Pause
    /\ verdict' \in {"yes", "no"}
    /\ UNCHANGED <<limit, raised>>

\* The limit is reached: the answer is no.
Expire ==
    /\ verdict = "none"
    /\ spent >= limit
    /\ verdict' = "no"
    /\ UNCHANGED <<spent, limit, raised>>

Next == GoOn \/ Conclude \/ Expire

Spec == Init /\ [][Next]_vars

\* The wait is sure to end.
FairSpec == Spec /\ WF_vars(Next)
=============================================================================
