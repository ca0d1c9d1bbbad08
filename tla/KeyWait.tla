------------------------------ MODULE KeyWait ------------------------------
(***************************************************************************)
(* yk_wait_for_key_status (ykcore/ykcore.c): poll the status byte of the   *)
(* key, sleeping longer and longer between two polls, until the bits of    *)
(* call.mask are set (call.logic_and) or cleared, the key says that it     *)
(* waits for the user, a transfer fails, or the time is up.  One action is *)
(* one turn of the loop: the sleep, the read, and the branch taken.        *)
(*                                                                         *)
(* The key is the environment: any status byte may come back from any      *)
(* read.  A status byte is the set of the flags raised in it.              *)
(***************************************************************************)
EXTENDS Integers

CONSTANTS
    Calls,        \* the argument records the callers pass
    Flags,        \* the flag bits of a status byte
    WaitFlag,     \* RESP_TIMEOUT_WAIT_FLAG, one of Flags
    SleepCap,     \* 500: the longest sleep between two polls
    Extension     \* 256 * 1000: added to the limit while the user is awaited

CallType == [max_time_ms : Nat, logic_and : BOOLEAN,
             mask : SUBSET Flags, mayBlock : BOOLEAN]

ASSUME CallsAssumption == Calls \subseteq CallType
ASSUME FlagAssumption == WaitFlag \in Flags
ASSUME SleepAssumption == SleepCap \in Nat \ {0} /\ Extension \in Nat

VARIABLES
    call,         \* the arguments of this invocation
    slept_time,   \* milliseconds slept so far
    sleepval,     \* the next sleep
    max_time_ms,  \* the limit in force
    blocking,     \* RESP_TIMEOUT_WAIT_FLAG has been seen and is waited out
    last_data,    \* the status byte of the last read
    dummies,      \* yk_force_key_update calls made
    outcome,      \* "waiting" in the loop, then how the function returned
    seen          \* history: every status byte read so far

vars == <<call, slept_time, sleepval, max_time_ms, blocking, last_data,
          dummies, outcome, seen>>

Outcomes == {"waiting", "ok", "EUSBERR", "ETIMEOUT", "EWOULDBLOCK"}

\* The test of the loop: all bits of the mask set, or all of them cleared.
Hit(status) ==
    IF call.logic_and THEN call.mask \subseteq status
                      ELSE call.mask \cap status = {}

\* Mutant of Doubled: the cap is forgotten.
DoubledUncapped == 2 * sleepval

Doubled == IF 2 * sleepval > SleepCap THEN SleepCap ELSE 2 * sleepval

Init ==
    /\ call \in Calls
    /\ slept_time = 0
    /\ sleepval = 1
    /\ max_time_ms = call.max_time_ms
    /\ blocking = FALSE
    /\ last_data = {}
    /\ dummies = 0
    /\ outcome = "waiting"
    /\ seen = {}

\* Mutant of Sleeps: the time slept is not counted.
SleepsUncounted ==
    /\ outcome = "waiting"
    /\ slept_time < max_time_ms
    /\ sleepval' = Doubled
    /\ UNCHANGED <<slept_time, call>>

\* The head of every turn: the loop condition, the sleep and the backoff.
Sleeps ==
    /\ outcome = "waiting"
    /\ slept_time < max_time_ms
    /\ slept_time' = slept_time + sleepval
    /\ sleepval' = Doubled
    /\ UNCHANGED call

\* The read that follows, which brings in this status byte.
Reads(status) ==
    /\ Sleeps
    /\ last_data' = status
    /\ seen' = seen \cup {status}

\* The transfer fails; the backend has set yk_errno.
ReadFails ==
    /\ Sleeps
    /\ outcome' = "EUSBERR"
    /\ UNCHANGED <<max_time_ms, blocking, last_data, dummies, seen>>

ReadHits(status) ==
    /\ Reads(status)
    /\ Hit(status)
    /\ outcome' = "ok"
    /\ UNCHANGED <<max_time_ms, blocking, dummies>>

\* Mutant of RefuseToBlock: the wait flag is looked at before the mask.
RefuseToBlockFirst(status) ==
    /\ Reads(status)
    /\ WaitFlag \in status
    /\ ~call.mayBlock
    /\ dummies' = dummies + 1
    /\ outcome' = "EWOULDBLOCK"
    /\ UNCHANGED <<max_time_ms, blocking>>

\* The key waits for the user and the caller will not: reset the read mode.
RefuseToBlock(status) ==
    /\ Reads(status)
    /\ ~Hit(status)
    /\ WaitFlag \in status
    /\ ~call.mayBlock
    /\ dummies' = dummies + 1
    /\ outcome' = "EWOULDBLOCK"
    /\ UNCHANGED <<max_time_ms, blocking>>

\* Mutant of KeepBlocking: the limit is extended on every poll.
KeepBlockingAgain(status) ==
    /\ Reads(status)
    /\ ~Hit(status)
    /\ WaitFlag \in status
    /\ call.mayBlock
    /\ blocking' = TRUE
    /\ max_time_ms' = max_time_ms + Extension
    /\ UNCHANGED <<dummies, outcome>>

\* The key waits for the user: the first time, the limit is extended.
KeepBlocking(status) ==
    /\ Reads(status)
    /\ ~Hit(status)
    /\ WaitFlag \in status
    /\ call.mayBlock
    /\ blocking' = TRUE
    /\ max_time_ms' = IF blocking THEN max_time_ms ELSE max_time_ms + Extension
    /\ UNCHANGED <<dummies, outcome>>

\* Mutant of UserGaveUp: one look at the wait flag is enough to give up.
UserGaveUpAtOnce(status) ==
    /\ Reads(status)
    /\ ~Hit(status)
    /\ blocking
    /\ outcome' = "ETIMEOUT"
    /\ UNCHANGED <<max_time_ms, blocking, dummies>>

\* The key stopped waiting for the user without giving an answer.
UserGaveUp(status) ==
    /\ Reads(status)
    /\ ~Hit(status)
    /\ WaitFlag \notin status
    /\ blocking
    /\ outcome' = "ETIMEOUT"
    /\ UNCHANGED <<max_time_ms, blocking, dummies>>

PollAgain(status) ==
    /\ Reads(status)
    /\ ~Hit(status)
    /\ WaitFlag \notin status
    /\ ~blocking
    /\ UNCHANGED <<max_time_ms, blocking, dummies, outcome>>

\* Mutant of TimeIsUp: the next sleep would overrun the limit.
TimeIsUpEarly ==
    /\ outcome = "waiting"
    /\ slept_time + sleepval >= max_time_ms
    /\ outcome' = "ETIMEOUT"
    /\ UNCHANGED <<call, slept_time, sleepval, max_time_ms, blocking,
                   last_data, dummies, seen>>

\* The loop condition fails.
TimeIsUp ==
    /\ outcome = "waiting"
    /\ slept_time >= max_time_ms
    /\ outcome' = "ETIMEOUT"
    /\ UNCHANGED <<call, slept_time, sleepval, max_time_ms, blocking,
                   last_data, dummies, seen>>

Turn(status) ==
    \/ ReadHits(status)
    \/ RefuseToBlock(status)
    \/ KeepBlocking(status)
    \/ UserGaveUp(status)
    \/ PollAgain(status)

Next ==
    \/ ReadFails
    \/ TimeIsUp
    \/ \E status \in SUBSET Flags : Turn(status)

Spec == Init /\ [][Next]_vars

\* Every sleep and every transfer of the loop ends, so the loop goes on.
FairSpec == Spec /\ WF_vars(Next)

-----------------------------------------------------------------------------

TypeOK ==
    /\ call \in Calls
    /\ slept_time \in Nat
    /\ sleepval \in 1 .. SleepCap
    /\ max_time_ms \in Nat
    /\ blocking \in BOOLEAN
    /\ last_data \in SUBSET Flags
    /\ dummies \in Nat
    /\ outcome \in Outcomes
    /\ seen \in SUBSET SUBSET Flags

\* The time a call may sleep is known beforehand: the caller's limit, raised
\* once and only for a caller who may block, and the last sleep may overrun
\* it, by less than the longest sleep.
SleepBounded ==
    /\ max_time_ms = call.max_time_ms + (IF blocking THEN Extension ELSE 0)
    /\ blocking => call.mayBlock
    /\ slept_time < max_time_ms + SleepCap

\* What the function returns is what the key said.  Success: the last byte
\* read passes the test, and last_data is that byte.  Failure: no byte read
\* passed it.  A timeout is reported only when the time is up or the key
\* stopped waiting for the user; EWOULDBLOCK only to a caller who may not
\* block, with the read mode of the key reset once, and by then the key had
\* not waited for the user before.
Truthful ==
    /\ outcome = "ok" => Hit(last_data)
    /\ outcome # "ok" => \A status \in seen : ~Hit(status)
    /\ outcome = "ETIMEOUT" =>
          \/ slept_time >= max_time_ms
          \/ blocking /\ WaitFlag \notin last_data
    /\ outcome = "EWOULDBLOCK" =>
          ~call.mayBlock /\ WaitFlag \in last_data
    /\ dummies = IF outcome = "EWOULDBLOCK" THEN 1 ELSE 0
    /\ ~call.mayBlock /\ outcome \in {"waiting", "ETIMEOUT"} =>
          \A status \in seen : WaitFlag \notin status

\* While the key waits for the user, a caller who may block is not sent away
\* before the whole extension has passed.
UserGetsTheExtension ==
    outcome = "ETIMEOUT" /\ call.mayBlock /\ WaitFlag \in last_data
        => slept_time >= call.max_time_ms + Extension

\* Whatever the key answers, the function returns.
Returns == <>(outcome # "waiting")

\* The caller's view of the loop.
Contract == INSTANCE WaitContract WITH
    Limits   <- {c.max_time_ms : c \in Calls},
    MaxPause <- SleepCap,
    spent    <- slept_time,
    limit    <- max_time_ms,
    raised   <- blocking,
    verdict  <- IF outcome = "waiting" THEN "none"
                ELSE IF outcome = "ok" THEN "yes" ELSE "no"

\* The loop implements the caller's view: it spends time in bounded portions,
\* raises its limit at most once and comes to a verdict.
ImplementsContract == Contract!FairSpec
=============================================================================
