--------------------------- MODULE KeyWaitProofs ---------------------------
(***************************************************************************)
(* For every set of calls, flags, sleep cap and extension: the time a call *)
(* may sleep is bounded, its verdict is what the key said, and the loop    *)
(* takes only steps its caller's view (WaitContract) allows.               *)
(***************************************************************************)
EXTENDS KeyWait, TLAPS

\* A caller who may block and has last seen the key waiting is in blocking
\* mode: what SleepBounded and Truthful lack to be inductive for
\* UserGetsTheExtension.
WaitSeen ==
    /\ outcome \in {"waiting", "ETIMEOUT"}
    /\ call.mayBlock
    /\ WaitFlag \in last_data
    => blocking

IInv == TypeOK /\ SleepBounded /\ Truthful /\ WaitSeen

LEMMA CallFields ==
    ASSUME TypeOK
    PROVE  /\ call.max_time_ms \in Nat
           /\ call.logic_and \in BOOLEAN
           /\ call.mask \in SUBSET Flags
           /\ call.mayBlock \in BOOLEAN
BY CallsAssumption DEF TypeOK, CallType

\* The sleep and the backoff of a turn keep their bounds.
LEMMA SleepStep ==
    ASSUME IInv, Sleeps
    PROVE  /\ slept_time' \in Nat
           /\ slept_time' > slept_time
           /\ slept_time' <= slept_time + SleepCap
           /\ slept_time' < max_time_ms + SleepCap
           /\ sleepval' \in 1 .. SleepCap
           /\ call' = call
           /\ outcome = "waiting"
BY SleepAssumption DEF IInv, TypeOK, Sleeps, Doubled

LEMMA InitInv == Init => IInv
<1> SUFFICES ASSUME Init PROVE IInv
  OBVIOUS
<1>1. call \in CallType
  BY CallsAssumption DEF Init
<1>2. TypeOK
  <2>1. max_time_ms \in Nat /\ sleepval \in 1 .. SleepCap
    BY <1>1, SleepAssumption DEF Init, CallType
  <2>2. outcome \in Outcomes /\ blocking \in BOOLEAN
    BY DEF Init, Outcomes
  <2>3. /\ call \in Calls
        /\ slept_time \in Nat
        /\ last_data \in SUBSET Flags
        /\ dummies \in Nat
        /\ seen \in SUBSET SUBSET Flags
    BY DEF Init
  <2>4. QED
    BY <2>1, <2>2, <2>3 DEF TypeOK
<1>3. SleepBounded
  BY <1>1, SleepAssumption DEF Init, SleepBounded, CallType
<1>4. Truthful
  BY DEF Init, Truthful
<1>5. WaitSeen
  BY DEF Init, WaitSeen
<1>6. QED
  BY <1>2, <1>3, <1>4, <1>5 DEF IInv

LEMMA TypeStep == IInv /\ [Next]_vars => TypeOK'
<1> SUFFICES ASSUME IInv, [Next]_vars PROVE TypeOK'
  OBVIOUS
<1> USE DEF IInv
<1>1. CASE ReadFails
  BY <1>1, SleepStep DEF ReadFails, TypeOK, Outcomes
<1>2. CASE TimeIsUp
  BY <1>2 DEF TimeIsUp, TypeOK, Outcomes
<1>3. ASSUME NEW status \in SUBSET Flags, Turn(status) PROVE TypeOK'
  <2>1. Sleeps /\ last_data' = status /\ seen' = seen \cup {status}
    BY <1>3 DEF Turn, ReadHits, RefuseToBlock, KeepBlocking, UserGaveUp,
                PollAgain, Reads
  <2>2. /\ call' \in Calls
        /\ slept_time' \in Nat
        /\ sleepval' \in 1 .. SleepCap
    BY <2>1, SleepStep DEF TypeOK
  <2>3. last_data' \in SUBSET Flags /\ seen' \in SUBSET SUBSET Flags
    BY <2>1 DEF TypeOK
  <2>4. max_time_ms' \in Nat /\ dummies' \in Nat
    <3>1. \/ max_time_ms' = max_time_ms
          \/ max_time_ms' = max_time_ms + Extension
      BY <1>3 DEF Turn, ReadHits, RefuseToBlock, KeepBlocking, UserGaveUp,
                  PollAgain
    <3>2. dummies' = dummies \/ dummies' = dummies + 1
      BY <1>3 DEF Turn, ReadHits, RefuseToBlock, KeepBlocking, UserGaveUp,
                  PollAgain
    <3>3. QED
      BY <3>1, <3>2, SleepAssumption DEF TypeOK
  <2>5. blocking' \in BOOLEAN /\ outcome' \in Outcomes
    <3>1. blocking' = blocking \/ blocking' = TRUE
      BY <1>3 DEF Turn, ReadHits, RefuseToBlock, KeepBlocking, UserGaveUp,
                  PollAgain
    <3>2. outcome' \in {outcome, "ok", "EWOULDBLOCK", "ETIMEOUT"}
      BY <1>3 DEF Turn, ReadHits, RefuseToBlock, KeepBlocking, UserGaveUp,
                  PollAgain
    <3>3. QED
      BY <3>1, <3>2 DEF TypeOK, Outcomes
  <2>6. QED
    BY <2>2, <2>3, <2>4, <2>5 DEF TypeOK
<1>4. CASE UNCHANGED vars
  BY <1>4 DEF vars, TypeOK
<1>5. QED
  BY <1>1, <1>2, <1>3, <1>4 DEF Next

LEMMA SleepBoundedStep == IInv /\ [Next]_vars => SleepBounded'
<1> SUFFICES ASSUME IInv, [Next]_vars PROVE SleepBounded'
  OBVIOUS
<1> USE DEF IInv
<1>1. CASE ReadFails
  BY <1>1, SleepStep DEF ReadFails, SleepBounded
<1>2. CASE TimeIsUp
  BY <1>2 DEF TimeIsUp, SleepBounded
<1>3. ASSUME NEW status \in SUBSET Flags, Turn(status) PROVE SleepBounded'
  <2>1. CASE KeepBlocking(status)
    BY <2>1, SleepStep, CallFields, SleepAssumption
       DEF KeepBlocking, Reads, SleepBounded, TypeOK
  <2>2. CASE \/ ReadHits(status)
             \/ RefuseToBlock(status)
             \/ UserGaveUp(status)
             \/ PollAgain(status)
    <3>1. Sleeps /\ UNCHANGED <<max_time_ms, blocking>>
      BY <2>2 DEF ReadHits, RefuseToBlock, UserGaveUp, PollAgain, Reads
    <3>2. QED
      BY <3>1, SleepStep DEF SleepBounded
  <2>3. QED
    BY <1>3, <2>1, <2>2 DEF Turn
<1>4. CASE UNCHANGED vars
  BY <1>4 DEF vars, SleepBounded
<1>5. QED
  BY <1>1, <1>2, <1>3, <1>4 DEF Next

LEMMA TruthfulStep == IInv /\ [Next]_vars => Truthful' /\ WaitSeen'
<1> SUFFICES ASSUME IInv, [Next]_vars PROVE Truthful' /\ WaitSeen'
  OBVIOUS
<1> USE DEF IInv
<1>1. CASE ReadFails
  BY <1>1, SleepStep DEF ReadFails, Truthful, WaitSeen, Hit
<1>2. CASE TimeIsUp
  BY <1>2 DEF TimeIsUp, Truthful, WaitSeen, Hit
<1>3. ASSUME NEW status \in SUBSET Flags, Turn(status)
      PROVE  Truthful' /\ WaitSeen'
  <2>1. /\ call' = call
        /\ outcome = "waiting"
        /\ last_data' = status
        /\ seen' = seen \cup {status}
        /\ dummies = 0
    BY <1>3, SleepStep DEF Turn, ReadHits, RefuseToBlock, KeepBlocking,
                UserGaveUp, PollAgain, Reads, Truthful
  <2>2. (\A s \in seen : ~Hit(s)) /\ (Hit(status))' = Hit(status)
        /\ (\A s \in seen : (Hit(s))' = Hit(s))
    BY <2>1 DEF Truthful, Hit
  <2>3. CASE ReadHits(status)
    BY <2>1, <2>2, <2>3 DEF ReadHits, Truthful, WaitSeen, Hit
  <2>4. CASE RefuseToBlock(status)
    BY <2>1, <2>2, <2>4 DEF RefuseToBlock, Truthful, WaitSeen, Hit
  <2>5. CASE KeepBlocking(status)
    BY <2>1, <2>2, <2>5 DEF KeepBlocking, Truthful, WaitSeen, Hit
  <2>6. CASE UserGaveUp(status)
    BY <2>1, <2>2, <2>6 DEF UserGaveUp, Truthful, WaitSeen, Hit, SleepBounded
  <2>7. CASE PollAgain(status)
    BY <2>1, <2>2, <2>7 DEF PollAgain, Truthful, WaitSeen, Hit
  <2>8. QED
    BY <1>3, <2>3, <2>4, <2>5, <2>6, <2>7 DEF Turn
<1>4. CASE UNCHANGED vars
  BY <1>4 DEF vars, Truthful, WaitSeen, Hit
<1>5. QED
  BY <1>1, <1>2, <1>3, <1>4 DEF Next

LEMMA InvStep == IInv /\ [Next]_vars => IInv'
BY TypeStep, SleepBoundedStep, TruthfulStep DEF IInv

LEMMA Invariance == Spec => []IInv
<1>1. Init => IInv
  BY InitInv
<1>2. IInv /\ [Next]_vars => IInv'
  BY InvStep
<1>3. QED
  BY <1>1, <1>2, PTL DEF Spec

\* Type correctness of the polling loop.
THEOREM TypeCorrect == Spec => []TypeOK
<1>1. IInv => TypeOK
  BY DEF IInv
<1>2. QED
  BY <1>1, Invariance, PTL

\* The time any call may sleep is bounded by its limit, raised at most once
\* and only for a caller who may block.
THEOREM SleepIsBounded == Spec => []SleepBounded
<1>1. IInv => SleepBounded
  BY DEF IInv
<1>2. QED
  BY <1>1, Invariance, PTL

\* The return value and yk_errno of yk_wait_for_key_status are what the key
\* said.
THEOREM VerdictIsTruthful == Spec => []Truthful
<1>1. IInv => Truthful
  BY DEF IInv
<1>2. QED
  BY <1>1, Invariance, PTL

\* A user who is being waited for gets the whole extension.
THEOREM ExtensionIsGranted == Spec => []UserGetsTheExtension
<1>1. IInv => UserGetsTheExtension
  BY CallFields, SleepAssumption
     DEF IInv, Truthful, SleepBounded, WaitSeen, UserGetsTheExtension
<1>2. QED
  BY <1>1, Invariance, PTL

\* Every behaviour of the loop is one its caller's view allows: time spent in
\* portions of at most SleepCap, one raise of the limit, one verdict.
THEOREM LoopRefinesContract == Spec => Contract!Spec
<1>1. Init => Contract!Init
  BY CallsAssumption DEF Init, Contract!Init, CallType
<1>2. IInv /\ [Next]_vars => [Contract!Next]_(Contract!vars)
  <2> SUFFICES ASSUME IInv, [Next]_vars
               PROVE  [Contract!Next]_(Contract!vars)
    OBVIOUS
  <2> DEFINE paused == \E d \in 1 .. SleepCap : slept_time' = slept_time + d
  <2>1. Sleeps => /\ paused
                  /\ outcome = "waiting"
                  /\ slept_time < max_time_ms
    BY DEF Sleeps, IInv, TypeOK
  <2>2. CASE ReadFails
    <3>1. Contract!Conclude
      BY <2>1, <2>2 DEF ReadFails, Contract!Conclude, Contract!Pause
    <3>2. QED
      BY <3>1 DEF Contract!Next
  <2>3. CASE TimeIsUp
    <3>1. Contract!Expire
      BY <2>3 DEF TimeIsUp, Contract!Expire
    <3>2. QED
      BY <3>1 DEF Contract!Next
  <2>4. ASSUME NEW status \in SUBSET Flags, Turn(status)
        PROVE  Contract!Next
    <3>1. Sleeps
      BY <2>4 DEF Turn, ReadHits, RefuseToBlock, KeepBlocking, UserGaveUp,
                  PollAgain, Reads
    <3>2. CASE ReadHits(status) \/ RefuseToBlock(status) \/ UserGaveUp(status)
      <4>1. Contract!Conclude
        BY <2>1, <3>1, <3>2 DEF ReadHits, RefuseToBlock, UserGaveUp,
                  Contract!Conclude, Contract!Pause
      <4>2. QED
        BY <4>1 DEF Contract!Next
    <3>3. CASE KeepBlocking(status)
      <4>1. Contract!GoOn
        BY <2>1, <3>1, <3>3 DEF KeepBlocking, IInv, TypeOK,
                  Contract!GoOn, Contract!Pause
      <4>2. QED
        BY <4>1 DEF Contract!Next
    <3>4. CASE PollAgain(status)
      <4>1. Contract!GoOn
        BY <2>1, <3>1, <3>4 DEF PollAgain, Contract!GoOn, Contract!Pause
      <4>2. QED
        BY <4>1 DEF Contract!Next
    <3>5. QED
      BY <2>4, <3>2, <3>3, <3>4 DEF Turn
  <2>5. CASE UNCHANGED vars
    BY <2>5 DEF vars, Contract!vars
  <2>6. QED
    BY <2>2, <2>3, <2>4, <2>5 DEF Next
<1>3. QED
  BY <1>1, <1>2, Invariance, PTL DEF Spec, Contract!Spec
=============================================================================
