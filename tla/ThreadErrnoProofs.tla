------------------------- MODULE ThreadErrnoProofs -------------------------
(***************************************************************************)
(* ThreadErrno for any number of threads, calls and failures, once the     *)
(* first call has returned before any other began: the address is NULL     *)
(* only to a thread whose pthread_setspecific failed in the same call, and *)
(* without failures each thread has an errno of its own.                   *)
(* Neither is inductive.  Both rest on the key being made once, by the     *)
(* first call (KeyIsMadeOnce), and on a thread's being in the place where  *)
(* the code uses its cell only if it has one (CellIsThere).                *)
(***************************************************************************)
EXTENDS ThreadErrno, TLAPS

PCs == {"idle", "test", "create", "mark", "get", "calloc", "set", "decide",
        "fetch", "use"}
Early == {"test", "create", "mark"}

\* What each thread's locals may be.
Locals == [pc : PCs, rc : {0, 1}, loc : Cells \cup {Nothread, Null},
           aim : Values \cup {Load}, unset : BOOLEAN]

Types ==
    /\ tsd_init \in {-1, 0, 1} /\ errno_key \in {0, 1} /\ keys = errno_key
    /\ specific \subseteq Cells
    /\ mem \in [Cells \cup {Nothread} -> Int]
    /\ thread \in [Threads -> Locals]
    /\ calls \in Nat /\ faults \in Nat
    /\ last \in [Threads -> Int]

\* The first call is alone, and the key is not made before it.
FirstIsAlone ==
    /\ calls = 0 => errno_key = 0 /\ \A t \in Threads : At(t, "idle")
    /\ calls = 1 => \A t, u \in Threads : At(t, "idle") \/ At(u, "idle") \/ t = u
NotMadeYet ==
    tsd_init = 0 => /\ specific = {} /\ calls \in {0, 1}
                    /\ calls = 1 => \E t \in Threads : thread[t].pc \in Early

\* A call is in its early part, behind the test, only while the key is not made.
StageOf(t) ==
    /\ At(t, "test") /\ tsd_init = 0 => errno_key = 0
    /\ At(t, "create") => tsd_init = 0 /\ errno_key = 0
    /\ At(t, "mark") => tsd_init = 0 /\ (thread[t].rc = 1 => faults > 0)
    /\ thread[t].pc \notin Early \cup {"idle"} => tsd_init # 0
GivenUp == tsd_init = -1 => faults > 0

KeyIsMadeOnce ==
    FirstIsAlone /\ NotMadeYet /\ (\A t \in Threads : StageOf(t)) /\ GivenUp

\* Where thread t has, or lacks, a cell under the one key, or could not set it.
CellIsThere(t) ==
    /\ thread[t].pc \in {"calloc", "set"} => <<t, errno_key>> \notin specific
    /\ At(t, "decide") => \/ <<t, errno_key>> \in specific \/ tsd_init = -1
                          \/ thread[t].unset
    /\ At(t, "fetch") => <<t, errno_key>> \in specific \/ thread[t].unset
    /\ At(t, "use") => \/ thread[t].loc = <<t, errno_key>> /\ <<t, errno_key>> \in specific
                       \/ thread[t].loc = Nothread /\ tsd_init = -1
                       \/ thread[t].loc = Null /\ thread[t].unset

\* As long as nothing failed a cell holds what its thread stored last.
CellIsOwn(t) ==
    faults = 0 => IF <<t, errno_key>> \in specific THEN mem[<<t, errno_key>>] = last[t]
                  ELSE last[t] = 0

IInv == Types /\ KeyIsMadeOnce /\ \A t \in Threads : CellIsThere(t) /\ CellIsOwn(t)

LEMMA Addresses ==
    \A t \in Threads, k \in {0, 1} :
        /\ <<t, k>> \in Cells /\ <<t, k>> # Null /\ <<t, k>> # Nothread
BY ThreadsAssumption, BoundsAssumption DEF Cells, Keys

LEMMA Moves ==
    ASSUME thread \in [Threads -> Locals], NEW t \in Threads, NEW l \in Locals,
           Becomes(t, l)
    PROVE  /\ thread' \in [Threads -> Locals] /\ thread'[t] = l
           /\ \A u \in Threads \ {t} : thread'[u] = thread[u]
BY DEF Becomes

-----------------------------------------------------------------------------
(* The first state, and each step.                                         *)

LEMMA InitIInv == Init => IInv
<1> SUFFICES ASSUME Init PROVE IInv
  OBVIOUS
<1>1. Types
  <2>1. thread \in [Threads -> Locals]
    BY DEF Init, Idle, Locals, PCs
  <2>2. mem \in [Cells \cup {Nothread} -> Int] /\ last \in [Threads -> Int]
    BY DEF Init
  <2> QED
    BY <2>1, <2>2 DEF Init, Types
<1>2. KeyIsMadeOnce
  BY DEF Init, KeyIsMadeOnce, FirstIsAlone, NotMadeYet, StageOf, GivenUp, At, Idle, Early
<1>3. \A t \in Threads : CellIsThere(t) /\ CellIsOwn(t)
  BY DEF Init, CellIsThere, CellIsOwn, At, Idle
<1> QED
  BY <1>1, <1>2, <1>3 DEF IInv

\* As long as the key is not marked as made, whoever makes a call is alone.
LEMMA Alone ==
    ASSUME Types, KeyIsMadeOnce, NEW t \in Threads, tsd_init = 0, ~At(t, "idle")
    PROVE  calls = 1 /\ specific = {} /\ \A u \in Threads \ {t} : At(u, "idle")
BY DEF KeyIsMadeOnce, FirstIsAlone, NotMadeYet

\* t makes a step behind the early part, which may give up but nothing else.
Later(t) ==
    /\ thread[t].pc \notin Early \cup {"idle"} /\ thread'[t].pc \notin Early
    /\ \A u \in Threads \ {t} : thread'[u] = thread[u]
    /\ UNCHANGED <<calls, errno_key>>
    /\ \/ UNCHANGED <<tsd_init, faults>>
       \/ tsd_init' \in {tsd_init, -1} /\ faults' > 0

LEMMA LaterStep ==
    ASSUME Types, KeyIsMadeOnce, NEW t \in Threads, Later(t)
    PROVE  KeyIsMadeOnce'
<1> USE DEF Later
<1>1. tsd_init # 0 /\ tsd_init' # 0 /\ GivenUp'
  BY DEF Types, KeyIsMadeOnce, StageOf, GivenUp
<1>2. FirstIsAlone' /\ NotMadeYet'
  BY <1>1 DEF KeyIsMadeOnce, FirstIsAlone, NotMadeYet, At
<1>3. ASSUME NEW u \in Threads PROVE StageOf(u)'
  <2>1. CASE u = t
    BY <2>1, <1>1 DEF StageOf, At, Early
  <2>2. CASE u # t
    BY <2>2, <1>1 DEF KeyIsMadeOnce, StageOf, At, Early
  <2> QED
    BY <2>1, <2>2
<1> QED
  BY <1>1, <1>2, <1>3 DEF KeyIsMadeOnce

LEMMA CallStep ==
    ASSUME IInv, Warm, NEW t \in Threads, NEW aim \in Values \cup {Load}, Call(t, aim)
    PROVE  IInv'
<1> USE BoundsAssumption
<1> DEFINE l == [thread[t] EXCEPT !.pc = "test", !.aim = aim, !.unset = FALSE]
<1>1. Types /\ KeyIsMadeOnce /\ \A u \in Threads : CellIsThere(u) /\ CellIsOwn(u)
  BY DEF IInv
<1>2. thread[t] \in Locals /\ l \in Locals
  BY <1>1 DEF Types, Locals, PCs
<1>3. /\ thread' \in [Threads -> Locals] /\ thread'[t] = l
      /\ \A u \in Threads \ {t} : thread'[u] = thread[u]
  BY <1>1, <1>2, Moves DEF Types, Call, Goes
<1>4. Types'
  BY <1>1, <1>3 DEF Types, Call, statics
<1>5. KeyIsMadeOnce'
  <2>1. thread'[t].pc = "test" /\ thread'[t].rc = thread[t].rc
    BY <1>2, <1>3 DEF Locals
  <2>2. FirstIsAlone'
    BY <1>1, <1>3, <2>1 DEF Types, KeyIsMadeOnce, FirstIsAlone, At, Call
  <2>3. tsd_init = 0 => calls = 0 /\ errno_key = 0 /\ specific = {}
    BY <1>1 DEF KeyIsMadeOnce, FirstIsAlone, NotMadeYet, Early, At, Call
  <2>4. NotMadeYet'
    BY <2>1, <2>3 DEF NotMadeYet, Early, Call, statics
  <2>5. ASSUME NEW u \in Threads PROVE StageOf(u)'
    <3>1. CASE u = t
      BY <1>1, <1>3, <2>1, <2>3, <3>1
      DEF KeyIsMadeOnce, StageOf, Early, At, Call, statics
    <3>2. CASE u # t
      BY <1>1, <1>3, <3>2 DEF KeyIsMadeOnce, StageOf, Early, At, Call, statics
    <3> QED
      BY <3>1, <3>2
  <2>6. GivenUp'
    BY <1>1, <1>3, <2>1 DEF KeyIsMadeOnce, GivenUp, Call, statics
  <2> QED
    BY <2>2, <2>4, <2>5, <2>6 DEF KeyIsMadeOnce
<1>6. ASSUME NEW u \in Threads PROVE (CellIsThere(u) /\ CellIsOwn(u))'
  <2>1. thread'[t].pc = "test"
    BY <1>2, <1>3 DEF Locals
  <2>2. CASE u = t
    BY <1>1, <2>1, <2>2 DEF At, CellIsThere, CellIsOwn, Call, statics
  <2>3. CASE u # t
    BY <1>1, <1>3, <2>3 DEF At, CellIsThere, CellIsOwn, Call, statics
  <2> QED
    BY <2>2, <2>3
<1> QED
  BY <1>4, <1>5, <1>6 DEF IInv

LEMMA TestInitStep ==
    ASSUME IInv, Warm, NEW t \in Threads, TestInit(t)
    PROVE  IInv'
<1> USE BoundsAssumption
<1> DEFINE l == [thread[t] EXCEPT !.pc = IF tsd_init = 0 THEN "create" ELSE "get"]
<1>1. Types /\ KeyIsMadeOnce /\ \A u \in Threads : CellIsThere(u) /\ CellIsOwn(u)
  BY DEF IInv
<1>2. thread[t] \in Locals /\ l \in Locals
  BY <1>1 DEF Types, Locals, PCs
<1>3. /\ thread' \in [Threads -> Locals] /\ thread'[t] = l
      /\ \A u \in Threads \ {t} : thread'[u] = thread[u]
  BY <1>1, <1>2, Moves DEF Types, TestInit, Goes
<1>4. Types'
  BY <1>1, <1>3 DEF Types, TestInit, statics
<1>5. KeyIsMadeOnce'
  <2>1. tsd_init = 0 => /\ calls = 1 /\ specific = {}
                        /\ \A u \in Threads \ {t} : At(u, "idle")
    BY <1>1, Alone DEF TestInit, At
  <2>2. /\ thread'[t].pc = IF tsd_init = 0 THEN "create" ELSE "get"
        /\ thread'[t].rc = thread[t].rc
    BY <1>2, <1>3 DEF Locals
  <2>3. FirstIsAlone'
    BY <1>1, <1>3, <2>1, <2>2
    DEF KeyIsMadeOnce, FirstIsAlone, At, TestInit, statics
  <2>4. NotMadeYet'
    BY <1>1, <1>3, <2>1, <2>2
    DEF KeyIsMadeOnce, NotMadeYet, Early, At, TestInit, statics
  <2>5. ASSUME NEW u \in Threads PROVE StageOf(u)'
    <3>1. CASE u = t
      BY <1>1, <1>3, <2>1, <2>2, <3>1
      DEF KeyIsMadeOnce, StageOf, Early, At, TestInit, statics
    <3>2. CASE u # t
      BY <1>1, <1>3, <2>1, <3>2
      DEF KeyIsMadeOnce, StageOf, Early, At, TestInit, statics
    <3> QED
      BY <3>1, <3>2
  <2>6. GivenUp'
    BY <1>1, <1>3, <2>1, <2>2 DEF KeyIsMadeOnce, GivenUp, TestInit, statics
  <2> QED
    BY <2>3, <2>4, <2>5, <2>6 DEF KeyIsMadeOnce
<1>6. ASSUME NEW u \in Threads PROVE (CellIsThere(u) /\ CellIsOwn(u))'
  BY <1>1, <1>2, <1>3
  DEF Locals, At, CellIsThere, CellIsOwn, TestInit, statics
<1> QED
  BY <1>4, <1>5, <1>6 DEF IInv

LEMMA MarkInitStep ==
    ASSUME IInv, Warm, NEW t \in Threads, MarkInit(t)
    PROVE  IInv'
<1> USE BoundsAssumption
<1> DEFINE l == [thread[t] EXCEPT !.pc = "get"]
<1>1. Types /\ KeyIsMadeOnce /\ \A u \in Threads : CellIsThere(u) /\ CellIsOwn(u)
  BY DEF IInv
<1>2. thread[t] \in Locals /\ l \in Locals
  BY <1>1 DEF Types, Locals, PCs
<1>3. /\ thread' \in [Threads -> Locals] /\ thread'[t] = l
      /\ \A u \in Threads \ {t} : thread'[u] = thread[u]
  BY <1>1, <1>2, Moves DEF Types, MarkInit, Goes
<1>4. Types'
  BY <1>1, <1>3 DEF Types, MarkInit, statics
<1>5. KeyIsMadeOnce'
  <2>1. tsd_init = 0 => /\ calls = 1 /\ specific = {}
                        /\ \A u \in Threads \ {t} : At(u, "idle")
    BY <1>1, Alone DEF MarkInit, At
  <2>2. /\ thread'[t].pc = "get" /\ thread'[t].rc = thread[t].rc
        /\ thread[t].rc \in {0, 1}
    BY <1>2, <1>3 DEF Locals
  <2>3. tsd_init' # 0
    BY DEF MarkInit
  <2>4. FirstIsAlone'
    BY <1>1, <1>3, <2>1, <2>2
    DEF KeyIsMadeOnce, FirstIsAlone, At, MarkInit, statics
  <2>5. NotMadeYet'
    BY <1>1, <1>3, <2>1, <2>2
    DEF KeyIsMadeOnce, NotMadeYet, Early, At, MarkInit, statics
  <2>6. ASSUME NEW u \in Threads PROVE StageOf(u)'
    <3>1. CASE u = t
      BY <2>2, <2>3, <3>1 DEF StageOf, Early, At
    <3>2. CASE u # t
      BY <1>1, <1>3, <2>1, <3>2
      DEF KeyIsMadeOnce, StageOf, Early, At, MarkInit, statics
    <3> QED
      BY <3>1, <3>2
  <2>7. GivenUp'
    BY <1>1, <2>2 DEF KeyIsMadeOnce, StageOf, GivenUp, At, MarkInit, statics
  <2> QED
    BY <2>4, <2>5, <2>6, <2>7 DEF KeyIsMadeOnce
<1>6. ASSUME NEW u \in Threads PROVE (CellIsThere(u) /\ CellIsOwn(u))'
  BY <1>1, <1>2, <1>3
  DEF KeyIsMadeOnce, StageOf, Locals, At, CellIsThere, CellIsOwn, MarkInit, statics
<1> QED
  BY <1>4, <1>5, <1>6 DEF IInv

LEMMA GetCellStep ==
    ASSUME IInv, NEW t \in Threads, GetCell(t)
    PROVE  IInv'
<1> USE BoundsAssumption, ThreadsAssumption
<1>1. Types /\ KeyIsMadeOnce /\ \A u \in Threads : CellIsThere(u) /\ CellIsOwn(u)
  BY DEF IInv
<1> DEFINE cell == <<t, errno_key>>
<1>2. cell \in Cells /\ cell # Null /\ cell # Nothread
  BY <1>1, Addresses DEF Types
<1>3. Specific(t) = IF cell \in specific THEN cell ELSE Null
  BY DEF Specific
<1> DEFINE l == [thread[t] EXCEPT !.pc = IF cell \in specific THEN "decide" ELSE "calloc"]
<1>4. thread[t] \in Locals /\ l \in Locals
  BY <1>1, <1>2 DEF Types, Locals, PCs
<1>5. /\ thread' \in [Threads -> Locals] /\ thread'[t] = l
      /\ \A u \in Threads \ {t} : thread'[u] = thread[u]
  BY <1>1, <1>4, <1>2, <1>3, Moves DEF Types, GetCell, Goes
<1>6. Types'
  BY <1>1, <1>2, <1>4, <1>5 DEF Types, Locals, GetCell, statics
<1>7. KeyIsMadeOnce'
  <2>1. thread[t].pc \notin Early \cup {"idle"} /\ thread'[t].pc \notin Early
    BY <1>5 DEF At, Early, GetCell
  <2>2. Later(t)
    BY <1>5, <2>1 DEF Later, GetCell, statics
  <2> QED
    BY <1>1, <2>2, LaterStep
<1>8. (CellIsThere(t) /\ CellIsOwn(t))'
  BY <1>1, <1>2, <1>4, <1>5
  DEF Types, At, CellIsThere, CellIsOwn, GetCell, statics
<1>9. ASSUME NEW u \in Threads \ {t} PROVE (CellIsThere(u) /\ CellIsOwn(u))'
  BY <1>1, <1>2, <1>5, Addresses
  DEF Types, At, CellIsThere, CellIsOwn, GetCell, statics
<1> QED
  BY <1>6, <1>7, <1>8, <1>9 DEF IInv

LEMMA SetCellStep ==
    ASSUME IInv, NEW t \in Threads, SetCell(t)
    PROVE  IInv'
<1> USE BoundsAssumption, ThreadsAssumption
<1>1. Types /\ KeyIsMadeOnce /\ \A u \in Threads : CellIsThere(u) /\ CellIsOwn(u)
  BY DEF IInv
<1> DEFINE cell == <<t, errno_key>>
<1>2. cell \in Cells /\ cell # Null /\ cell # Nothread
  BY <1>1, Addresses DEF Types
<1>3. PICK unset \in BOOLEAN :
        /\ Becomes(t, [thread[t] EXCEPT !.pc = "decide", !.unset = unset])
        /\ \/ /\ specific' = specific \cup {cell} /\ mem' = [mem EXCEPT ![cell] = 0]
              /\ UNCHANGED faults
           \/ unset /\ UNCHANGED <<specific, mem>>
        /\ \/ UNCHANGED faults
           \/ faults' \in Nat /\ faults' > 0
  <2>1. CASE specific' = specific \cup {cell} /\ Goes(t, "decide")
             /\ mem' = [mem EXCEPT ![cell] = 0] /\ UNCHANGED faults
    <3>1. thread[t].unset \in BOOLEAN
      BY <1>1 DEF Types, Locals
    <3>2. [thread[t] EXCEPT !.pc = "decide"]
            = [thread[t] EXCEPT !.pc = "decide", !.unset = thread[t].unset]
      BY <1>1 DEF Types, Locals
    <3> QED
      BY <2>1, <3>1, <3>2 DEF Goes
  <2>2. CASE /\ Fault \/ UNCHANGED faults
             /\ Becomes(t, [thread[t] EXCEPT !.pc = "decide", !.unset = TRUE])
             /\ UNCHANGED <<specific, mem>>
    <3>1. \/ UNCHANGED faults
          \/ faults' \in Nat /\ faults' > 0
      BY <1>1, <2>2 DEF Types, Fault
    <3> QED
      BY <2>2, <3>1
  <2> QED
    BY <2>1, <2>2 DEF SetCell
<1> DEFINE l == [thread[t] EXCEPT !.pc = "decide", !.unset = unset]
<1>4. thread[t] \in Locals /\ l \in Locals
  BY <1>1 DEF Types, Locals, PCs
<1>5. /\ thread' \in [Threads -> Locals] /\ thread'[t] = l
      /\ \A u \in Threads \ {t} : thread'[u] = thread[u]
  BY <1>1, <1>3, <1>4, Moves DEF Types
<1>6. thread'[t].pc = "decide" /\ thread'[t].unset = unset
  BY <1>4, <1>5 DEF Locals
<1>7. Types'
  <2>1. specific' \subseteq Cells /\ mem' \in [Cells \cup {Nothread} -> Int]
    BY <1>1, <1>2, <1>3 DEF Types
  <2>2. faults' \in Nat
    BY <1>1, <1>3 DEF Types
  <2> QED
    BY <1>1, <1>5, <2>1, <2>2 DEF Types, SetCell, statics
<1>8. KeyIsMadeOnce'
  <2>1. thread[t].pc \notin Early \cup {"idle"} /\ thread'[t].pc \notin Early
    BY <1>6 DEF At, Early, SetCell
  <2>2. Later(t)
    BY <1>3, <1>5, <2>1 DEF Later, SetCell, statics
  <2> QED
    BY <1>1, <2>2, LaterStep
<1>9. (CellIsThere(t) /\ CellIsOwn(t))'
  <2>1. CellIsThere(t)'
    BY <1>3, <1>6 DEF At, CellIsThere, SetCell, statics
  <2>2. cell \notin specific /\ errno_key' = errno_key /\ last' = last
    BY <1>1 DEF CellIsThere, At, SetCell, statics
  <2>3. faults' = 0 => faults = 0
    BY <1>1, <1>3 DEF Types
  <2>4. cell \in specific' => mem'[cell] = 0
    BY <1>1, <1>2, <1>3, <2>2 DEF Types
  <2>5. CellIsOwn(t)'
    BY <1>1, <2>2, <2>3, <2>4 DEF CellIsOwn
  <2> QED
    BY <2>1, <2>5
<1>10. ASSUME NEW u \in Threads \ {t} PROVE (CellIsThere(u) /\ CellIsOwn(u))'
  <2> DEFINE other == <<u, errno_key>>
  <2>1. other \in Cells /\ other # cell
    BY <1>1, Addresses DEF Types
  <2>2. (other \in specific' <=> other \in specific) /\ mem'[other] = mem[other]
    BY <1>1, <1>2, <1>3, <2>1 DEF Types
  <2>3. faults' = 0 => faults = 0
    BY <1>1, <1>3 DEF Types
  <2>4. errno_key' = errno_key /\ last' = last /\ tsd_init' = tsd_init
        /\ thread'[u] = thread[u]
    BY <1>5 DEF SetCell, statics
  <2> HIDE DEF other
  <2>5. CellIsThere(u)'
    BY <1>1, <2>2, <2>4 DEF CellIsThere, At, other
  <2>6. CellIsOwn(u)'
    BY <1>1, <2>2, <2>3, <2>4 DEF CellIsOwn, other
  <2> QED
    BY <2>5, <2>6
<1> QED
  BY <1>7, <1>8, <1>9, <1>10 DEF IInv

LEMMA DecideStep ==
    ASSUME IInv, NEW t \in Threads, Decide(t)
    PROVE  IInv'
<1> USE BoundsAssumption, ThreadsAssumption
<1>1. Types /\ KeyIsMadeOnce /\ \A u \in Threads : CellIsThere(u) /\ CellIsOwn(u)
  BY DEF IInv
<1> DEFINE cell == <<t, errno_key>>
<1>2. cell \in Cells /\ cell # Null /\ cell # Nothread
  BY <1>1, Addresses DEF Types
<1> DEFINE l == IF tsd_init = 1 THEN [thread[t] EXCEPT !.pc = "fetch"]
                ELSE [thread[t] EXCEPT !.pc = "use", !.loc = Nothread]
<1>3. thread[t] \in Locals /\ l \in Locals
  BY <1>1, <1>2 DEF Types, Locals, PCs
<1>4. /\ thread' \in [Threads -> Locals] /\ thread'[t] = l
      /\ \A u \in Threads \ {t} : thread'[u] = thread[u]
  BY <1>1, <1>3, Moves DEF Types, Decide, Goes
<1>5. Types'
  BY <1>1, <1>2, <1>3, <1>4 DEF Types, Locals, Decide, statics
<1>6. KeyIsMadeOnce'
  <2>1. thread[t].pc \notin Early \cup {"idle"} /\ thread'[t].pc \notin Early
    BY <1>4 DEF At, Early, Decide
  <2>2. Later(t)
    BY <1>4, <2>1 DEF Later, Decide, statics
  <2> QED
    BY <1>1, <2>2, LaterStep
<1>7. (CellIsThere(t) /\ CellIsOwn(t))'
  BY <1>1, <1>2, <1>3, <1>4
  DEF Types, KeyIsMadeOnce, StageOf, Early, At, CellIsThere, CellIsOwn, Decide,
      statics
<1>8. ASSUME NEW u \in Threads \ {t} PROVE (CellIsThere(u) /\ CellIsOwn(u))'
  BY <1>1, <1>2, <1>4, Addresses
  DEF Types, At, CellIsThere, CellIsOwn, Decide, statics
<1> QED
  BY <1>5, <1>6, <1>7, <1>8 DEF IInv

LEMMA FetchStep ==
    ASSUME IInv, NEW t \in Threads, Fetch(t)
    PROVE  IInv'
<1> USE BoundsAssumption, ThreadsAssumption
<1>1. Types /\ KeyIsMadeOnce /\ \A u \in Threads : CellIsThere(u) /\ CellIsOwn(u)
  BY DEF IInv
<1> DEFINE cell == <<t, errno_key>>
<1>2. cell \in Cells /\ cell # Null /\ cell # Nothread
  BY <1>1, Addresses DEF Types
<1>3. Specific(t) = IF cell \in specific THEN cell ELSE Null
  BY DEF Specific
<1>4. cell \in specific \/ thread[t].unset
  BY <1>1 DEF Fetch, CellIsThere, At
<1> DEFINE l == [thread[t] EXCEPT !.pc = "use",
                                  !.loc = IF cell \in specific THEN cell ELSE Null]
<1>5. thread[t] \in Locals /\ l \in Locals
  BY <1>1, <1>2 DEF Types, Locals, PCs
<1>6. /\ thread' \in [Threads -> Locals] /\ thread'[t] = l
      /\ \A u \in Threads \ {t} : thread'[u] = thread[u]
  BY <1>1, <1>5, <1>3, Moves DEF Types, Fetch
<1>7. Types'
  BY <1>1, <1>2, <1>5, <1>6 DEF Types, Locals, Fetch, statics
<1>8. KeyIsMadeOnce'
  <2>1. thread[t].pc \notin Early \cup {"idle"} /\ thread'[t].pc \notin Early
    BY <1>6 DEF At, Early, Fetch
  <2>2. Later(t)
    BY <1>6, <2>1 DEF Later, Fetch, statics
  <2> QED
    BY <1>1, <2>2, LaterStep
<1>9. (CellIsThere(t) /\ CellIsOwn(t))'
  <2>1. /\ thread'[t].pc = "use" /\ thread'[t].unset = thread[t].unset
        /\ thread'[t].loc = IF cell \in specific THEN cell ELSE Null
    BY <1>5, <1>6 DEF Locals
  <2>2. CellIsThere(t)'
    BY <1>4, <2>1 DEF At, CellIsThere, Fetch, statics
  <2>3. CellIsOwn(t)'
    BY <1>1 DEF CellIsOwn, Fetch, statics
  <2> QED
    BY <2>2, <2>3
<1>10. ASSUME NEW u \in Threads \ {t} PROVE (CellIsThere(u) /\ CellIsOwn(u))'
  BY <1>1, <1>2, <1>6, Addresses
  DEF Types, At, CellIsThere, CellIsOwn, Fetch, statics
<1> QED
  BY <1>7, <1>8, <1>9, <1>10 DEF IInv

LEMMA UseStep ==
    ASSUME IInv, NEW t \in Threads, Use(t)
    PROVE  IInv'
<1> USE BoundsAssumption, ThreadsAssumption
<1>1. Types /\ KeyIsMadeOnce /\ \A u \in Threads : CellIsThere(u) /\ CellIsOwn(u)
  BY DEF IInv
<1> DEFINE cell == <<t, errno_key>>
<1>2. cell \in Cells /\ cell # Null /\ cell # Nothread
  BY <1>1, Addresses DEF Types
<1> DEFINE l == [thread[t] EXCEPT !.pc = "idle"]
<1>3. thread[t] \in Locals /\ l \in Locals
  BY <1>1, <1>2 DEF Types, Locals, PCs
<1>4. /\ thread' \in [Threads -> Locals] /\ thread'[t] = l
      /\ \A u \in Threads \ {t} : thread'[u] = thread[u]
  BY <1>1, <1>3, Moves DEF Types, Use, Goes
<1>5. Types'
  BY <1>1, <1>2, <1>3, <1>4 DEF Types, Locals, Use, statics
<1>6. KeyIsMadeOnce'
  <2>1. thread[t].pc \notin Early \cup {"idle"} /\ thread'[t].pc \notin Early
    BY <1>4 DEF At, Early, Use
  <2>2. Later(t)
    BY <1>4, <2>1 DEF Later, Use, statics
  <2> QED
    BY <1>1, <2>2, LaterStep
<1>7. (CellIsThere(t) /\ CellIsOwn(t))'
  BY <1>1, <1>2, <1>3, <1>4
  DEF Types, KeyIsMadeOnce, GivenUp, At, CellIsThere, CellIsOwn, Use, statics
<1>8. ASSUME NEW u \in Threads \ {t} PROVE (CellIsThere(u) /\ CellIsOwn(u))'
  BY <1>1, <1>2, <1>4, Addresses
  DEF Types, At, CellIsThere, CellIsOwn, Use, statics
<1> QED
  BY <1>5, <1>6, <1>7, <1>8 DEF IInv

LEMMA CreateKeyStep ==
    ASSUME IInv, Warm, NEW t \in Threads, CreateKey(t)
    PROVE  IInv'
<1> USE BoundsAssumption
<1>1. Types /\ KeyIsMadeOnce /\ \A u \in Threads : CellIsThere(u) /\ CellIsOwn(u)
  BY DEF IInv
<1>2. /\ tsd_init = 0 /\ errno_key = 0 /\ calls = 1 /\ specific = {}
      /\ \A u \in Threads \ {t} : At(u, "idle")
  BY <1>1, Alone DEF KeyIsMadeOnce, StageOf, CreateKey, At
<1>3. PICK rc \in {0, 1} :
        /\ Becomes(t, [thread[t] EXCEPT !.pc = "mark", !.rc = rc])
        /\ errno_key' \in {0, 1} /\ keys' = errno_key'
        /\ faults' \in Nat /\ (rc = 1 => faults' > 0) /\ (rc = 0 => faults' = faults)
        /\ (faults' = 0 => faults = 0)
  BY <1>1, <1>2 DEF Types, CreateKey, Fault
<1> DEFINE l == [thread[t] EXCEPT !.pc = "mark", !.rc = rc]
<1>4. thread[t] \in Locals /\ l \in Locals
  BY <1>1 DEF Types, Locals, PCs
<1>5. /\ thread' \in [Threads -> Locals] /\ thread'[t] = l
      /\ \A u \in Threads \ {t} : thread'[u] = thread[u]
  BY <1>1, <1>3, <1>4, Moves DEF Types
<1>6. Types'
  BY <1>1, <1>3, <1>5 DEF Types, CreateKey
<1>7. thread'[t].pc = "mark" /\ thread'[t].rc = rc
  BY <1>4, <1>5 DEF Locals
<1>8. KeyIsMadeOnce'
  <2>1. calls' = 1 /\ tsd_init' = 0 /\ specific' = {} /\ ~At(t, "idle")'
        /\ \A u \in Threads \ {t} : At(u, "idle")'
    BY <1>2, <1>5, <1>7 DEF CreateKey, At
  <2>2. FirstIsAlone' /\ NotMadeYet' /\ GivenUp'
    BY <1>7, <2>1 DEF FirstIsAlone, NotMadeYet, GivenUp, Early
  <2>3. ASSUME NEW u \in Threads PROVE StageOf(u)'
    <3>1. CASE u = t
      BY <1>2, <1>3, <1>7, <3>1 DEF StageOf, Early, At, CreateKey
    <3>2. CASE u # t
      BY <1>2, <1>5, <3>2 DEF StageOf, At
    <3> QED
      BY <3>1, <3>2
  <2> QED
    BY <2>2, <2>3 DEF KeyIsMadeOnce
<1>9. ASSUME NEW u \in Threads PROVE (CellIsThere(u) /\ CellIsOwn(u))'
  BY <1>1, <1>2, <1>3, <1>5, <1>7 DEF CellIsThere, CellIsOwn, At, CreateKey
<1> QED
  BY <1>6, <1>8, <1>9 DEF IInv

LEMMA CallocStep ==
    ASSUME IInv, NEW t \in Threads, Calloc(t)
    PROVE  IInv'
<1> USE BoundsAssumption
<1>1. Types /\ KeyIsMadeOnce /\ \A u \in Threads : CellIsThere(u) /\ CellIsOwn(u)
  BY DEF IInv
<1>2. PICK pc \in {"set", "decide"} :
        /\ Becomes(t, [thread[t] EXCEPT !.pc = pc])
        /\ \/ pc = "set" /\ UNCHANGED <<tsd_init, faults>>
           \/ pc = "decide" /\ tsd_init' = -1 /\ faults' \in Nat /\ faults' > 0
  BY <1>1 DEF Types, Calloc, Goes, Fault
<1> DEFINE l == [thread[t] EXCEPT !.pc = pc]
<1>3. thread[t] \in Locals /\ l \in Locals
  BY <1>1 DEF Types, Locals, PCs
<1>4. /\ thread' \in [Threads -> Locals] /\ thread'[t] = l
      /\ \A u \in Threads \ {t} : thread'[u] = thread[u]
  BY <1>1, <1>2, <1>3, Moves DEF Types
<1>5. thread'[t].pc = pc
  BY <1>3, <1>4 DEF Locals
<1>6. Types'
  BY <1>1, <1>2, <1>4 DEF Types, Calloc
<1>7. KeyIsMadeOnce'
  <2>1. Later(t)
    BY <1>2, <1>4, <1>5 DEF Later, Early, At, Calloc
  <2> QED
    BY <1>1, <2>1, LaterStep
<1>8. (CellIsThere(t) /\ CellIsOwn(t))'
  BY <1>1, <1>2, <1>5 DEF CellIsThere, CellIsOwn, At, Calloc
<1>9. ASSUME NEW u \in Threads \ {t} PROVE (CellIsThere(u) /\ CellIsOwn(u))'
  BY <1>1, <1>2, <1>4 DEF CellIsThere, CellIsOwn, At, Calloc
<1> QED
  BY <1>6, <1>7, <1>8, <1>9 DEF IInv

-----------------------------------------------------------------------------
(* The theorems.                                                           *)

LEMMA StepIInv == ASSUME Warm, IInv, [Next]_vars PROVE IInv'
<1>1. CASE UNCHANGED vars
  BY <1>1
   DEF vars, statics, IInv, Types, KeyIsMadeOnce, FirstIsAlone, NotMadeYet,
              StageOf, GivenUp, CellIsThere, CellIsOwn, At
<1>2. ASSUME NEW t \in Threads, NEW aim \in Values \cup {Load}, Call(t, aim)
      PROVE  IInv'
  BY <1>2, CallStep
<1>3. ASSUME NEW t \in Threads,
             \/ TestInit(t) \/ CreateKey(t) \/ MarkInit(t) \/ GetCell(t) \/ Calloc(t)
             \/ SetCell(t) \/ Decide(t) \/ Fetch(t) \/ Use(t)
      PROVE  IInv'
  BY <1>3, TestInitStep, CreateKeyStep, MarkInitStep, GetCellStep, CallocStep,
     SetCellStep, DecideStep, FetchStep, UseStep
<1> QED
  BY <1>1, <1>2, <1>3 DEF Next

\* Once one call of _yk_errno_location has returned, a later call returns NULL
\* only to a thread whose pthread_setspecific failed in that call, whatever else
\* runs out and whatever the other threads do.
THEOREM AddressIsUsable == ASSUME Warm PROVE Spec => []NullOnlyIfUnset
<1>1. IInv => NullOnlyIfUnset
  <2> SUFFICES ASSUME IInv, NEW t \in Threads, At(t, "use"), thread[t].loc = Null
               PROVE  thread[t].unset
    BY DEF NullOnlyIfUnset
  <2>1. <<t, errno_key>> # Null
    BY Addresses DEF IInv, Types
  <2> QED
    BY <2>1, ThreadsAssumption DEF IInv, CellIsThere
<1> QED
  BY <1>1, InitIInv, StepIInv, PTL DEF Spec

\* Without failures each thread loads the error that it stored last, whatever the
\* other threads store.
THEOREM ErrnoBelongsToThread == ASSUME Warm PROVE Spec => []ErrnoIsOwn
<1>1. IInv => ErrnoIsOwn
  <2> SUFFICES ASSUME IInv, NEW t \in Threads, At(t, "use"), faults = 0,
                      thread[t].loc # Null
               PROVE  mem[thread[t].loc] = last[t]
    BY DEF ErrnoIsOwn
  <2>1. tsd_init # -1
    BY DEF IInv, KeyIsMadeOnce, GivenUp
  <2>2. thread[t].loc = <<t, errno_key>> /\ <<t, errno_key>> \in specific
    BY <2>1 DEF IInv, CellIsThere
  <2> QED
    BY <2>2 DEF IInv, CellIsOwn
<1> QED
  BY <1>1, InitIInv, StepIInv, PTL DEF Spec
=============================================================================
