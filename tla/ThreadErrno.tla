---------------------------- MODULE ThreadErrno ----------------------------
(***************************************************************************)
(* yk_errno and ykp_errno: each is the int that _yk_errno_location         *)
(* (ykcore/ykcore.c) or _ykp_errno_location (ykpers.c, the same code)      *)
(* points at.  Every thread is to have one of its own, kept under a key of *)
(* thread-specific data that the first call makes; when that cannot be     *)
(* had, all share one.  Nothing guards the two statics, tsd_init and       *)
(* errno_key, so one action is one access to them or one call of the       *)
(* thread library.                                                         *)
(***************************************************************************)
EXTENDS Integers, FiniteSets

CONSTANTS
    Threads,      \* the threads of the process
    Values,       \* the errors they store
    Load,         \* stands for a load, among the values
    Nothread,     \* the address of nothread_errno
    Null,         \* the null pointer
    Warm,         \* TRUE: the first call has returned before any other
    MaxCalls,     \* bound: stores and loads of errno in all
    MaxFaults     \* bound: failures of pthread_key_create, calloc and
                  \* pthread_setspecific in all

ASSUME ThreadsAssumption ==
    /\ Nothread # Null
    /\ Values \subseteq Int /\ Load \notin Values
    /\ {Nothread, Null} \cap (Threads \X Nat) = {}
ASSUME BoundsAssumption ==
    Warm \in BOOLEAN /\ MaxCalls \in Nat /\ MaxFaults \in Nat

VARIABLES
    tsd_init,     \* the static of that name: 0, 1, or -1 for "no threads"
    errno_key,    \* the static key; 0, which nobody else is taken to use,
                  \* until one is made
    keys,         \* keys made so far
    specific,     \* <<t, k>>: thread t has a cell under key k
    mem,          \* what the cells and nothread_errno hold
    thread,       \* where each thread is, and its locals
    calls,        \* calls so far
    faults,       \* failures so far
    last          \* history: what each thread stored last

statics == <<tsd_init, errno_key, keys>>
vars == <<statics, specific, mem, thread, calls, faults, last>>

\* At most one key for every call.
Keys == 0 .. MaxCalls + 1
Cells == Threads \X Keys

\* rc: what pthread_key_create returned.  loc: the address obtained.  aim:
\* what the caller does with it, yk_errno = aim or a load of yk_errno.
\* unset (history): pthread_setspecific failed in this call.
Idle == [pc |-> "idle", rc |-> 0, loc |-> Null, aim |-> Load, unset |-> FALSE]

At(t, pc) == thread[t].pc = pc
Becomes(t, locals) == thread' = [thread EXCEPT ![t] = locals]
Goes(t, pc) == Becomes(t, [thread[t] EXCEPT !.pc = pc])
Fault == faults < MaxFaults /\ faults' = faults + 1

\* What pthread_getspecific(errno_key) returns to t.
Specific(t) == IF <<t, errno_key>> \in specific THEN <<t, errno_key>> ELSE Null

-----------------------------------------------------------------------------
\* Thread t is to store or load its errno.
Call(t, aim) ==
    /\ At(t, "idle")
    /\ calls < MaxCalls
    /\ Warm => calls # 1 \/ \A u \in Threads : At(u, "idle")
    /\ calls' = calls + 1
    /\ Becomes(t, [thread[t] EXCEPT !.pc = "test", !.aim = aim, !.unset = FALSE])
    /\ UNCHANGED <<statics, specific, mem, faults, last>>

\* Mutant of TestInit: every call makes a key.
TestInitNever(t) ==
    /\ At(t, "test")
    /\ Goes(t, "create")
    /\ UNCHANGED <<statics, specific, mem, calls, faults, last>>

\* if (tsd_init == 0).
TestInit(t) ==
    /\ At(t, "test")
    /\ Goes(t, IF tsd_init = 0 THEN "create" ELSE "get")
    /\ UNCHANGED <<statics, specific, mem, calls, faults, last>>

\* YK_TSD_INIT: pthread_key_create writes the static key.
CreateKey(t) ==
    /\ At(t, "create")
    /\ \/ /\ keys' = keys + 1
          /\ errno_key' = keys + 1
          /\ Becomes(t, [thread[t] EXCEPT !.pc = "mark", !.rc = 0])
          /\ UNCHANGED faults
       \/ /\ Fault
          /\ Becomes(t, [thread[t] EXCEPT !.pc = "mark", !.rc = 1])
          /\ UNCHANGED <<errno_key, keys>>
    /\ UNCHANGED <<tsd_init, specific, mem, calls, last>>

\* tsd_init = 1, or -1.
MarkInit(t) ==
    /\ At(t, "mark")
    /\ tsd_init' = IF thread[t].rc = 0 THEN 1 ELSE -1
    /\ Goes(t, "get")
    /\ UNCHANGED <<errno_key, keys, specific, mem, calls, faults, last>>

\* if (YK_TSD_GET(int *, errno_key) == NULL).
GetCell(t) ==
    /\ At(t, "get")
    /\ Goes(t, IF Specific(t) = Null THEN "calloc" ELSE "decide")
    /\ UNCHANGED <<statics, specific, mem, calls, faults, last>>

\* Mutant of Calloc: the failure is not remembered.
CallocUnchecked(t) ==
    /\ At(t, "calloc")
    /\ \/ Goes(t, "set") /\ UNCHANGED faults
       \/ Fault /\ Goes(t, "decide")
    /\ UNCHANGED <<statics, specific, mem, calls, last>>

\* calloc; without memory all threads turn to nothread_errno for good.
Calloc(t) ==
    /\ At(t, "calloc")
    /\ \/ Goes(t, "set") /\ UNCHANGED <<tsd_init, faults>>
       \/ Fault /\ Goes(t, "decide") /\ tsd_init' = -1
    /\ UNCHANGED <<errno_key, keys, specific, mem, calls, last>>

\* YK_TSD_SET: the new cell, which holds 0, under the key as it is now.  What
\* pthread_setspecific returns is ignored: it may lack memory, or refuse a key
\* that was never made.
SetCell(t) ==
    /\ At(t, "set")
    /\ \/ /\ specific' = specific \cup {<<t, errno_key>>}
          /\ mem' = [mem EXCEPT ![<<t, errno_key>>] = 0]
          /\ Goes(t, "decide")
          /\ UNCHANGED faults
       \/ /\ Fault \/ (errno_key = 0 /\ UNCHANGED faults)
          /\ Becomes(t, [thread[t] EXCEPT !.pc = "decide", !.unset = TRUE])
          /\ UNCHANGED <<specific, mem>>
    /\ UNCHANGED <<statics, calls, last>>

\* if (tsd_init == 1); otherwise &nothread_errno is returned.
Decide(t) ==
    /\ At(t, "decide")
    /\ Becomes(t, IF tsd_init = 1
                  THEN [thread[t] EXCEPT !.pc = "fetch"]
                  ELSE [thread[t] EXCEPT !.pc = "use", !.loc = Nothread])
    /\ UNCHANGED <<statics, specific, mem, calls, faults, last>>

\* return YK_TSD_GET(int *, errno_key).
Fetch(t) ==
    /\ At(t, "fetch")
    /\ Becomes(t, [thread[t] EXCEPT !.pc = "use", !.loc = Specific(t)])
    /\ UNCHANGED <<statics, specific, mem, calls, faults, last>>

\* The caller dereferences the pointer.
Use(t) ==
    LET loc == thread[t].loc
        aim == thread[t].aim IN
    /\ At(t, "use")
    /\ loc # Null
    /\ Goes(t, "idle")
    /\ \/ aim = Load /\ UNCHANGED <<mem, last>>
       \/ /\ aim # Load
          /\ mem' = [mem EXCEPT ![loc] = aim]
          /\ last' = [last EXCEPT ![t] = aim]
    /\ UNCHANGED <<statics, specific, calls, faults>>

-----------------------------------------------------------------------------
Init ==
    /\ tsd_init = 0 /\ errno_key = 0 /\ keys = 0
    /\ specific = {}
    /\ mem = [loc \in Cells \cup {Nothread} |-> 0]
    /\ thread = [t \in Threads |-> Idle]
    /\ calls = 0 /\ faults = 0
    /\ last = [t \in Threads |-> 0]

Next == \E t \in Threads :
    \/ \E aim \in Values \cup {Load} : Call(t, aim)
    \/ TestInit(t) \/ CreateKey(t) \/ MarkInit(t) \/ GetCell(t) \/ Calloc(t)
    \/ SetCell(t) \/ Decide(t) \/ Fetch(t) \/ Use(t)

Spec == Init /\ [][Next]_vars

-----------------------------------------------------------------------------
(* Properties.                                                             *)

\* The library can be called from different threads (NEWS:332): the address
\* that _yk_errno_location returns can be dereferenced.  It fails, with nothing
\* else failing, when two threads make the first call at once, for both make a
\* key.
NeverNull == \A t \in Threads : At(t, "use") => thread[t].loc # Null

\* Once a first call has returned, _yk_errno_location returns NULL to a thread
\* only if pthread_setspecific failed in that very call: whatever keys and
\* memory for cells ran out, in this thread or in others, the address can be
\* dereferenced.  (After a failed pthread_setspecific it cannot, unless tsd_init
\* is -1: its result is ignored.)
NullOnlyIfUnset ==
    \A t \in Threads : At(t, "use") /\ thread[t].loc = Null => thread[t].unset

\* A thread loads what it stored last, whatever the other threads do to
\* theirs, as long as no call of the thread library and no calloc failed.
ErrnoIsOwn ==
    \A t \in Threads :
        At(t, "use") /\ thread[t].loc # Null /\ faults = 0
            => mem[thread[t].loc] = last[t]
=============================================================================
