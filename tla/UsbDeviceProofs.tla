-------------------------- MODULE UsbDeviceProofs --------------------------
(***************************************************************************)
(* UsbDevice for any number of processes, keys, opens and failures: the    *)
(* keyboard driver comes back, transfers are exclusive, a handle can be    *)
(* used and a NULL is explained.  None of the four is inductive: the       *)
(* driver's return rests on who may hold a claim, and that on where a      *)
(* process stands.  IInv joins what is needed.                             *)
(*                                                                         *)
(* Every step but libusb_attach_kernel_driver changes the locals of one    *)
(* process and takes nothing from the others: lemma OneMoves leaves only   *)
(* that process to be looked at.                                           *)
(***************************************************************************)
EXTENDS UsbDevice, TLAPS

\* What holds of one process.  A claim of its is on the device it holds, and
\* outlasts the transfer only where a release has failed; in a transfer the
\* claim is there.
ClaimsOf(p) ==
    /\ \A d \in Devices :
          <<p, d>> \in claims =>
              /\ Holds(p, d)
              /\ d \in stranded \/ proc[p].pc \in {"transfer", "release"}
    /\ At(p, "transfer") => <<p, proc[p].dev>> \in claims

\* From its opening on, the device is known.
DeviceOf(p) == proc[p].pc \in Holding \cup {"open"} => proc[p].dev \in Devices

\* HandleIsUsable holds from the moment the driver is out of the way.
DriverIsAway(p) ==
    /\ proc[p].pc \in {"configuration", "claim", "ready", "transfer",
                       "release"}
    /\ proc[p].met = {}
    => proc[p].dev \notin driver

\* A NULL is on its way, or is returned, with an error.
NullHasError(p) ==
    proc[p].ret = "null" => /\ proc[p].pc \in {"attach", "close", "out"}
                           /\ proc[p].errno # "none"

Own(p) == ClaimsOf(p) /\ DeviceOf(p) /\ DriverIsAway(p) /\ NullHasError(p)

\* One claim per device.
ClaimsAreSingle ==
    \A p, q \in Procs, d \in Devices :
        <<p, d>> \in claims /\ <<q, d>> \in claims => p = q

IInv == /\ TypeOK
        /\ \A p \in Procs : Own(p)
        /\ ClaimsAreSingle
        /\ DriverComesBack

\* p will give the driver of d back.
WillAttach(p, d) == Holds(p, d) /\ ~At(p, "close")

OthersStay(p) == \A q \in Procs \ {p} : proc'[q] = proc[q]

\* p alone moves, and these are its locals afterwards.
Moved(p, pc, dev, met, ret, errno) ==
    /\ proc' \in [Procs -> Proc] /\ OthersStay(p)
    /\ proc'[p].pc = pc /\ proc'[p].dev = dev /\ proc'[p].met = met
    /\ proc'[p].ret = ret /\ proc'[p].errno = errno

-----------------------------------------------------------------------------
(* The initial state, and what the helpers of the actions do.              *)

LEMMA InitIInv == Init => IInv
<1> SUFFICES ASSUME Init PROVE IInv
  OBVIOUS
<1>1. TypeOK
  BY BoundsAssumption
  DEF Init, TypeOK, Outside, Proc, PCs, Errors, Vendors
<1>2. \A p \in Procs : Own(p)
  BY DEF Init, Own, ClaimsOf, DeviceOf, DriverIsAway, NullHasError, Outside,
         At, Holding, PCs
<1> QED
  BY <1>1, <1>2 DEF Init, IInv, ClaimsAreSingle, DriverComesBack

LEMMA GoesMoves ==
    ASSUME proc \in [Procs -> Proc], NEW p \in Procs, NEW pc \in PCs,
           Goes(p, pc)
    PROVE  Moved(p, pc, proc[p].dev, proc[p].met, proc[p].ret, proc[p].errno)
<1> DEFINE r == [proc[p] EXCEPT !.pc = pc]
<1>1. r \in Proc
  BY DEF Proc
<1>2. proc' = [proc EXCEPT ![p] = r]
  BY DEF Goes, Becomes
<1>3. /\ r.pc = pc /\ r.dev = proc[p].dev /\ r.met = proc[p].met
      /\ r.ret = proc[p].ret /\ r.errno = proc[p].errno
  BY DEF Proc
<1> HIDE DEF r
<1> QED
  BY <1>1, <1>2, <1>3 DEF Moved, OthersStay

LEMMA OpenedMoves ==
    ASSUME proc \in [Procs -> Proc], NEW p \in Procs,
           NEW befell \in SUBSET {"fault"}, Opened(p, befell)
    PROVE  Moved(p, "claim", proc[p].dev, proc[p].met \cup befell,
                 proc[p].ret, proc[p].errno)
<1> DEFINE m == proc[p].met \cup befell
           r == [proc[p] EXCEPT !.pc = "claim", !.probe = TRUE, !.met = m]
<1>1. m \in SUBSET {"fault", "close"}
  BY DEF Proc
<1>2. proc' = [proc EXCEPT ![p] = r]
  BY DEF Opened, Becomes
<1>3. m = proc[p].met \cup befell
  OBVIOUS
<1> HIDE DEF m
<1>4. r \in Proc
  BY <1>1, ZenonT(30) DEF Proc, PCs, Moving
<1>5. /\ r.pc = "claim" /\ r.dev = proc[p].dev /\ r.met = m
      /\ r.ret = proc[p].ret /\ r.errno = proc[p].errno
  BY DEF Proc
<1> HIDE DEF r
<1> QED
  BY <1>2, <1>3, <1>4, <1>5 DEF Moved, OthersStay

LEMMA NoHandleMoves ==
    ASSUME proc \in [Procs -> Proc], NEW p \in Procs,
           NEW error \in Errors, NoHandle(p, error)
    PROVE  \/ Moved(p, "search", None, proc[p].met, proc[p].ret, "none")
           \/ Moved(p, "out", None, proc[p].met, "null", error)
<1> DEFINE r1 == [proc[p] EXCEPT !.pc = "search", !.vendor = "other",
                                 !.dev = None, !.errno = "none"]
           r2 == [proc[p] EXCEPT !.pc = "out", !.ret = "null",
                                 !.dev = None, !.errno = error]
<1>1. r1 \in Proc
  BY ZenonT(30) DEF Proc, PCs, Opening, Errors, Vendors
<1>2. r2 \in Proc
  BY ZenonT(30) DEF Proc, PCs, Errors, Vendors
<1>3. \/ proc' = [proc EXCEPT ![p] = r1]
      \/ proc' = [proc EXCEPT ![p] = r2]
  BY DEF NoHandle, Becomes
<1>4. /\ r1.pc = "search" /\ r1.dev = None /\ r1.met = proc[p].met
      /\ r1.ret = proc[p].ret /\ r1.errno = "none"
  BY DEF Proc
<1>5. /\ r2.pc = "out" /\ r2.dev = None /\ r2.met = proc[p].met
      /\ r2.ret = "null" /\ r2.errno = error
  BY DEF Proc
<1> HIDE DEF r1, r2
<1> QED
  BY <1>1, <1>2, <1>3, <1>4, <1>5 DEF Moved, OthersStay

LEMMA TransferEndsMoves ==
    ASSUME proc \in [Procs -> Proc], NEW p \in Procs, NEW ok \in BOOLEAN,
           TransferEnds(p, ok)
    PROVE  \E pc \in {"ready", "attach"}, ret \in {"none", "key", "null"},
              errno \in Errors :
              /\ Moved(p, pc, proc[p].dev, proc[p].met, ret, errno)
              /\ ret = "null" => \/ ret = proc[p].ret
                                 \/ pc = "attach" /\ errno # "none"
<1> DEFINE pc == IF proc[p].probe /\ ~ok THEN "attach" ELSE "ready"
           ret == CASE ~proc[p].probe -> proc[p].ret
                    [] proc[p].probe /\ ok -> "key"
                    [] proc[p].probe /\ ~ok -> "null"
           errno == IF ok THEN proc[p].errno ELSE "EUSBERR"
           r == [proc[p] EXCEPT !.pc = pc, !.ret = ret, !.errno = errno,
                                !.probe = FALSE, !.ok = TRUE]
<1>1. /\ pc \in {"ready", "attach"}
      /\ ret \in {"none", "key", "null"}
      /\ errno \in Errors
      /\ ret = "null" => \/ ret = proc[p].ret
                         \/ pc = "attach" /\ errno # "none"
  BY DEF Proc, Errors
<1>2. proc' = [proc EXCEPT ![p] = r]
  BY DEF TransferEnds, Becomes
<1> HIDE DEF pc, ret, errno
<1>3. r \in Proc
  BY <1>1, ZenonT(30) DEF Proc, PCs, Closing
<1>4. /\ r.pc = pc /\ r.dev = proc[p].dev /\ r.met = proc[p].met
      /\ r.ret = ret /\ r.errno = errno
  BY DEF Proc
<1> HIDE DEF r
<1>5. Moved(p, pc, proc[p].dev, proc[p].met, ret, errno)
  BY <1>2, <1>3, <1>4 DEF Moved, OthersStay
<1> QED
  BY <1>1, <1>5

\* A step of p that puts no driver back, leaves the claims of the others
\* alone, and keeps what is p's to keep, keeps the invariant.
LEMMA OneMoves ==
    ASSUME IInv, NEW p \in Procs, TypeOK', OthersStay(p), Own(p)',
           driver' \subseteq driver,
           stranded \subseteq stranded',
           \A q \in Procs \ {p}, d \in Devices :
               <<q, d>> \in claims' <=> <<q, d>> \in claims,
           \A q \in Procs \ {p}, d \in Devices :
               <<p, d>> \in claims' => <<q, d>> \notin claims,
           \A d \in Devices \ stranded' :
               d \in driver \ driver' \/ WillAttach(p, d) =>
                   d \in driver' \/ WillAttach(p, d)'
    PROVE  IInv'
<1>1. ASSUME NEW q \in Procs PROVE Own(q)'
  <2>1. CASE q = p
    BY <2>1
  <2>2. CASE q # p
    <3>1. proc'[q] = proc[q]
      BY <2>2 DEF OthersStay
    <3>2. Own(q)
      BY DEF IInv
    <3>3. ClaimsOf(q)'
      BY <2>2, <3>1, <3>2 DEF Own, ClaimsOf, Holds, At, DeviceOf, Holding,
         PCs, Moving
    <3>4. DeviceOf(q)' /\ DriverIsAway(q)' /\ NullHasError(q)'
      BY <3>1, <3>2 DEF Own, DeviceOf, DriverIsAway, NullHasError
    <3> QED
      BY <3>3, <3>4 DEF Own
  <2> QED
    BY <2>1, <2>2
<1>2. ClaimsAreSingle'
  BY DEF IInv, ClaimsAreSingle
<1>3. DriverComesBack'
  <2> SUFFICES ASSUME NEW d \in Devices \ stranded', d \notin driver'
               PROVE  \E q \in Procs : WillAttach(q, d)'
    BY DEF DriverComesBack, WillAttach
  <2>1. CASE d \in driver
    BY <2>1
  <2>2. CASE d \notin driver
    <3>1. PICK q \in Procs : WillAttach(q, d)
      BY <2>2 DEF IInv, DriverComesBack, WillAttach
    <3>2. CASE q = p
      BY <3>1, <3>2
    <3>3. CASE q # p
      BY <3>1, <3>3 DEF WillAttach, OthersStay, Holds, At
    <3> QED
      BY <3>2, <3>3
  <2> QED
    BY <2>1, <2>2
<1> QED
  BY <1>1, <1>2, <1>3 DEF IInv

\* In particular one that changes locals only.
LEMMA QuietMoves ==
    ASSUME IInv, NEW p \in Procs, TypeOK', OthersStay(p), Own(p)',
           UNCHANGED <<driver, claims, stranded>>,
           \A d \in Devices : WillAttach(p, d) => WillAttach(p, d)'
    PROVE  IInv'
<1>1. \A q \in Procs \ {p}, d \in Devices :
          <<p, d>> \in claims' => <<q, d>> \notin claims
  BY DEF IInv, ClaimsAreSingle
<1> QED
  BY <1>1, OneMoves

-----------------------------------------------------------------------------
(* One lemma per action: where it leaves p, its type, what p then holds.   *)

LEMMA OpenKeeps ==
    ASSUME IInv, NEW p \in Procs, NEW index \in Indices, Open(p, index)
    PROVE  IInv'
<1>1. TypeOK /\ Own(p) /\ ClaimsAreSingle
  BY DEF IInv
<1>2. Moved(p, "search", None, {}, "none", proc[p].errno)
  <2> DEFINE r == [Outside EXCEPT !.pc = "search", !.index = index,
                                  !.errno = proc[p].errno]
  <2>1. r \in Proc
    BY <1>1 DEF TypeOK, Proc, Outside, PCs, Opening, Vendors
  <2>2. proc' = [proc EXCEPT ![p] = r]
    BY DEF Open, Becomes
  <2>3. /\ r.pc = "search" /\ r.dev = None /\ r.met = {}
        /\ r.ret = "none" /\ r.errno = proc[p].errno
    BY DEF Outside
  <2> HIDE DEF r
  <2> QED
    BY <1>1, <2>1, <2>2, <2>3 DEF Moved, OthersStay, TypeOK
<1>3. TypeOK'
  BY <1>1, <1>2, BoundsAssumption DEF TypeOK, Moved, Open, Fault
<1>4. Own(p)'
  BY <1>1, <1>2
  DEF TypeOK, Moved, Open, Own, ClaimsOf, DeviceOf, DriverIsAway,
      NullHasError, Holds, At, Holding, PCs, Opening, Moving, Closing
<1>5. OthersStay(p)
  BY <1>2 DEF Moved
<1>6. UNCHANGED <<driver, claims, stranded>>
  BY DEF Open
<1>7. \A d \in Devices : WillAttach(p, d) => WillAttach(p, d)'
  BY <1>1, <1>2
  DEF Moved, WillAttach, Holds, At, Open, Holding, PCs, Opening, Moving,
      Closing
<1> QED
  BY <1>1, <1>3, <1>4, <1>5, <1>6, <1>7, QuietMoves

LEMMA SearchKeeps ==
    ASSUME IInv, NEW p \in Procs, Search(p)
    PROVE  IInv'
<1>1. TypeOK /\ Own(p) /\ ClaimsAreSingle
  BY DEF IInv
<1>2. \/ \E d \in Devices : Moved(p, "open", d, proc[p].met, proc[p].ret,
                                 proc[p].errno)
      \/ Moved(p, "search", None, proc[p].met, proc[p].ret, "none")
      \/ Moved(p, "out", None, proc[p].met, "null", "ENOKEY")
  <2>1. ASSUME NEW d \in Devices,
               Becomes(p, [proc[p] EXCEPT !.pc = "open", !.dev = d])
        PROVE  Moved(p, "open", d, proc[p].met, proc[p].ret, proc[p].errno)
    <3> DEFINE r == [proc[p] EXCEPT !.pc = "open", !.dev = d]
    <3>1. r \in Proc
      BY <1>1, ZenonT(30) DEF TypeOK, Proc, PCs, Opening
    <3>2. proc' = [proc EXCEPT ![p] = r]
      BY <2>1 DEF Becomes
    <3>3. /\ r.pc = "open" /\ r.dev = d /\ r.met = proc[p].met
          /\ r.ret = proc[p].ret /\ r.errno = proc[p].errno
      BY <1>1 DEF TypeOK, Proc
    <3> HIDE DEF r
    <3> QED
      BY <1>1, <3>1, <3>2, <3>3 DEF Moved, OthersStay, TypeOK
  <2>2. "ENOKEY" \in Errors
    BY DEF Errors
  <2>3. \/ \E d \in Devices :
              Becomes(p, [proc[p] EXCEPT !.pc = "open", !.dev = d])
        \/ NoHandle(p, "ENOKEY")
    BY DEF Search
  <2> QED
    BY <1>1, <2>1, <2>2, <2>3, NoHandleMoves DEF TypeOK
<1>3. TypeOK'
  <2>1. proc' \in [Procs -> Proc]
    BY <1>2 DEF Moved
  <2>2. /\ UNCHANGED <<driver, claims, opens, transfers, stranded>>
        /\ faults' = faults \/ (faults < MaxFaults /\ faults' = faults + 1)
    BY DEF Search, Fault
  <2> QED
    BY <1>1, <2>1, <2>2, BoundsAssumption DEF TypeOK
<1>4. Own(p)'
  BY <1>1, <1>2 DEF TypeOK, Moved, Search, Own, ClaimsOf, DeviceOf,
     DriverIsAway, NullHasError, Holds, At, Holding, PCs, Opening, Moving,
     Closing
<1>5. OthersStay(p)
  BY <1>2 DEF Moved
<1>6. UNCHANGED <<driver, claims, stranded>>
  BY DEF Search
<1>7. \A d \in Devices : WillAttach(p, d) => WillAttach(p, d)'
  BY DEF WillAttach, Holds, At, Search, Holding, PCs, Opening, Moving, Closing
<1> QED
  BY <1>1, <1>3, <1>4, <1>5, <1>6, <1>7, QuietMoves
LEMMA LibusbOpenKeeps ==
    ASSUME IInv, NEW p \in Procs, LibusbOpen(p)
    PROVE  IInv'
<1>1. TypeOK /\ Own(p) /\ ClaimsAreSingle
  BY DEF IInv
<1>2. \/ Moved(p, "query", proc[p].dev, proc[p].met,
               proc[p].ret, proc[p].errno)
      \/ Moved(p, "search", None, proc[p].met, proc[p].ret, "none")
      \/ Moved(p, "out", None, proc[p].met, "null", "EUSBERR")
  <2>1. "EUSBERR" \in Errors /\ "query" \in PCs
    BY DEF Errors, PCs, Opening
  <2>2. Goes(p, "query") \/ NoHandle(p, "EUSBERR")
    BY DEF LibusbOpen
  <2> QED
    BY <1>1, <2>1, <2>2, GoesMoves, NoHandleMoves DEF TypeOK
<1>3. TypeOK'
  BY <1>1, <1>2, BoundsAssumption DEF TypeOK, Moved, LibusbOpen, Fault
<1>4. Own(p)'
  BY <1>1, <1>2
  DEF TypeOK, Moved, LibusbOpen, Own, ClaimsOf, DeviceOf, DriverIsAway,
      NullHasError, Holds, At, Holding, PCs, Opening, Moving, Closing
<1>5. OthersStay(p)
  BY <1>2 DEF Moved
<1>6. UNCHANGED <<driver, claims, stranded>>
  BY DEF LibusbOpen
<1>7. \A d \in Devices : WillAttach(p, d) => WillAttach(p, d)'
  BY <1>1, <1>2
  DEF Moved, WillAttach, Holds, At, LibusbOpen, Holding, PCs, Opening, Moving,
      Closing
<1> QED
  BY <1>1, <1>3, <1>4, <1>5, <1>6, <1>7, QuietMoves

LEMMA QueryDriverKeeps ==
    ASSUME IInv, NEW p \in Procs, QueryDriver(p)
    PROVE  IInv'
<1>1. TypeOK /\ Own(p) /\ ClaimsAreSingle
  BY DEF IInv
<1>2. \/ /\ proc[p].dev \in driver
         /\ Moved(p, "detach", proc[p].dev, proc[p].met,
                  proc[p].ret, proc[p].errno)
      \/ /\ proc[p].dev \notin driver
         /\ Moved(p, "configuration", proc[p].dev, proc[p].met,
                  proc[p].ret, proc[p].errno)
      \/ Moved(p, "claim", proc[p].dev, proc[p].met \cup {"fault"},
               proc[p].ret, proc[p].errno)
  <2>1. {"detach", "configuration"} \subseteq PCs
    BY DEF PCs, Opening
  <2>2. \/ proc[p].dev \in driver /\ Goes(p, "detach")
        \/ proc[p].dev \notin driver /\ Goes(p, "configuration")
        \/ Opened(p, {"fault"})
    BY DEF QueryDriver
  <2> QED
    BY <1>1, <2>1, <2>2, GoesMoves, OpenedMoves DEF TypeOK
<1>3. TypeOK'
  BY <1>1, <1>2, BoundsAssumption DEF TypeOK, Moved, QueryDriver, Fault
<1>4. Own(p)'
  BY <1>1, <1>2
  DEF TypeOK, Moved, QueryDriver, Own, ClaimsOf, DeviceOf, DriverIsAway,
      NullHasError, Holds, At, Holding, PCs, Opening, Moving, Closing
<1>5. OthersStay(p)
  BY <1>2 DEF Moved
<1>6. UNCHANGED <<driver, claims, stranded>>
  BY DEF QueryDriver
<1>7. \A d \in Devices : WillAttach(p, d) => WillAttach(p, d)'
  BY <1>1, <1>2
  DEF Moved, WillAttach, Holds, At, QueryDriver, Holding, PCs, Opening,
      Moving, Closing
<1> QED
  BY <1>1, <1>3, <1>4, <1>5, <1>6, <1>7, QuietMoves

LEMMA GetConfigurationKeeps ==
    ASSUME IInv, NEW p \in Procs, GetConfiguration(p)
    PROVE  IInv'
<1>1. TypeOK /\ Own(p) /\ ClaimsAreSingle
  BY DEF IInv
<1>2. \/ Moved(p, "claim", proc[p].dev, proc[p].met \cup {},
               proc[p].ret, proc[p].errno)
      \/ Moved(p, "claim", proc[p].dev, proc[p].met \cup {"fault"},
               proc[p].ret, proc[p].errno)
  <2>1. Opened(p, {}) \/ Opened(p, {"fault"})
    BY DEF GetConfiguration
  <2> QED
    BY <1>1, <2>1, OpenedMoves DEF TypeOK
<1>3. TypeOK'
  BY <1>1, <1>2, BoundsAssumption DEF TypeOK, Moved, GetConfiguration, Fault
<1>4. Own(p)'
  BY <1>1, <1>2
  DEF TypeOK, Moved, GetConfiguration, Own, ClaimsOf, DeviceOf, DriverIsAway,
      NullHasError, Holds, At, Holding, PCs, Opening, Moving, Closing
<1>5. OthersStay(p)
  BY <1>2 DEF Moved
<1>6. UNCHANGED <<driver, claims, stranded>>
  BY DEF GetConfiguration
<1>7. \A d \in Devices : WillAttach(p, d) => WillAttach(p, d)'
  BY <1>1, <1>2
  DEF Moved, WillAttach, Holds, At, GetConfiguration, Holding, PCs, Opening,
      Moving, Closing
<1> QED
  BY <1>1, <1>3, <1>4, <1>5, <1>6, <1>7, QuietMoves

LEMMA DetachDriverKeeps ==
    ASSUME IInv, NEW p \in Procs, DetachDriver(p)
    PROVE  IInv'
<1>1. TypeOK /\ Own(p) /\ ClaimsAreSingle
  BY DEF IInv
<1>2. \/ /\ proc[p].dev \in driver
         /\ driver' = driver \ {proc[p].dev}
         /\ Moved(p, "configuration", proc[p].dev, proc[p].met,
                  proc[p].ret, proc[p].errno)
      \/ /\ proc[p].dev \notin driver
         /\ driver' = driver
         /\ Moved(p, "claim", proc[p].dev, proc[p].met \cup {},
               proc[p].ret, proc[p].errno)
      \/ /\ driver' = driver
         /\ Moved(p, "claim", proc[p].dev, proc[p].met \cup {"fault"},
               proc[p].ret, proc[p].errno)
  <2>1. "configuration" \in PCs
    BY DEF PCs, Opening
  <2>2. \/ /\ proc[p].dev \in driver
           /\ driver' = driver \ {proc[p].dev}
           /\ Goes(p, "configuration")
        \/ proc[p].dev \notin driver /\ driver' = driver /\ Opened(p, {})
        \/ driver' = driver /\ Opened(p, {"fault"})
    BY DEF DetachDriver
  <2> QED
    BY <1>1, <2>1, <2>2, GoesMoves, OpenedMoves DEF TypeOK
<1>3. TypeOK'
  <2>1. proc' \in [Procs -> Proc]
    BY <1>2 DEF Moved
  <2>2. proc[p].dev \in Devices
    BY <1>1 DEF Own, DeviceOf, Holding, PCs, Opening, Moving, DetachDriver, At
  <2>3. driver' \subseteq driver /\ UNCHANGED <<claims, stranded>>
    BY DEF DetachDriver
  <2>4. /\ opens' = opens /\ transfers' = transfers
        /\ faults' = faults \/ (faults < MaxFaults /\ faults' = faults + 1)
    BY DEF DetachDriver, Fault
  <2> QED
    BY <1>1, <2>1, <2>2, <2>3, <2>4, BoundsAssumption DEF TypeOK
<1>4. Own(p)'
  BY <1>1, <1>2
  DEF TypeOK, Moved, DetachDriver, Own, ClaimsOf, DeviceOf, DriverIsAway,
      NullHasError, Holds, At, Holding, PCs, Opening, Moving, Closing
<1>5. OthersStay(p)
  BY <1>2 DEF Moved
<1>6. driver' \subseteq driver /\ UNCHANGED <<claims, stranded>>
  BY DEF DetachDriver
<1>7. /\ \A q \in Procs \ {p}, d \in Devices :
           <<q, d>> \in claims' <=> <<q, d>> \in claims
      /\ \A q \in Procs \ {p}, d \in Devices :
           <<p, d>> \in claims' => <<q, d>> \notin claims
  BY <1>1 DEF ClaimsAreSingle, DetachDriver
<1>8. \A d \in Devices :
          d \in driver \ driver' \/ WillAttach(p, d) => WillAttach(p, d)'
  BY <1>1, <1>2
  DEF Moved, WillAttach, Holds, At, DetachDriver, Holding, PCs, Opening,
      Moving, Closing
<1> QED
  BY <1>1, <1>3, <1>4, <1>5, <1>6, <1>7, <1>8, OneMoves

LEMMA TransferKeeps ==
    ASSUME IInv, NEW p \in Procs, Transfer(p)
    PROVE  IInv'
<1>1. TypeOK /\ Own(p) /\ ClaimsAreSingle
  BY DEF IInv
<1>2. Moved(p, "claim", proc[p].dev, proc[p].met, proc[p].ret, proc[p].errno)
  BY <1>1, GoesMoves DEF TypeOK, Transfer, PCs, Moving
<1>3. TypeOK'
  BY <1>1, <1>2, BoundsAssumption DEF TypeOK, Moved, Transfer, Fault
<1>4. Own(p)'
  BY <1>1, <1>2
  DEF TypeOK, Moved, Transfer, Own, ClaimsOf, DeviceOf, DriverIsAway,
      NullHasError, Holds, At, Holding, PCs, Opening, Moving, Closing
<1>5. OthersStay(p)
  BY <1>2 DEF Moved
<1>6. UNCHANGED <<driver, claims, stranded>>
  BY DEF Transfer
<1>7. \A d \in Devices : WillAttach(p, d) => WillAttach(p, d)'
  BY <1>1, <1>2
  DEF Moved, WillAttach, Holds, At, Transfer, Holding, PCs, Opening, Moving,
      Closing
<1> QED
  BY <1>1, <1>3, <1>4, <1>5, <1>6, <1>7, QuietMoves

LEMMA ClaimKeeps ==
    ASSUME IInv, NEW p \in Procs, Claim(p)
    PROVE  IInv'
<1>1. TypeOK /\ Own(p) /\ ClaimsAreSingle
  BY DEF IInv
<1>2. \/ /\ Claimable(p, proc[p].dev)
         /\ claims' = claims \cup {<<p, proc[p].dev>>}
         /\ Moved(p, "transfer", proc[p].dev, proc[p].met,
                  proc[p].ret, proc[p].errno)
      \/ /\ claims' = claims
         /\ \E pc \in {"ready", "attach"}, ret \in {"none", "key", "null"},
               errno \in Errors :
               /\ Moved(p, pc, proc[p].dev, proc[p].met, ret, errno)
               /\ ret = "null" => \/ ret = proc[p].ret
                                  \/ pc = "attach" /\ errno # "none"
  <2>1. "transfer" \in PCs
    BY DEF PCs, Moving
  <2>2. \/ /\ Claimable(p, proc[p].dev)
           /\ claims' = claims \cup {<<p, proc[p].dev>>}
           /\ Goes(p, "transfer")
        \/ claims' = claims /\ TransferEnds(p, FALSE)
    BY DEF Claim
  <2> QED
    BY <1>1, <2>1, <2>2, GoesMoves, TransferEndsMoves DEF TypeOK
<1>3. TypeOK'
  <2>1. proc' \in [Procs -> Proc]
    BY <1>2 DEF Moved
  <2>2. proc[p].dev \in Devices
    BY <1>1 DEF Own, DeviceOf, Holding, PCs, Opening, Moving, Claim, At
  <2>3. /\ claims' \subseteq claims \cup {<<p, proc[p].dev>>}
        /\ UNCHANGED <<driver, stranded>>
    BY DEF Claim
  <2>4. /\ opens' = opens /\ transfers' = transfers
        /\ faults' = faults \/ (faults < MaxFaults /\ faults' = faults + 1)
    BY DEF Claim, Fault
  <2> QED
    BY <1>1, <2>1, <2>2, <2>3, <2>4, BoundsAssumption DEF TypeOK
<1>4. Own(p)'
  BY <1>1, <1>2
  DEF TypeOK, Moved, Claim, Own, ClaimsOf, DeviceOf, DriverIsAway,
      NullHasError, Holds, At, Holding, PCs, Opening, Moving, Closing,
      Claimable
<1>5. OthersStay(p)
  BY <1>2 DEF Moved
<1>6. UNCHANGED <<driver, stranded>>
  BY DEF Claim
<1>7. /\ \A q \in Procs \ {p}, d \in Devices :
           <<q, d>> \in claims' <=> <<q, d>> \in claims
      /\ \A q \in Procs \ {p}, d \in Devices :
           <<p, d>> \in claims' => <<q, d>> \notin claims
  BY <1>1 DEF ClaimsAreSingle, Claim, Claimable
<1>8. \A d \in Devices :
          d \in driver \ driver' \/ WillAttach(p, d) => WillAttach(p, d)'
  BY <1>1, <1>2
  DEF Moved, WillAttach, Holds, At, Claim, Holding, PCs, Opening, Moving,
      Closing, Claimable
<1> QED
  BY <1>1, <1>3, <1>4, <1>5, <1>6, <1>7, <1>8, OneMoves

LEMMA ControlTransferKeeps ==
    ASSUME IInv, NEW p \in Procs, ControlTransfer(p)
    PROVE  IInv'
<1>1. TypeOK /\ Own(p) /\ ClaimsAreSingle
  BY DEF IInv
<1>2. Moved(p, "release", proc[p].dev, proc[p].met, proc[p].ret, proc[p].errno)
  <2>1. CASE Goes(p, "release")
    BY <1>1, <2>1, GoesMoves DEF TypeOK, PCs, Moving
  <2>2. CASE Becomes(p, [proc[p] EXCEPT !.pc = "release", !.ok = FALSE])
    <3> DEFINE r == [proc[p] EXCEPT !.pc = "release", !.ok = FALSE]
    <3>1. r \in Proc
      BY <1>1 DEF TypeOK, Proc, PCs, Moving
    <3>2. proc' = [proc EXCEPT ![p] = r]
      BY <2>2 DEF Becomes
    <3>3. /\ r.pc = "release" /\ r.dev = proc[p].dev /\ r.met = proc[p].met
          /\ r.ret = proc[p].ret /\ r.errno = proc[p].errno
      BY <1>1 DEF TypeOK, Proc
    <3> HIDE DEF r
    <3> QED
      BY <1>1, <3>1, <3>2, <3>3 DEF Moved, OthersStay, TypeOK
  <2> QED
    BY <2>1, <2>2 DEF ControlTransfer
<1>3. TypeOK'
  BY <1>1, <1>2, BoundsAssumption DEF TypeOK, Moved, ControlTransfer, Fault
<1>4. Own(p)'
  BY <1>1, <1>2
  DEF TypeOK, Moved, ControlTransfer, Own, ClaimsOf, DeviceOf, DriverIsAway,
      NullHasError, Holds, At, Holding, PCs, Opening, Moving, Closing
<1>5. OthersStay(p)
  BY <1>2 DEF Moved
<1>6. UNCHANGED <<driver, claims, stranded>>
  BY DEF ControlTransfer
<1>7. \A d \in Devices : WillAttach(p, d) => WillAttach(p, d)'
  BY <1>1, <1>2
  DEF Moved, WillAttach, Holds, At, ControlTransfer, Holding, PCs, Opening,
      Moving, Closing
<1> QED
  BY <1>1, <1>3, <1>4, <1>5, <1>6, <1>7, QuietMoves

LEMMA ReleaseKeeps ==
    ASSUME IInv, NEW p \in Procs, Release(p)
    PROVE  IInv'
<1>1. TypeOK /\ Own(p) /\ ClaimsAreSingle
  BY DEF IInv
<1>2. /\ \/ /\ claims' = claims \ {<<p, proc[p].dev>>}
            /\ stranded' = stranded
         \/ /\ claims' = claims
            /\ stranded' = stranded \cup {proc[p].dev}
      /\ \E pc \in {"ready", "attach"}, ret \in {"none", "key", "null"},
               errno \in Errors :
               /\ Moved(p, pc, proc[p].dev, proc[p].met, ret, errno)
               /\ ret = "null" => \/ ret = proc[p].ret
                                  \/ pc = "attach" /\ errno # "none"
  <2>1. proc[p].ok \in BOOLEAN
    BY <1>1 DEF TypeOK, Proc
  <2> QED
    BY <1>1, <2>1, TransferEndsMoves DEF TypeOK, Release
<1>3. TypeOK'
  <2>1. proc' \in [Procs -> Proc]
    BY <1>2 DEF Moved
  <2>2. proc[p].dev \in Devices
    BY <1>1 DEF Own, DeviceOf, Holding, PCs, Opening, Moving, Release, At
  <2>3. /\ claims' \subseteq claims
        /\ stranded' \subseteq stranded \cup {proc[p].dev}
        /\ UNCHANGED driver
    BY DEF Release
  <2>4. /\ opens' = opens /\ transfers' = transfers
        /\ faults' = faults \/ (faults < MaxFaults /\ faults' = faults + 1)
    BY DEF Release, Fault
  <2> QED
    BY <1>1, <2>1, <2>2, <2>3, <2>4, BoundsAssumption DEF TypeOK
<1>4. Own(p)'
  BY <1>1, <1>2
  DEF TypeOK, Moved, Release, Own, ClaimsOf, DeviceOf, DriverIsAway,
      NullHasError, Holds, At, Holding, PCs, Opening, Moving, Closing
<1>5. OthersStay(p)
  BY <1>2 DEF Moved
<1>6. driver' = driver /\ stranded \subseteq stranded'
  BY DEF Release
<1>7. /\ \A q \in Procs \ {p}, d \in Devices :
           <<q, d>> \in claims' <=> <<q, d>> \in claims
      /\ \A q \in Procs \ {p}, d \in Devices :
           <<p, d>> \in claims' => <<q, d>> \notin claims
  BY <1>1 DEF ClaimsAreSingle, Release
<1>8. \A d \in Devices :
          d \in driver \ driver' \/ WillAttach(p, d) => WillAttach(p, d)'
  BY <1>1, <1>2
  DEF Moved, WillAttach, Holds, At, Release, Holding, PCs, Opening, Moving,
      Closing
<1> QED
  BY <1>1, <1>3, <1>4, <1>5, <1>6, <1>7, <1>8, OneMoves

LEMMA CloseKeeps ==
    ASSUME IInv, NEW p \in Procs, Close(p)
    PROVE  IInv'
<1>1. TypeOK /\ Own(p) /\ ClaimsAreSingle
  BY DEF IInv
<1>2. Moved(p, "attach", proc[p].dev, proc[p].met, proc[p].ret, proc[p].errno)
  BY <1>1, GoesMoves DEF TypeOK, Close, PCs, Closing
<1>3. TypeOK'
  BY <1>1, <1>2, BoundsAssumption DEF TypeOK, Moved, Close, Fault
<1>4. Own(p)'
  BY <1>1, <1>2
  DEF TypeOK, Moved, Close, Own, ClaimsOf, DeviceOf, DriverIsAway,
      NullHasError, Holds, At, Holding, PCs, Opening, Moving, Closing
<1>5. OthersStay(p)
  BY <1>2 DEF Moved
<1>6. UNCHANGED <<driver, claims, stranded>>
  BY DEF Close
<1>7. \A d \in Devices : WillAttach(p, d) => WillAttach(p, d)'
  BY <1>1, <1>2
  DEF Moved, WillAttach, Holds, At, Close, Holding, PCs, Opening, Moving,
      Closing
<1> QED
  BY <1>1, <1>3, <1>4, <1>5, <1>6, <1>7, QuietMoves

\* The one step that touches the others: those that hold the device are
\* marked, and may find the driver under them.  If it does not attach, the
\* claim that kept it from it has a holder who will.
LEMMA AttachDriverKeeps ==
    ASSUME IInv, NEW p \in Procs, AttachDriver(p)
    PROVE  IInv'
<1> DEFINE d == proc[p].dev
<1>1. /\ TypeOK /\ ClaimsAreSingle /\ DriverComesBack
      /\ \A q \in Procs : Own(q)
  BY DEF IInv
<1>2. "close" \in PCs /\ d \in Devices /\ At(p, "attach")
  BY <1>1 DEF PCs, Closing, AttachDriver, Own, DeviceOf, At, Holding
<1>3. CASE /\ Goes(p, "close")
           /\ driver' = driver
           /\ \/ stranded' = stranded \cup {d}
              \/ /\ stranded' = stranded
                 /\ \E q \in Procs : <<q, d>> \in claims
  <2>1. Moved(p, "close", d, proc[p].met, proc[p].ret, proc[p].errno)
    BY <1>1, <1>2, <1>3, GoesMoves DEF TypeOK
  <2>2. /\ UNCHANGED <<claims, opens, transfers>>
        /\ faults' = faults \/ (faults < MaxFaults /\ faults' = faults + 1)
    BY DEF AttachDriver, Fault
  <2>3. TypeOK'
    BY <1>1, <1>2, <1>3, <2>1, <2>2, BoundsAssumption DEF TypeOK, Moved
  <2>4. Own(p)'
    BY <1>1, <1>2, <1>3, <2>1, <2>2
    DEF Moved, Own, ClaimsOf, DeviceOf, DriverIsAway, NullHasError, Holds, At,
        Holding, PCs, Closing
  <2>5. ASSUME NEW q \in Procs PROVE Own(q)'
    <3>1. CASE q = p
      BY <2>4, <3>1
    <3>2. CASE q # p
      <4>1. proc'[q] = proc[q] /\ Own(q)
        BY <1>1, <2>1, <3>2 DEF Moved, OthersStay
      <4>2. ClaimsOf(q)'
        BY <1>3, <2>2, <4>1 DEF Own, ClaimsOf, Holds, At
      <4>3. DeviceOf(q)' /\ DriverIsAway(q)' /\ NullHasError(q)'
        BY <1>3, <4>1 DEF Own, DeviceOf, DriverIsAway, NullHasError
      <4> QED
        BY <4>2, <4>3 DEF Own
    <3> QED
      BY <3>1, <3>2
  <2>6. ClaimsAreSingle'
    BY <1>1, <2>2 DEF ClaimsAreSingle
  <2>7. ASSUME NEW e \in Devices \ stranded', e \notin driver'
        PROVE  \E q \in Procs : WillAttach(q, e)'
    <3>1. PICK q \in Procs : WillAttach(q, e)
      BY <1>1, <1>3, <2>7 DEF DriverComesBack, WillAttach
    <3>2. CASE q # p
      BY <2>1, <3>1, <3>2 DEF WillAttach, Holds, At, Moved, OthersStay
    <3>3. CASE q = p
      <4>1. e = d /\ d \notin stranded'
        BY <2>7, <3>1, <3>3 DEF WillAttach, Holds
      <4>2. PICK o \in Procs : <<o, d>> \in claims
        BY <1>3, <4>1
      <4>3. /\ Holds(o, d) /\ proc[o].pc \in {"transfer", "release"}
        BY <1>1, <1>2, <1>3, <4>1, <4>2 DEF Own, ClaimsOf
      <4>4. o # p
        BY <1>2, <4>3 DEF At
      <4> QED
        BY <2>1, <4>1, <4>3, <4>4
        DEF WillAttach, Holds, At, Moved, OthersStay
    <3> QED
      BY <3>2, <3>3
  <2> QED
    BY <2>3, <2>5, <2>6, <2>7 DEF IInv, DriverComesBack, WillAttach
<1>4. CASE /\ \A q \in Procs : <<q, d>> \notin claims
           /\ driver' = driver \cup {d}
           /\ proc' = [Disturbed(p, d) EXCEPT ![p].pc = "close"]
           /\ UNCHANGED <<faults, stranded>>
  <2>1. ASSUME NEW q \in Procs, q # p
        PROVE  /\ proc'[q] \in Proc
               /\ proc'[q].pc = proc[q].pc /\ proc'[q].dev = proc[q].dev
               /\ proc'[q].ret = proc[q].ret /\ proc'[q].errno = proc[q].errno
               /\ proc[q].met = {} \/ proc'[q].met # {}
               /\ Holds(q, d) => proc'[q].met # {}
    <3> DEFINE m == proc[q].met \cup {"close"}
               r == [proc[q] EXCEPT !.met = m]
    <3>1. proc'[q] = IF Holds(q, d) THEN r ELSE proc[q]
      BY <1>4, <2>1 DEF Disturbed
    <3>2. m \in SUBSET {"fault", "close"} /\ m # {}
      BY <1>1 DEF TypeOK, Proc
    <3>3. proc[q] \in Proc
      BY <1>1 DEF TypeOK
    <3> HIDE DEF m
    <3>4. /\ r \in Proc /\ r.pc = proc[q].pc /\ r.dev = proc[q].dev
          /\ r.ret = proc[q].ret /\ r.errno = proc[q].errno /\ r.met = m
      BY <3>2, <3>3 DEF Proc
    <3> HIDE DEF r
    <3> QED
      BY <3>1, <3>2, <3>3, <3>4
  <2>2. /\ proc'[p] \in Proc
        /\ proc'[p].pc = "close" /\ proc'[p].dev = d
        /\ proc'[p].ret = proc[p].ret /\ proc'[p].errno = proc[p].errno
    <3> DEFINE r == [proc[p] EXCEPT !.pc = "close"]
    <3>1. proc'[p] = r
      BY <1>4 DEF Disturbed
    <3>2. /\ r \in Proc /\ r.pc = "close" /\ r.dev = d
          /\ r.ret = proc[p].ret /\ r.errno = proc[p].errno
      BY <1>1, <1>2 DEF TypeOK, Proc
    <3> HIDE DEF r
    <3> QED
      BY <3>1, <3>2
  <2>3. UNCHANGED <<claims, opens, transfers>>
    BY DEF AttachDriver
  <2>4. proc' \in [Procs -> Proc]
    <3>1. \A q \in Procs : proc'[q] \in Proc
      BY <2>1, <2>2
    <3>2. \E f : proc' = [q \in Procs |-> f[q]]
      <4> DEFINE f == [Disturbed(p, d) EXCEPT ![p].pc = "close"]
      <4>1. f = [q \in Procs |-> f[q]]
        BY DEF Disturbed
      <4> HIDE DEF f
      <4> QED
        BY <1>4, <4>1 DEF f
    <3> QED
      BY <3>1, <3>2
  <2>5. TypeOK'
    BY <1>1, <1>2, <1>4, <2>3, <2>4 DEF TypeOK
  <2>6. ASSUME NEW q \in Procs PROVE Own(q)'
    <3>1. CASE q = p
      BY <1>1, <1>2, <1>4, <2>2, <2>3, <3>1
      DEF Own, ClaimsOf, DeviceOf, DriverIsAway, NullHasError, Holds, At,
          Holding, PCs, Closing
    <3>2. CASE q # p
      <4>1. Own(q) /\ proc[q] \in Proc
        BY <1>1 DEF TypeOK
      <4>2. ClaimsOf(q)' /\ DeviceOf(q)' /\ NullHasError(q)'
        BY <1>4, <2>1, <2>3, <3>2, <4>1
        DEF Own, ClaimsOf, DeviceOf, NullHasError, Holds, At
      <4>3. DriverIsAway(q)'
        BY <1>4, <2>1, <3>2, <4>1
        DEF Own, DriverIsAway, Holds, Holding, PCs, Moving, Opening
      <4> QED
        BY <4>2, <4>3 DEF Own
    <3> QED
      BY <3>1, <3>2
  <2>7. ClaimsAreSingle'
    BY <1>1, <2>3 DEF ClaimsAreSingle
  <2>8. ASSUME NEW e \in Devices \ stranded', e \notin driver'
        PROVE  \E q \in Procs : WillAttach(q, e)'
    <3>1. PICK q \in Procs : WillAttach(q, e)
      BY <1>1, <1>4, <2>8 DEF DriverComesBack, WillAttach
    <3>2. q # p
      BY <1>4, <2>8, <3>1 DEF WillAttach, Holds
    <3> QED
      BY <2>1, <3>1, <3>2 DEF WillAttach, Holds, At
  <2> QED
    BY <2>5, <2>6, <2>7, <2>8 DEF IInv, DriverComesBack, WillAttach
<1> QED
  BY <1>3, <1>4 DEF AttachDriver

\* The handle is gone; what was claimed is released.
LEMMA LibusbCloseKeeps ==
    ASSUME IInv, NEW p \in Procs, LibusbClose(p)
    PROVE  IInv'
<1>1. TypeOK /\ Own(p) /\ ClaimsAreSingle
  BY DEF IInv
<1>2. Moved(p, "out", None, {}, proc[p].ret, proc[p].errno)
  <2> DEFINE r == [proc[p] EXCEPT !.pc = "out", !.dev = None, !.met = {}]
  <2>1. r \in Proc
    BY <1>1 DEF TypeOK, Proc, PCs
  <2>2. proc' = [proc EXCEPT ![p] = r]
    BY DEF LibusbClose, Becomes
  <2>3. /\ r.pc = "out" /\ r.dev = None /\ r.met = {}
        /\ r.ret = proc[p].ret /\ r.errno = proc[p].errno
    BY <1>1 DEF TypeOK, Proc
  <2> HIDE DEF r
  <2> QED
    BY <1>1, <2>1, <2>2, <2>3 DEF Moved, OthersStay, TypeOK
<1>3. /\ claims' = claims \ {<<p, proc[p].dev>>} /\ At(p, "close")
      /\ UNCHANGED <<driver, opens, transfers, faults, stranded>>
  BY DEF LibusbClose
<1>4. TypeOK'
  BY <1>1, <1>2, <1>3 DEF TypeOK, Moved
<1>5. Own(p)'
  BY <1>1, <1>2, <1>3
  DEF Moved, Own, ClaimsOf, DeviceOf, DriverIsAway, NullHasError, Holds, At,
      Holding, PCs, Opening, Moving, Closing
<1>6. OthersStay(p)
  BY <1>2 DEF Moved
<1>7. /\ \A q \in Procs \ {p}, d \in Devices :
           <<q, d>> \in claims' <=> <<q, d>> \in claims
      /\ \A q \in Procs \ {p}, d \in Devices :
           <<p, d>> \in claims' => <<q, d>> \notin claims
  BY <1>1, <1>3 DEF ClaimsAreSingle
<1>8. \A d \in Devices : ~WillAttach(p, d)
  BY <1>3 DEF WillAttach
<1> QED
  BY <1>3, <1>4, <1>5, <1>6, <1>7, <1>8, OneMoves

\* A killed process strands what it held.
LEMMA KillKeeps ==
    ASSUME IInv, NEW p \in Procs, Kill(p)
    PROVE  IInv'
<1>1. TypeOK /\ Own(p) /\ ClaimsAreSingle
  BY DEF IInv
<1>2. Moved(p, "dead", None, {}, "none", "none")
  <2> DEFINE r == [Outside EXCEPT !.pc = "dead"]
  <2>1. r \in Proc
    BY DEF Proc, Outside, PCs, Vendors, Errors
  <2>2. proc' = [proc EXCEPT ![p] = r]
    BY DEF Kill, Becomes
  <2>3. /\ r.pc = "dead" /\ r.dev = None /\ r.met = {}
        /\ r.ret = "none" /\ r.errno = "none"
    BY DEF Outside
  <2> HIDE DEF r
  <2> QED
    BY <1>1, <2>1, <2>2, <2>3 DEF Moved, OthersStay, TypeOK
<1>3. /\ claims' = {c \in claims : c[1] # p}
      /\ stranded' = stranded \cup {d \in Devices : Holds(p, d)}
      /\ UNCHANGED <<driver, opens, transfers>>
      /\ faults < MaxFaults /\ faults' = faults + 1
  BY DEF Kill, Fault
<1>4. TypeOK'
  BY <1>1, <1>2, <1>3, BoundsAssumption DEF TypeOK, Moved
<1>5. Own(p)'
  BY <1>1, <1>2, <1>3
  DEF Moved, Own, ClaimsOf, DeviceOf, DriverIsAway, NullHasError, Holds, At,
      Holding, PCs, Opening, Moving, Closing
<1>6. OthersStay(p)
  BY <1>2 DEF Moved
<1>7. /\ \A q \in Procs \ {p}, d \in Devices :
           <<q, d>> \in claims' <=> <<q, d>> \in claims
      /\ \A q \in Procs \ {p}, d \in Devices : <<p, d>> \notin claims'
  BY <1>3
<1>8. \A d \in Devices \ stranded' : ~WillAttach(p, d)
  BY <1>3 DEF WillAttach
<1> QED
  BY <1>3, <1>4, <1>5, <1>6, <1>7, <1>8, OneMoves

-----------------------------------------------------------------------------
(* The theorems.                                                           *)

LEMMA StepKeeps == IInv /\ [Next]_vars => IInv'
<1> SUFFICES ASSUME IInv, [Next]_vars PROVE IInv'
  OBVIOUS
<1>1. CASE UNCHANGED vars
  BY <1>1
  DEF vars, IInv, TypeOK, Own, ClaimsOf, DeviceOf, DriverIsAway, NullHasError,
      ClaimsAreSingle, DriverComesBack, Holds, At
<1>2. ASSUME NEW p \in Procs, NEW index \in Indices, Open(p, index)
      PROVE  IInv'
  BY <1>2, OpenKeeps
<1>3. ASSUME NEW p \in Procs,
             \/ Search(p) \/ LibusbOpen(p) \/ QueryDriver(p)
             \/ DetachDriver(p) \/ GetConfiguration(p)
      PROVE  IInv'
  BY <1>3, SearchKeeps, LibusbOpenKeeps, QueryDriverKeeps, DetachDriverKeeps,
     GetConfigurationKeeps
<1>4. ASSUME NEW p \in Procs,
             \/ Transfer(p) \/ Claim(p) \/ ControlTransfer(p) \/ Release(p)
      PROVE  IInv'
  BY <1>4, TransferKeeps, ClaimKeeps, ControlTransferKeeps, ReleaseKeeps
<1>5. ASSUME NEW p \in Procs,
             \/ Close(p) \/ AttachDriver(p) \/ LibusbClose(p) \/ Kill(p)
      PROVE  IInv'
  BY <1>5, CloseKeeps, AttachDriverKeeps, LibusbCloseKeeps, KillKeeps
<1> QED
  BY <1>1, <1>2, <1>3, <1>4, <1>5 DEF Next

\* The invariant of every reachable state.
LEMMA Inductive == Spec => []IInv
  BY InitIInv, StepKeeps, PTL DEF Spec

\* The locals of every process and the state of every device keep their
\* types.
THEOREM TypeCorrect == Spec => []TypeOK
<1>1. IInv => TypeOK
  BY DEF IInv
<1> QED
  BY <1>1, Inductive, PTL

\* _ykusb_close_device: whoever closes last gives the keyboard driver back,
\* for any number of processes and keys.
THEOREM DriverReturns == Spec => []DriverComesBack
<1>1. IInv => DriverComesBack
  BY DEF IInv
<1> QED
  BY <1>1, Inductive, PTL

\* _ykusb_open_device leaves the driver out of the way of the handle, until
\* another close of the same key.
THEOREM HandleWorks == Spec => []HandleIsUsable
<1>1. IInv => HandleIsUsable
  BY DEF IInv, Own, DriverIsAway, HandleIsUsable
<1> QED
  BY <1>1, Inductive, PTL

\* _ykusb_read and _ykusb_write: no two transfers to a key at once.
THEOREM TransfersExclude == Spec => []TransfersAreExclusive
<1>1. IInv => TransfersAreExclusive
  BY DEF IInv, Own, ClaimsOf, DeviceOf, ClaimsAreSingle, TransfersAreExclusive,
         At, Holding, PCs, Moving
<1> QED
  BY <1>1, Inductive, PTL

\* yk_open_key: a NULL comes with an error.
THEOREM NullExplained == Spec => []NullIsTold
<1>1. IInv => NullIsTold
  BY DEF IInv, Own, NullHasError, NullIsTold, At
<1> QED
  BY <1>1, Inductive, PTL
=============================================================================
