----------------------------- MODULE UsbDevice -----------------------------
(***************************************************************************)
(* The life of a handle: yk_open_key and yk_close_key of ykcore/ykcore.c   *)
(* over the libusb-1.0 backend, by several processes at once on a machine  *)
(* with several keys.                                                      *)
(*                                                                         *)
(* The keys are taken from the operating system's keyboard driver when a   *)
(* handle is opened and given back when it is closed; between the two, the *)
(* interface is claimed for every transfer and released after it.  One     *)
(* action is one libusb call with the code up to the next.  The operating  *)
(* system's side of a call (who may detach, claim, attach) is libusb's on  *)
(* Linux; the rest is the source's.  All keys stay in configuration 1, so  *)
(* libusb_set_configuration is never reached.                              *)
(***************************************************************************)
EXTENDS Integers, FiniteSets

CONSTANTS
    Procs,         \* the processes
    Devices,       \* the keys, numbered in the order libusb lists them
    Yubico,        \* those of them with Yubico's vendor id
    Indices,       \* the indices asked for: yk_open_key(index)
    None,          \* no device
    MaxOpens,      \* bound: calls of yk_open_key in all
    MaxTransfers,  \* bound: transfers on an open handle in all
    MaxFaults      \* bound: libusb calls that fail for no visible reason,
                   \* and processes killed

ASSUME DevicesAssumption ==
    /\ Devices \subseteq Nat
    /\ Yubico \subseteq Devices
    /\ Indices \subseteq Nat
    /\ None \notin Devices
ASSUME BoundsAssumption ==
    MaxOpens \in Nat /\ MaxTransfers \in Nat /\ MaxFaults \in Nat

VARIABLES
    proc,        \* where each process is, and its locals
    driver,      \* the devices bound to the kernel's own driver
    claims,      \* <<p, d>>: p has claimed the interface of d
    opens,       \* calls of yk_open_key so far
    transfers,   \* transfers on an open handle so far
    faults,      \* failures so far
    stranded     \* history: devices some handle of which ended in a failure
                 \* or by a kill

vars == <<proc, driver, claims, opens, transfers, faults, stranded>>

Errors == {"none", "ENOKEY", "EUSBERR"}
Vendors == {"yubico", "other"}
Opening == {"search", "open", "query", "detach", "configuration"}
Moving == {"claim", "transfer", "release"}
Closing == {"attach", "close"}
PCs == {"out", "ready", "dead"} \cup Opening \cup Moving \cup Closing

\* probe: the transfer is the yk_get_status of yk_open_key.  ret: what the
\* last yk_open_key returned.  met: history, what befell the handle.
Proc == [pc : PCs, index : Indices \cup {0}, vendor : Vendors,
         dev : Devices \cup {None}, probe : BOOLEAN, errno : Errors,
         ok : BOOLEAN, ret : {"none", "key", "null"},
         met : SUBSET {"fault", "close"}]

Outside == [pc |-> "out", index |-> 0, vendor |-> "yubico", dev |-> None,
            probe |-> FALSE, errno |-> "none", ok |-> TRUE, ret |-> "none",
            met |-> {}]

\* A handle is open from libusb_open to libusb_close.
Holding == PCs \ ({"out", "dead", "search", "open"})
Holds(p, d) == proc[p].dev = d /\ proc[p].pc \in Holding

At(p, pc) == proc[p].pc = pc
Becomes(p, locals) == proc' = [proc EXCEPT ![p] = locals]
Goes(p, pc) == Becomes(p, [proc[p] EXCEPT !.pc = pc])
\* A libusb call may fail although nothing here says why.
Fault == faults < MaxFaults /\ faults' = faults + 1

-----------------------------------------------------------------------------
(* _ykusb_open_device.                                                     *)

ListedFor(vendor) == IF vendor = "yubico" THEN Yubico ELSE Devices \ Yubico

\* Device d is the one counted up to index in the list of its vendor's keys.
IsTheNth(d, vendor, index) ==
    /\ d \in ListedFor(vendor)
    /\ Cardinality({e \in ListedFor(vendor) : e < d}) = index

\* Mutant of NoHandle: the last error is not kept for the caller.
NoHandleUntold(p, error) ==
    Becomes(p, IF proc[p].vendor = "yubico"
               THEN [proc[p] EXCEPT !.pc = "search", !.vendor = "other",
                                    !.dev = None, !.errno = "none"]
               ELSE [proc[p] EXCEPT !.pc = "out", !.ret = "null",
                                    !.dev = None, !.errno = "none"])

\* No handle came of a search.  After the first one yk_open_key forgets the
\* error and searches among the other vendor's keys.
NoHandle(p, error) ==
    Becomes(p, IF proc[p].vendor = "yubico"
               THEN [proc[p] EXCEPT !.pc = "search", !.vendor = "other",
                                    !.dev = None, !.errno = "none"]
               ELSE [proc[p] EXCEPT !.pc = "out", !.ret = "null",
                                    !.dev = None, !.errno = error])

\* yk_open_key is entered.
Open(p, index) ==
    /\ At(p, "out")
    /\ opens < MaxOpens
    /\ opens' = opens + 1
    /\ Becomes(p, [Outside EXCEPT !.pc = "search", !.index = index,
                                  !.errno = proc[p].errno])
    /\ UNCHANGED <<driver, claims, transfers, faults, stranded>>

\* Mutant of Search: the search is not asked whether it found a device.
SearchUnguarded(p) ==
    /\ At(p, "search")
    /\ \E d \in Devices \cup {None} :
          /\ IF d = None
             THEN \A e \in Devices : ~IsTheNth(e, proc[p].vendor, proc[p].index)
             ELSE IsTheNth(d, proc[p].vendor, proc[p].index)
          /\ Becomes(p, [proc[p] EXCEPT !.pc = "open", !.dev = d])
    /\ UNCHANGED <<driver, claims, opens, transfers, faults, stranded>>

\* libusb_get_device_list and the descriptor of each device in it.  A
\* descriptor that cannot be read ends the search with rc as it was set,
\* YK_ENOKEY.
Search(p) ==
    /\ At(p, "search")
    /\ \/ \E d \in Devices :
            /\ IsTheNth(d, proc[p].vendor, proc[p].index)
            /\ Becomes(p, [proc[p] EXCEPT !.pc = "open", !.dev = d])
            /\ UNCHANGED faults
       \/ /\ \A d \in Devices : ~IsTheNth(d, proc[p].vendor, proc[p].index)
          /\ NoHandle(p, "ENOKEY")
          /\ UNCHANGED faults
       \/ Fault /\ NoHandle(p, "ENOKEY")
    /\ UNCHANGED <<driver, claims, opens, transfers, stranded>>

\* libusb_open.
LibusbOpen(p) ==
    /\ At(p, "open")
    /\ \/ Goes(p, "query") /\ UNCHANGED faults
       \/ Fault /\ NoHandle(p, "EUSBERR")
    /\ UNCHANGED <<driver, claims, opens, transfers, stranded>>

\* The handle is returned; yk_open_key goes on to read the status.  Every
\* failure after libusb_open ends here too, with the handle.
Opened(p, befell) ==
    Becomes(p, [proc[p] EXCEPT !.pc = "claim", !.probe = TRUE,
                               !.met = @ \cup befell])

\* Mutant of QueryDriver: the keyboard driver is left where it is.
QueryDriverOnly(p) ==
    /\ At(p, "query")
    /\ \/ Goes(p, "configuration") /\ UNCHANGED faults
       \/ Fault /\ Opened(p, {"fault"})
    /\ UNCHANGED <<driver, claims, opens, transfers, stranded>>

\* libusb_kernel_driver_active: not so when another process uses the device.
QueryDriver(p) ==
    /\ At(p, "query")
    /\ \/ /\ Goes(p, IF proc[p].dev \in driver THEN "detach"
                                               ELSE "configuration")
          /\ UNCHANGED faults
       \/ Fault /\ Opened(p, {"fault"})
    /\ UNCHANGED <<driver, claims, opens, transfers, stranded>>

\* libusb_detach_kernel_driver: fails when another process was faster.
DetachDriver(p) ==
    /\ At(p, "detach")
    /\ LET d == proc[p].dev IN
       \/ /\ d \in driver
          /\ driver' = driver \ {d}
          /\ Goes(p, "configuration")
          /\ UNCHANGED faults
       \/ d \notin driver /\ Opened(p, {}) /\ UNCHANGED <<driver, faults>>
       \/ Fault /\ Opened(p, {"fault"}) /\ UNCHANGED driver
    /\ UNCHANGED <<claims, opens, transfers, stranded>>

\* libusb_get_configuration: well or ill, the handle is returned.
GetConfiguration(p) ==
    /\ At(p, "configuration")
    /\ \/ Opened(p, {}) /\ UNCHANGED faults
       \/ Fault /\ Opened(p, {"fault"})
    /\ UNCHANGED <<driver, claims, opens, transfers, stranded>>

-----------------------------------------------------------------------------
(* _ykusb_read and _ykusb_write, and what yk_open_key makes of its read.   *)

\* The transfer is over, ok or not.  Within yk_open_key a failure closes the
\* handle again; the error outlives the closing.
TransferEnds(p, ok) ==
    Becomes(p,
        [proc[p] EXCEPT
            !.pc = IF proc[p].probe /\ ~ok THEN "attach" ELSE "ready",
            !.ret = CASE ~proc[p].probe -> @
                      [] proc[p].probe /\ ok -> "key"
                      [] proc[p].probe /\ ~ok -> "null",
            !.errno = IF ok THEN @ ELSE "EUSBERR",
            !.probe = FALSE,
            !.ok = TRUE])

\* A call on an open handle begins a transfer.
Transfer(p) ==
    /\ At(p, "ready")
    /\ transfers < MaxTransfers
    /\ transfers' = transfers + 1
    /\ Goes(p, "claim")
    /\ UNCHANGED <<driver, claims, opens, faults, stranded>>

\* The interface may be claimed: the keyboard driver does not have it, nor
\* has another process.
Claimable(p, d) ==
    /\ d \notin driver
    /\ \A q \in Procs \ {p} : <<q, d>> \notin claims

\* Mutant of Claim: the result of libusb_claim_interface is not looked at.
ClaimUnchecked(p) ==
    /\ At(p, "claim")
    /\ LET d == proc[p].dev IN
       /\ claims' = IF Claimable(p, d) THEN claims \cup {<<p, d>>} ELSE claims
       /\ Goes(p, "transfer")
       /\ UNCHANGED faults
    /\ UNCHANGED <<driver, opens, transfers, stranded>>

\* libusb_claim_interface.
Claim(p) ==
    /\ At(p, "claim")
    /\ LET d == proc[p].dev IN
       \/ /\ Claimable(p, d)
          /\ claims' = claims \cup {<<p, d>>}
          /\ Goes(p, "transfer")
          /\ UNCHANGED faults
       \/ /\ ~Claimable(p, d)
          /\ TransferEnds(p, FALSE)
          /\ UNCHANGED <<claims, faults>>
       \/ Fault /\ TransferEnds(p, FALSE) /\ UNCHANGED claims
    /\ UNCHANGED <<driver, opens, transfers, stranded>>

\* libusb_control_transfer.
ControlTransfer(p) ==
    /\ At(p, "transfer")
    /\ \/ Goes(p, "release") /\ UNCHANGED faults
       \/ Fault /\ Becomes(p, [proc[p] EXCEPT !.pc = "release", !.ok = FALSE])
    /\ UNCHANGED <<driver, claims, opens, transfers, stranded>>

\* libusb_release_interface.  A failed release fails the transfer, unless
\* that failed already; the claim then lasts.
Release(p) ==
    /\ At(p, "release")
    /\ \/ /\ claims' = claims \ {<<p, proc[p].dev>>}
          /\ TransferEnds(p, proc[p].ok)
          /\ UNCHANGED <<faults, stranded>>
       \/ /\ Fault
          /\ TransferEnds(p, FALSE)
          /\ stranded' = stranded \cup {proc[p].dev}
          /\ UNCHANGED claims
    /\ UNCHANGED <<driver, opens, transfers>>

-----------------------------------------------------------------------------
(* _ykusb_close_device.                                                    *)

\* yk_close_key is entered.
Close(p) ==
    /\ At(p, "ready")
    /\ Goes(p, "attach")
    /\ UNCHANGED <<driver, claims, opens, transfers, faults, stranded>>

\* A handle of d held by another process has the keyboard driver put back
\* under it.
Disturbed(p, d) ==
    [q \in Procs |-> IF q # p /\ Holds(q, d)
                     THEN [proc[q] EXCEPT !.met = @ \cup {"close"}]
                     ELSE proc[q]]

\* Mutant of AttachDriver: the driver is not given back.
AttachDriverNever(p) ==
    /\ At(p, "attach")
    /\ Goes(p, "close")
    /\ UNCHANGED <<driver, claims, opens, transfers, faults, stranded>>

\* libusb_attach_kernel_driver, its result not looked at.  It does nothing
\* while the interface is claimed.
AttachDriver(p) ==
    /\ At(p, "attach")
    /\ LET d == proc[p].dev
           free == \A q \in Procs : <<q, d>> \notin claims IN
       \/ /\ free
          /\ driver' = driver \cup {d}
          /\ proc' = [Disturbed(p, d) EXCEPT ![p].pc = "close"]
          /\ UNCHANGED <<faults, stranded>>
       \/ ~free /\ Goes(p, "close") /\ UNCHANGED <<driver, faults, stranded>>
       \/ /\ Fault
          /\ Goes(p, "close")
          /\ stranded' = stranded \cup {d}
          /\ UNCHANGED driver
    /\ UNCHANGED <<claims, opens, transfers>>

\* libusb_close: what p still claims is released.
LibusbClose(p) ==
    /\ At(p, "close")
    /\ claims' = claims \ {<<p, proc[p].dev>>}
    /\ Becomes(p, [proc[p] EXCEPT !.pc = "out", !.dev = None, !.met = {}])
    /\ UNCHANGED <<driver, opens, transfers, faults, stranded>>

\* The process is killed: the system closes the handle and nobody attaches
\* the driver.
Kill(p) ==
    /\ proc[p].pc \notin {"out", "dead"}
    /\ Fault
    /\ stranded' = stranded \cup {d \in Devices : Holds(p, d)}
    /\ claims' = {c \in claims : c[1] # p}
    /\ Becomes(p, [Outside EXCEPT !.pc = "dead"])
    /\ UNCHANGED <<driver, opens, transfers>>

-----------------------------------------------------------------------------
Init ==
    /\ proc = [p \in Procs |-> Outside]
    /\ driver = Devices
    /\ claims = {}
    /\ opens = 0 /\ transfers = 0 /\ faults = 0
    /\ stranded = {}

Next == \E p \in Procs :
    \/ \E index \in Indices : Open(p, index)
    \/ Search(p) \/ LibusbOpen(p) \/ QueryDriver(p) \/ DetachDriver(p)
    \/ GetConfiguration(p)
    \/ Transfer(p) \/ Claim(p) \/ ControlTransfer(p) \/ Release(p)
    \/ Close(p) \/ AttachDriver(p) \/ LibusbClose(p)
    \/ Kill(p)

Spec == Init /\ [][Next]_vars

-----------------------------------------------------------------------------
(* Properties.                                                             *)

\* The type invariant.
TypeOK ==
    /\ proc \in [Procs -> Proc]
    /\ driver \subseteq Devices
    /\ claims \subseteq Procs \X Devices
    /\ opens \in 0 .. MaxOpens
    /\ transfers \in 0 .. MaxTransfers
    /\ faults \in 0 .. MaxFaults
    /\ stranded \subseteq Devices

\* A key that nobody has open types again: whoever closed it last, and
\* however the opens, transfers and closes of the processes overlapped, the
\* keyboard driver is back -- unless the device was left by a kill or a
\* failed release or attach.
DriverComesBack ==
    \A d \in Devices \ stranded :
        d \notin driver => \E p \in Procs : Holds(p, d) /\ ~At(p, "close")

\* A handle that yk_open_key gave can make transfers: the keyboard driver
\* does not have the interface, unless a step of the opening failed or
\* another process closed its handle of the same key in the meantime.
HandleIsUsable ==
    \A p \in Procs :
        proc[p].pc \in {"claim", "ready", "transfer", "release"}
            /\ proc[p].met = {}
            => proc[p].dev \notin driver

\* _ykusb_read and _ykusb_write transfer under a claim of their own, so no
\* two transfers to a key run at once.  KeyProtocol takes a transfer for one
\* step because of this.
TransfersAreExclusive ==
    \A p, q \in Procs :
        /\ At(p, "transfer") => <<p, proc[p].dev>> \in claims
        /\ At(p, "transfer") /\ At(q, "transfer") /\ p # q
              => proc[p].dev # proc[q].dev

\* yk_open_key that returns NULL says why in yk_errno (ykcore.h:44), past
\* its two searches and the closing of a handle that gave no status.
NullIsTold ==
    \A p \in Procs :
        At(p, "out") /\ proc[p].ret = "null" => proc[p].errno # "none"
=============================================================================
