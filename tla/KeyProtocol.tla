---------------------------- MODULE KeyProtocol ----------------------------
(***************************************************************************)
(* ykcore/ykcore.c against the key: the processes (or threads) that hold   *)
(* a handle, each inside one library call, and the key they all share.     *)
(* One action is one USB transfer of ykcore.c with the code that runs up   *)
(* to the next transfer, because the backend claims the interface for one  *)
(* transfer only: between any two transfers of a call the transfers of     *)
(* another process may slip in.                                            *)
(*                                                                         *)
(* A call writes a frame (ten reports in the code, parts 0 .. LastPart     *)
(* here), each part after a wait for the write flag to clear.  A           *)
(* configuration write is framed by two reads of the status; a command     *)
(* with an answer is followed by reads of the response, one chunk each.    *)
(*                                                                         *)
(* The key itself is not in the repository.  It is modelled from what      *)
(* ykcore.c says of it and reads from it, and where that leaves a choice   *)
(* the key makes any.                                                      *)
(***************************************************************************)
EXTENDS Integers, Sequences, FiniteSets

CONSTANTS
    Clients,      \* the processes or threads using the key
    Kinds,        \* the calls they make
    Payloads,     \* the contents of a frame, part by part
    LastPart,     \* the last part of a frame
    ChunksOf,     \* reports in the answer, for each kind that is answered
    BufChunks,    \* reports that fit the caller's buffer, for each such kind
    MaxPolls,     \* polls before a wait is out of time (see KeyWait)
    BlockPolls,   \* polls added while the user is awaited
    SeqMod,       \* pgmSeq counts modulo SeqMod
    MaxOps,       \* bound: calls made in all
    MaxFaults     \* bound: failed transfers and killed processes in all

Parts == 0 .. LastPart
Body  == 0 .. LastPart - 1        \* the parts that hold the payload
SeqNos == 0 .. SeqMod - 1

WriteKinds  == {"config"}
CheckedKinds == {"challenge", "serial"}            \* expect_bytes > 0: CRC
AnswerKinds == CheckedKinds \cup {"capabilities"}
AllKinds == WriteKinds \cup AnswerKinds \cup {"status"}

ASSUME KindsAssumption ==
    /\ Kinds \subseteq AllKinds
    /\ ChunksOf \in [AnswerKinds -> Nat \ {0}]
ASSUME FrameAssumption ==
    /\ LastPart \in Nat \ {0}
    /\ Payloads \subseteq [Body -> Nat]
ASSUME BoundsAssumption ==
    /\ BufChunks \in [AnswerKinds -> Nat \ {0}]
    /\ MaxPolls \in Nat \ {0}
    /\ BlockPolls \in Nat
    /\ SeqMod \in Nat \ {0, 1}
    /\ MaxOps \in Nat
    /\ MaxFaults \in Nat

VARIABLES
    cl,           \* the clients: where each is in its call, and its locals
    inbox,        \* the report the key has yet to process (SLOT_WRITE_FLAG)
    frame,        \* the payload the key has put together so far
    resp,         \* the answer being read; n = 0: the key shows its status
    pos,          \* chunks of it handed out
    touch,        \* the answer that awaits the user; n = 0: none
    pgmSeq,       \* the programming sequence number of the status
    valid,        \* CONFIG1_VALID or CONFIG2_VALID is set in touchLevel
    ops,          \* calls made so far; numbers them
    faults,       \* failures so far
    accepted,     \* history: calls whose frame passed the key's CRC
    applied       \* history: configuration writes that took effect

keyVars == <<inbox, frame, resp, pos, touch, pgmSeq, valid>>
vars == <<cl, keyVars, ops, faults, accepted, applied>>

Zeros == [k \in Body |-> 0]
NoOp == [kind |-> "none", tag |-> 0, payload |-> Zeros, mayBlock |-> FALSE]
NoReport == [part |-> -1, op |-> NoOp]
NoAnswer == [tag |-> 0, n |-> 0]

Op == [kind : AllKinds \cup {"none"}, tag : 0 .. MaxOps,
       payload : [Body -> Nat], mayBlock : BOOLEAN]
Report == [part : -1 .. LastPart, op : Op]
Answer == [tag : 0 .. MaxOps, n : Nat]
Chunk  == [tag : 0 .. MaxOps, i : Nat, n : Nat]

Results == {"none", "ok", "killed", "EUSBERR", "EWRONGSIZ", "EWRITEERR",
            "ETIMEOUT", "EWOULDBLOCK", "ECHECKSUM", "unset"}
PCs == {"idle", "status", "seq", "frame", "send", "settle", "verify",
        "pending", "read", "reset"}

-----------------------------------------------------------------------------
(* What the key shows.                                                     *)

\* A write into the key that it has not processed raises SLOT_WRITE_FLAG.
WriteFlag == inbox # NoReport
WaitFlag  == touch.n > 0
PendingFlag == resp.n > 0

\* The sequence bits of a response report: they count the chunks and go back
\* to zero after the last one.
SeqBits == IF pos < resp.n THEN pos ELSE 0
ChunkShown == IF pos < resp.n THEN [tag |-> resp.tag, i |-> pos, n |-> resp.n]
                              ELSE [tag |-> 0, i |-> 0, n |-> 0]

\* A read hands out a chunk, whoever reads and whatever for.
HandOut == pos' = IF pos < resp.n THEN pos + 1 ELSE pos

Read == /\ HandOut
        /\ UNCHANGED <<inbox, frame, resp, touch, pgmSeq, valid, ops, faults,
                       accepted, applied>>

\* yk_get_status takes what it reads for a status, whatever it is: in
\* response mode the six bytes are those of a chunk.
StatusRead(seqno, isValid) ==
    ~PendingFlag => seqno = pgmSeq /\ isValid = valid

-----------------------------------------------------------------------------
(* The calls.                                                              *)

\* Client c is at pc and goes on with these changes of its locals.
At(c, pc) == cl[c].pc = pc
Becomes(c, locals) == cl' = [cl EXCEPT ![c] = locals]
Return(c, result) ==
    Becomes(c, [cl[c] EXCEPT !.pc = "idle", !.res = result])

\* Mutant of FirstPart: an all-zero first part is left out like any other.
FirstPartSkipped(op) ==
    IF op.payload[0] # 0 THEN 0
    ELSE CHOOSE j \in 1 .. LastPart :
            /\ j = LastPart \/ op.payload[j] # 0
            /\ \A i \in 1 .. j - 1 : op.payload[i] = 0

\* The part of the frame written first: always part 0, all zero or not.
FirstPart(op) == 0

\* Part j is the one written after part k: all-zero parts are left out, the
\* last excepted.
IsNextPart(op, k, j) ==
    /\ j > k
    /\ j \in Body => op.payload[j] # 0
    /\ \A i \in k + 1 .. j - 1 : op.payload[i] = 0

\* The locals at the start of a wait for a status.
Waiting(locals, pc) ==
    [locals EXCEPT !.pc = pc, !.budget = MaxPolls, !.blocking = FALSE]

FirstPc(kind) == IF kind = "status" THEN "status"
                 ELSE IF kind \in WriteKinds THEN "seq" ELSE "frame"

\* The locals of a call that starts.
Fresh(op, pc) ==
    [pc |-> pc, op |-> op, part |-> FirstPart(op), budget |-> MaxPolls,
     blocking |-> FALSE, seq |-> 0, buf |-> <<>>, res |-> "none",
     sure |-> TRUE, blank |-> FALSE]

\* A call of the library is made.
Call(c) ==
    /\ At(c, "idle")
    /\ ops < MaxOps
    /\ ops' = ops + 1
    /\ \E kind \in Kinds, payload \in Payloads \cup {Zeros}, mayBlock \in BOOLEAN :
          /\ mayBlock => kind = "challenge"
          /\ IF kind \in {"config", "challenge"} THEN payload \in Payloads
                                                ELSE payload = Zeros
          /\ Becomes(c, Fresh([kind |-> kind, tag |-> ops + 1,
                               payload |-> payload, mayBlock |-> mayBlock],
                              FirstPc(kind)))
    /\ UNCHANGED <<keyVars, faults, accepted, applied>>

\* yk_get_status on its own.
GetStatus(c) ==
    /\ At(c, "status")
    /\ Read
    /\ Return(c, "ok")

\* _yk_write: the sequence number before the update.
ReadSeq(c) ==
    /\ At(c, "seq")
    /\ Read
    /\ \E s \in SeqNos, v \in BOOLEAN :
          /\ StatusRead(s, v)
          /\ Becomes(c, [cl[c] EXCEPT !.pc = "frame", !.seq = s,
                             !.sure = ~PendingFlag /\ ~WriteFlag])

\* Mutant of Verify: a sequence number of zero is taken for a blank key,
\* whether or not a slot is configured.
VerifyLoosely(c) ==
    /\ At(c, "verify")
    /\ Read
    /\ \E s \in SeqNos, v \in BOOLEAN :
          /\ StatusRead(s, v)
          /\ Becomes(c, [cl[c] EXCEPT
                !.pc = "idle",
                !.sure = @ /\ ~PendingFlag,
                !.blank = ~v /\ s = 0,
                !.res = IF s = 0 \/ s # cl[c].seq THEN "ok" ELSE "EWRITEERR"])

\* _yk_write: verify the update.
Verify(c) ==
    /\ At(c, "verify")
    /\ Read
    /\ \E s \in SeqNos, v \in BOOLEAN :
          /\ StatusRead(s, v)
          /\ Becomes(c, [cl[c] EXCEPT
                !.pc = "idle",
                !.sure = @ /\ ~PendingFlag,
                !.blank = ~v /\ s = 0,
                !.res = IF (~v /\ s = 0) \/ s # cl[c].seq
                        THEN "ok" ELSE "EWRITEERR"])

-----------------------------------------------------------------------------
(* yk_wait_for_key_status, in the three places that call it.               *)

InWait(c) == cl[c].pc \in {"frame", "settle", "pending"}
WaitOver(c) == IF At(c, "pending") THEN PendingFlag ELSE ~WriteFlag
MayBlock(c) == At(c, "pending") /\ cl[c].op.mayBlock

\* Mutant of Poll: the loop has lost its condition.
PollForever(c) ==
    /\ InWait(c)
    /\ Read

\* One turn of the loop: a read while the time is not up.
Poll(c) ==
    /\ InWait(c)
    /\ cl[c].budget > 0
    /\ Read

\* The awaited status is there.  A response's first chunk came with it.
PollHits(c) ==
    /\ Poll(c)
    /\ WaitOver(c)
    /\ Becomes(c, IF At(c, "frame") THEN [cl[c] EXCEPT !.pc = "send"]
                  ELSE IF At(c, "settle") THEN [cl[c] EXCEPT !.pc = "verify"]
                  ELSE [cl[c] EXCEPT !.pc = "read", !.buf = <<ChunkShown>>])

\* The key waits for the user and the caller does not want to: the read mode
\* is reset before the call fails.
PollRefuses(c) ==
    /\ Poll(c)
    /\ ~WaitOver(c)
    /\ WaitFlag
    /\ ~MayBlock(c)
    /\ Becomes(c, [cl[c] EXCEPT !.pc = "reset", !.res = "EWOULDBLOCK"])

\* Mutant of PollBlocks: the time is extended on every poll, not on the first.
PollBlocksAgain(c) ==
    /\ Poll(c)
    /\ ~WaitOver(c)
    /\ WaitFlag
    /\ MayBlock(c)
    /\ Becomes(c, [cl[c] EXCEPT
          !.blocking = TRUE, !.budget = @ - 1 + BlockPolls])

PollBlocks(c) ==
    /\ Poll(c)
    /\ ~WaitOver(c)
    /\ WaitFlag
    /\ MayBlock(c)
    /\ Becomes(c, [cl[c] EXCEPT
          !.blocking = TRUE,
          !.budget = IF cl[c].blocking THEN @ - 1 ELSE @ - 1 + BlockPolls])

\* The key no longer waits for the user, and has no answer.
PollUserGone(c) ==
    /\ Poll(c)
    /\ ~WaitOver(c)
    /\ ~WaitFlag
    /\ cl[c].blocking
    /\ Return(c, "ETIMEOUT")

PollAgain(c) ==
    /\ Poll(c)
    /\ ~WaitOver(c)
    /\ ~WaitFlag
    /\ ~cl[c].blocking
    /\ Becomes(c, [cl[c] EXCEPT !.budget = @ - 1])

PollTimesOut(c) ==
    /\ InWait(c)
    /\ cl[c].budget = 0
    /\ Return(c, "ETIMEOUT")
    /\ UNCHANGED <<keyVars, ops, faults, accepted, applied>>

-----------------------------------------------------------------------------
(* yk_write_to_key and yk_read_response_from_key.                          *)

\* Mutant of AfterPart: the next part is sent without waiting for its turn.
AfterPartUnpaced(c, j) ==
    IF cl[c].part < LastPart THEN [cl[c] EXCEPT !.part = j, !.pc = "send"]
    ELSE IF cl[c].op.kind \in WriteKinds THEN Waiting(cl[c], "settle")
                                         ELSE Waiting(cl[c], "pending")

\* After a part: wait for the turn of the next one, j; after the last one,
\* the call goes on with its answer or with the end of the update.
AfterPart(c, j) ==
    IF cl[c].part < LastPart THEN Waiting([cl[c] EXCEPT !.part = j], "frame")
    ELSE IF cl[c].op.kind \in WriteKinds THEN Waiting(cl[c], "settle")
                                         ELSE Waiting(cl[c], "pending")

\* A report reaches the key.
Deliver(c) == inbox' = [part |-> cl[c].part, op |-> cl[c].op]

SendPart(c) ==
    /\ At(c, "send")
    /\ Deliver(c)
    /\ \E j \in Parts :
          /\ cl[c].part < LastPart => IsNextPart(cl[c].op, cl[c].part, j)
          /\ Becomes(c, AfterPart(c, j))
    /\ UNCHANGED <<frame, resp, pos, touch, pgmSeq, valid, ops, faults,
                   accepted, applied>>

\* yubikey_crc16 over the expected bytes: right for the whole answer to one
\* command of this length, and for nothing else.
CrcOk(buf, n) ==
    /\ Len(buf) >= n
    /\ \E tag \in 1 .. MaxOps :
          \A i \in 1 .. n : buf[i] = [tag |-> tag, i |-> i - 1, n |-> n]

\* *bytes_read + FEATURE_RPT_SIZE <= bufsize: one more report fits.
RoomLeft(c) == Len(cl[c].buf) < BufChunks[cl[c].op.kind]

\* Mutant of Judge: the length is checked, the CRC is not.
JudgeUnchecked(op, buf) ==
    IF op.kind \in CheckedKinds /\ Len(buf) # ChunksOf[op.kind]
    THEN "EWRONGSIZ" ELSE "ok"

\* How a response that has come to its end is judged.
Judge(op, buf) ==
    IF op.kind \notin CheckedKinds THEN "ok"
    ELSE IF ~CrcOk(buf, ChunksOf[op.kind]) THEN "ECHECKSUM"
    ELSE IF Len(buf) # ChunksOf[op.kind] THEN "EWRONGSIZ"
    ELSE "ok"

\* One more report of the response.
ReadChunk(c) ==
    /\ At(c, "read")
    /\ RoomLeft(c)
    /\ PendingFlag
    /\ SeqBits # 0
    /\ Read
    /\ Becomes(c, [cl[c] EXCEPT !.buf = Append(@, ChunkShown)])

\* Mutant of Ending: the read mode is never reset.
EndingAbruptly(verdict) == "idle"

\* Only a response that is accepted has the read mode reset.
Ending(verdict) == IF verdict = "ok" THEN "reset" ELSE "idle"

\* The sequence number is back at zero.
ReadEnd(c) ==
    /\ At(c, "read")
    /\ RoomLeft(c)
    /\ PendingFlag
    /\ SeqBits = 0
    /\ Read
    /\ LET verdict == Judge(cl[c].op, cl[c].buf) IN
          Becomes(c, [cl[c] EXCEPT !.res = verdict, !.pc = Ending(verdict)])

\* The response has gone: failure, and yk_errno is left as it was.
ReadLost(c) ==
    /\ At(c, "read")
    /\ RoomLeft(c)
    /\ ~PendingFlag
    /\ Read
    /\ Becomes(c, [cl[c] EXCEPT !.pc = "reset", !.res = "unset"])

ReadTooLong(c) ==
    /\ At(c, "read")
    /\ ~RoomLeft(c)
    /\ Becomes(c, [cl[c] EXCEPT !.pc = "reset", !.res = "EWRONGSIZ"])
    /\ UNCHANGED <<keyVars, ops, faults, accepted, applied>>

\* yk_force_key_update: the key leaves the read mode and forgets the user.
DummyReport == resp' = NoAnswer /\ pos' = 0 /\ touch' = NoAnswer

\* What the call returns then.  The capabilities begin with their length: it
\* is that of any answer read for them, and may not fit the caller's buffer.
Outcomes(c) ==
    IF cl[c].op.kind = "capabilities" /\ cl[c].res = "ok"
    THEN {"ok", "EWRONGSIZ"} ELSE {cl[c].res}

ResetReadMode(c) ==
    /\ At(c, "reset")
    /\ DummyReport
    /\ \E result \in Outcomes(c) : Return(c, result)
    /\ UNCHANGED <<inbox, frame, pgmSeq, valid, ops, faults, accepted, applied>>

-----------------------------------------------------------------------------
(* Failures: a transfer that fails may have reached the key all the same.  *)

Fault == faults < MaxFaults /\ faults' = faults + 1

ReadFails(c) ==
    /\ \/ cl[c].pc \in {"status", "seq", "verify"}
       \/ InWait(c) /\ cl[c].budget > 0
       \/ At(c, "read") /\ RoomLeft(c)
    /\ Fault
    /\ HandOut \/ pos' = pos
    /\ Return(c, "EUSBERR")
    /\ UNCHANGED <<inbox, frame, resp, touch, pgmSeq, valid, ops, accepted,
                   applied>>

SendFails(c) ==
    /\ At(c, "send")
    /\ Fault
    /\ Deliver(c) \/ inbox' = inbox
    /\ Return(c, "EUSBERR")
    /\ UNCHANGED <<frame, resp, pos, touch, pgmSeq, valid, ops, accepted,
                   applied>>

\* No caller looks at what yk_force_key_update returns.
ResetFails(c) ==
    /\ At(c, "reset")
    /\ Fault
    /\ DummyReport \/ UNCHANGED <<resp, pos, touch>>
    /\ \E result \in Outcomes(c) : Return(c, result)
    /\ UNCHANGED <<inbox, frame, pgmSeq, valid, ops, accepted, applied>>

\* The process ends in the middle of a call, and is started again.
Killed(c) ==
    /\ ~At(c, "idle")
    /\ Fault
    /\ Return(c, "killed")
    /\ UNCHANGED <<keyVars, ops, accepted, applied>>

-----------------------------------------------------------------------------
(* The key.                                                                *)

\* It takes a part of a frame: the first part starts a new one.  It no longer
\* waits for the user, and may or may not give up the answer it was showing.
KeyTakesPart ==
    /\ inbox.part \in Body
    /\ frame' = [(IF inbox.part = 0 THEN Zeros ELSE frame)
                   EXCEPT ![inbox.part] = inbox.op.payload[inbox.part]]
    /\ inbox' = NoReport
    /\ touch' = NoAnswer
    /\ \/ UNCHANGED <<resp, pos>>
       \/ resp' = NoAnswer /\ pos' = 0
    /\ UNCHANGED <<cl, pgmSeq, valid, ops, faults, accepted, applied>>

\* The last part holds the command and the CRC of the payload.
KeyRejectsFrame ==
    /\ inbox.part = LastPart
    /\ frame # inbox.op.payload
    /\ inbox' = NoReport
    /\ UNCHANGED <<cl, frame, resp, pos, touch, pgmSeq, valid, ops, faults,
                   accepted, applied>>

KeyAccepts(kinds) ==
    /\ inbox.part = LastPart
    /\ frame = inbox.op.payload
    /\ inbox.op.kind \in kinds
    /\ inbox' = NoReport
    /\ accepted' = accepted \cup {inbox.op.tag}
    /\ UNCHANGED <<cl, frame, ops, faults>>

\* An update counts pgmSeq up, or back to zero when it leaves no slot
\* configured; or it is refused (an access code, say).
KeyUpdates ==
    /\ KeyAccepts(WriteKinds)
    /\ \/ /\ valid' = TRUE
          /\ pgmSeq' = IF pgmSeq + 1 = SeqMod THEN 0 ELSE pgmSeq + 1
          /\ applied' = applied \cup {inbox.op.tag}
       \/ /\ valid' = FALSE
          /\ pgmSeq' = 0
          /\ applied' = applied \cup {inbox.op.tag}
       \/ UNCHANGED <<valid, pgmSeq, applied>>
    /\ UNCHANGED <<resp, pos, touch>>

\* A command is answered at once, or after a touch, or not at all (the slot
\* holds no such secret).
KeyAnswers ==
    /\ KeyAccepts(AnswerKinds)
    /\ LET answer == [tag |-> inbox.op.tag, n |-> ChunksOf[inbox.op.kind]] IN
          \/ resp' = answer /\ pos' = 0 /\ UNCHANGED touch
          \/ /\ inbox.op.kind = "challenge"
             /\ touch' = answer
             /\ resp' = NoAnswer /\ pos' = 0
          \/ UNCHANGED <<resp, pos, touch>>
    /\ UNCHANGED <<valid, pgmSeq, applied>>

Touched ==
    /\ touch.n > 0
    /\ resp' = touch /\ pos' = 0
    /\ touch' = NoAnswer
    /\ UNCHANGED <<cl, inbox, frame, pgmSeq, valid, ops, faults, accepted,
                   applied>>

\* Nobody touches the key in time; or it gives up an answer nobody fetches.
KeyGivesUp ==
    /\ \/ touch.n > 0 /\ touch' = NoAnswer /\ UNCHANGED <<resp, pos>>
       \/ resp.n > 0 /\ resp' = NoAnswer /\ pos' = 0 /\ UNCHANGED touch
    /\ UNCHANGED <<cl, inbox, frame, pgmSeq, valid, ops, faults, accepted,
                   applied>>

-----------------------------------------------------------------------------

Init ==
    /\ cl = [c \in Clients |-> Fresh(NoOp, "idle")]
    /\ inbox = NoReport
    /\ frame = Zeros
    /\ resp = NoAnswer
    /\ pos = 0
    /\ touch = NoAnswer
    /\ \E s \in SeqNos, v \in BOOLEAN :
          /\ pgmSeq = s /\ valid = v
          /\ ~v => s = 0
    /\ ops = 0
    /\ faults = 0
    /\ accepted = {}
    /\ applied = {}

\* What the code of client c does next, when all goes well.
Step(c) ==
    \/ GetStatus(c) \/ ReadSeq(c) \/ Verify(c)
    \/ PollHits(c) \/ PollRefuses(c) \/ PollBlocks(c) \/ PollUserGone(c)
    \/ PollAgain(c) \/ PollTimesOut(c)
    \/ SendPart(c)
    \/ ReadChunk(c) \/ ReadEnd(c) \/ ReadLost(c) \/ ReadTooLong(c)
    \/ ResetReadMode(c)

Failure(c) == ReadFails(c) \/ SendFails(c) \/ ResetFails(c) \/ Killed(c)

Key == \/ KeyTakesPart \/ KeyRejectsFrame \/ KeyUpdates \/ KeyAnswers
       \/ Touched \/ KeyGivesUp

Next ==
    \/ \E c \in Clients : Call(c) \/ Step(c) \/ Failure(c)
    \/ Key

Spec == Init /\ [][Next]_vars

\* A call in progress goes on: no transfer blocks forever.  Nothing is asked
\* of the key or of the user.
FairSpec == Spec /\ \A c \in Clients : WF_vars(Step(c))

-----------------------------------------------------------------------------

Locals == [pc : PCs, op : Op, part : Parts, budget : Nat, blocking : BOOLEAN,
           seq : SeqNos, buf : Seq(Chunk), res : Results, sure : BOOLEAN,
           blank : BOOLEAN]

TypeOK ==
    /\ cl \in [Clients -> Locals]
    /\ inbox \in Report
    /\ frame \in [Body -> Nat]
    /\ resp \in Answer
    /\ pos \in Nat
    /\ touch \in Answer
    /\ pgmSeq \in SeqNos
    /\ valid \in BOOLEAN
    /\ ops \in 0 .. MaxOps
    /\ faults \in 0 .. MaxFaults
    /\ accepted \in SUBSET (0 .. MaxOps)
    /\ applied \in SUBSET (0 .. MaxOps)

Returned(c, kinds, result) ==
    At(c, "idle") /\ cl[c].op.kind \in kinds /\ cl[c].res = result

\* yk_challenge_response and yk_get_serial: what a caller accepts is one whole
\* answer the key gave to one intact command: never chunks of two answers,
\* whoever else reads the key, whatever was left in it and whatever fails.
AcceptedIsWhole ==
    \A c \in Clients : Returned(c, CheckedKinds, "ok") =>
        LET n == ChunksOf[cl[c].op.kind] IN
        \E tag \in accepted :
            cl[c].buf = [i \in 1 .. n |-> [tag |-> tag, i |-> i - 1, n |-> n]]

\* With one client, what it accepts answers the command it sent in this call:
\* not an earlier one it gave up or was killed in, though the key may still be
\* showing that answer.
AcceptedIsOwn ==
    \A c \in Clients : Returned(c, CheckedKinds, "ok") =>
        \A i \in 1 .. Len(cl[c].buf) : cl[c].buf[i].tag = cl[c].op.tag

\* With one client, a frame whose last part was sent is a frame the key
\* accepts: leaving out the all-zero parts does no harm, whatever an
\* interrupted call left in the key.
SentIsAccepted ==
    \A c \in Clients :
        /\ cl[c].pc \in {"settle", "verify", "pending", "read"}
        /\ ~WriteFlag
        => cl[c].op.tag \in accepted

\* With one client, yk_write_command tells the truth: it succeeds exactly if
\* the update was made, when its two looks at pgmSeq were sure (the key showed
\* its status, with no earlier report left to process) and the key is not
\* blank afterwards.  A blank key is taken for an update that was made.
WriteIsTold ==
    \A c \in Clients : At(c, "idle") /\ cl[c].sure =>
        /\ Returned(c, WriteKinds, "ok") =>
              cl[c].op.tag \in applied \/ cl[c].blank
        /\ Returned(c, WriteKinds, "EWRITEERR") =>
              cl[c].op.tag \notin applied

\* With one client and no failing transfer, a call that returns a checked answer
\* leaves the key showing its status, so that the next status is one.  (Without
\* a check the answer may be what is left of an earlier one: the key then shows
\* the answer to the capabilities when the call is over.)
ReadModeIsReset ==
    \A c \in Clients :
        Returned(c, CheckedKinds, "ok") /\ faults = 0 => resp.n = 0

\* A call ends, whatever the key does or fails to do and whoever else uses it.
CallsReturn == \A c \in Clients : ~At(c, "idle") ~> At(c, "idle")
=============================================================================
