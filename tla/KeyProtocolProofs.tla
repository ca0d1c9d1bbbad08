------------------------- MODULE KeyProtocolProofs -------------------------
(***************************************************************************)
(* For any number of clients and frames, answers and buffers of any size:  *)
(* the protocol is type correct, and an answer that is accepted under a    *)
(* CRC is one whole answer the key gave to one intact command.  For one    *)
(* client: the answer is that to its own command, a frame that was sent is *)
(* accepted, a write is told of truly, and the read mode is reset.         *)
(***************************************************************************)
EXTENDS KeyProtocol, TLAPS

LEMMA ZerosType == Zeros \in [Body -> Nat]
BY DEF Zeros

LEMMA NoOpType == NoOp \in Op
BY ZerosType, BoundsAssumption DEF NoOp, Op

LEMMA NoAnswerType == NoAnswer \in Answer
BY BoundsAssumption DEF NoAnswer, Answer

LEMMA NoReportType == NoReport \in Report
BY NoOpType, FrameAssumption DEF NoReport, Report

\* A client's new locals keep the type of cl.
LEMMA BecomesType ==
    ASSUME TypeOK, NEW c \in Clients, NEW l \in Locals, Becomes(c, l)
    PROVE  cl' \in [Clients -> Locals]
BY DEF TypeOK, Becomes

LEMMA ReturnType ==
    ASSUME TypeOK, NEW c \in Clients, NEW r \in Results, Return(c, r)
    PROVE  cl' \in [Clients -> Locals]
<1>1. [cl[c] EXCEPT !.pc = "idle", !.res = r] \in Locals
  BY DEF TypeOK, Locals, PCs
<1>2. QED
  BY <1>1, BecomesType DEF Return

LEMMA WaitingType ==
    ASSUME NEW l \in Locals, NEW p \in PCs
    PROVE  Waiting(l, p) \in Locals
BY BoundsAssumption DEF Waiting, Locals

\* Reading and the dummy report keep the key's side well typed.
LEMMA ReadType ==
    ASSUME TypeOK, Read
    PROVE  /\ inbox' \in Report
           /\ frame' \in [Body -> Nat]
           /\ resp' \in Answer
           /\ pos' \in Nat
           /\ touch' \in Answer
           /\ pgmSeq' \in SeqNos
           /\ valid' \in BOOLEAN
           /\ ops' \in 0 .. MaxOps
           /\ faults' \in 0 .. MaxFaults
           /\ accepted' \in SUBSET (0 .. MaxOps)
           /\ applied' \in SUBSET (0 .. MaxOps)
<1>1. pos' \in Nat
  BY DEF Read, HandOut, TypeOK
<1>2. QED
  BY <1>1 DEF Read, TypeOK

LEMMA DummyType ==
    ASSUME TypeOK, DummyReport \/ UNCHANGED <<resp, pos, touch>>
    PROVE  resp' \in Answer /\ pos' \in Nat /\ touch' \in Answer
BY NoAnswerType DEF DummyReport, TypeOK

LEMMA ChunkShownType == ASSUME TypeOK PROVE ChunkShown \in Chunk
BY BoundsAssumption DEF ChunkShown, Chunk, TypeOK, Answer

-----------------------------------------------------------------------------

LEMMA FreshType ==
    ASSUME NEW op \in Op, NEW p \in PCs
    PROVE  Fresh(op, p) \in Locals
<1>1. FirstPart(op) \in Parts /\ MaxPolls \in Nat /\ 0 \in SeqNos
  BY FrameAssumption, BoundsAssumption DEF FirstPart, Parts, SeqNos
<1>2. <<>> \in Seq(Chunk)
  OBVIOUS
<1>3. QED
  BY <1>1, <1>2 DEF Fresh, Locals, Results

LEMMA InitType == Init => TypeOK
<1> SUFFICES ASSUME Init PROVE TypeOK
  OBVIOUS
<1>1. cl \in [Clients -> Locals]
  <2>1. Fresh(NoOp, "idle") \in Locals
    BY NoOpType, FreshType DEF PCs
  <2>2. QED
    BY <2>1 DEF Init
<1>2. /\ inbox \in Report
      /\ frame \in [Body -> Nat]
      /\ resp \in Answer
      /\ touch \in Answer
  BY ZerosType, NoAnswerType, NoReportType DEF Init
<1>3. /\ pos \in Nat
      /\ pgmSeq \in SeqNos
      /\ valid \in BOOLEAN
      /\ ops \in 0 .. MaxOps
      /\ faults \in 0 .. MaxFaults
      /\ accepted \in SUBSET (0 .. MaxOps)
      /\ applied \in SUBSET (0 .. MaxOps)
  BY BoundsAssumption DEF Init
<1>4. QED
  BY <1>1, <1>2, <1>3 DEF TypeOK

LEMMA CallType ==
    ASSUME TypeOK, NEW c \in Clients, Call(c)
    PROVE  TypeOK'
<1>1. PICK kind \in Kinds, payload \in Payloads \cup {Zeros}, mayBlock \in BOOLEAN :
        Becomes(c, Fresh([kind |-> kind, tag |-> ops + 1,
                          payload |-> payload, mayBlock |-> mayBlock],
                         FirstPc(kind)))
  BY DEF Call
<1> DEFINE op == [kind |-> kind, tag |-> ops + 1,
                  payload |-> payload, mayBlock |-> mayBlock]
<1>2. ops' \in 0 .. MaxOps /\ ops + 1 \in 0 .. MaxOps
  BY BoundsAssumption DEF Call, TypeOK
<1>3. op \in Op
  BY <1>2, KindsAssumption, FrameAssumption, ZerosType DEF Op
<1>4. FirstPc(kind) \in PCs
  BY DEF FirstPc, PCs
<1>5. cl' \in [Clients -> Locals]
  <2> HIDE DEF op
  <2>1. Fresh(op, FirstPc(kind)) \in Locals
    BY <1>3, <1>4, FreshType
  <2>2. QED
    BY <1>1, <2>1, BecomesType DEF op
<1>6. QED
  BY <1>2, <1>5 DEF Call, TypeOK, keyVars

LEMMA StatusType ==
    ASSUME TypeOK, NEW c \in Clients, GetStatus(c) \/ ReadSeq(c) \/ Verify(c)
    PROVE  TypeOK'
<1>1. Read
  BY DEF GetStatus, ReadSeq, Verify
<1>2. cl' \in [Clients -> Locals]
  <2>0. cl[c] \in Locals
    BY DEF TypeOK
  <2>1. CASE GetStatus(c)
    BY <2>1, ReturnType DEF GetStatus, Results
  <2>2. CASE ReadSeq(c)
    <3>1. PICK s \in SeqNos : Becomes(c, [cl[c] EXCEPT !.pc = "frame",
                 !.seq = s, !.sure = ~PendingFlag /\ ~WriteFlag])
      BY <2>2 DEF ReadSeq
    <3>2. (~PendingFlag /\ ~WriteFlag) \in BOOLEAN
      OBVIOUS
    <3> DEFINE b == ~PendingFlag /\ ~WriteFlag
    <3> HIDE DEF b
    <3>3. [cl[c] EXCEPT !.pc = "frame", !.seq = s, !.sure = b] \in Locals
      BY <2>0, <3>2 DEF Locals, PCs, b
    <3>4. QED
      BY <3>1, <3>3, BecomesType DEF b
  <2>3. CASE Verify(c)
    <3>1. PICK s \in SeqNos, v \in BOOLEAN :
             Becomes(c, [cl[c] EXCEPT
                !.pc = "idle",
                !.sure = @ /\ ~PendingFlag,
                !.blank = ~v /\ s = 0,
                !.res = IF (~v /\ s = 0) \/ s # cl[c].seq
                        THEN "ok" ELSE "EWRITEERR"])
      BY <2>3 DEF Verify
    <3> DEFINE b1 == cl[c].sure /\ ~PendingFlag
               b2 == ~v /\ s = 0
               r == IF (~v /\ s = 0) \/ s # cl[c].seq
                        THEN "ok" ELSE "EWRITEERR"
               l == [cl[c] EXCEPT !.pc = "idle", !.sure = b1, !.blank = b2, !.res = r]
    <3>2. b1 \in BOOLEAN /\ b2 \in BOOLEAN /\ r \in Results
      BY DEF Results
    <3>3. Becomes(c, l)
      BY <3>1
    <3> HIDE DEF b1, b2, r
    <3>4. l \in Locals
      BY <2>0, <3>2 DEF Locals, PCs
    <3>5. QED
      BY <3>3, <3>4, BecomesType
  <2>4. QED
    BY <2>1, <2>2, <2>3
<1>3. QED
  BY <1>1, <1>2, ReadType DEF TypeOK

LEMMA PollType ==
    ASSUME TypeOK, NEW c \in Clients,
           \/ PollHits(c) \/ PollRefuses(c) \/ PollBlocks(c)
           \/ PollUserGone(c) \/ PollAgain(c)
    PROVE  TypeOK'
<1>1. Read /\ cl[c].budget > 0
  BY DEF PollHits, PollRefuses, PollBlocks, PollUserGone, PollAgain, Poll
<1>2. cl[c] \in Locals /\ cl[c].budget \in Nat
  BY DEF TypeOK, Locals
<1>3. cl' \in [Clients -> Locals]
  <2>1. CASE PollHits(c)
    <3>1. [cl[c] EXCEPT !.pc = "send"] \in Locals
      BY <1>2 DEF Locals, PCs
    <3>2. [cl[c] EXCEPT !.pc = "verify"] \in Locals
      BY <1>2 DEF Locals, PCs
    <3>3. [cl[c] EXCEPT !.pc = "read", !.buf = <<ChunkShown>>] \in Locals
      <4> DEFINE b == <<ChunkShown>>
      <4>1. b \in Seq(Chunk)
        BY ChunkShownType
      <4> HIDE DEF b
      <4>2. [cl[c] EXCEPT !.pc = "read", !.buf = b] \in Locals
        BY <1>2, <4>1 DEF Locals, PCs
      <4>3. QED
        BY <4>2 DEF b
    <3>4. QED
      BY <2>1, <3>1, <3>2, <3>3, BecomesType DEF PollHits
  <2>2. CASE PollRefuses(c)
    <3>1. [cl[c] EXCEPT !.pc = "reset", !.res = "EWOULDBLOCK"] \in Locals
      BY <1>2 DEF Locals, PCs, Results
    <3>2. QED
      BY <2>2, <3>1, BecomesType DEF PollRefuses
  <2>3. CASE PollBlocks(c)
    <3> DEFINE n == IF cl[c].blocking THEN cl[c].budget - 1
                    ELSE cl[c].budget - 1 + BlockPolls
    <3>1. n \in Nat
      BY <1>1, <1>2, BoundsAssumption
    <3>2. Becomes(c, [cl[c] EXCEPT !.blocking = TRUE, !.budget = n])
      BY <2>3 DEF PollBlocks
    <3> HIDE DEF n
    <3>3. [cl[c] EXCEPT !.blocking = TRUE, !.budget = n] \in Locals
      BY <1>2, <3>1 DEF Locals
    <3>4. QED
      BY <3>2, <3>3, BecomesType
  <2>4. CASE PollUserGone(c)
    BY <2>4, ReturnType DEF PollUserGone, Results
  <2>5. CASE PollAgain(c)
    <3>1. [cl[c] EXCEPT !.budget = @ - 1] \in Locals
      BY <1>1, <1>2 DEF Locals
    <3>2. QED
      BY <2>5, <3>1, BecomesType DEF PollAgain
  <2>6. QED
    BY <2>1, <2>2, <2>3, <2>4, <2>5
<1>4. QED
  BY <1>1, <1>3, ReadType DEF TypeOK

LEMMA TimesOutType ==
    ASSUME TypeOK, NEW c \in Clients, PollTimesOut(c)
    PROVE  TypeOK'
<1>1. cl' \in [Clients -> Locals]
  BY ReturnType DEF PollTimesOut, Results
<1>2. QED
  BY <1>1 DEF PollTimesOut, TypeOK, keyVars

\* The report a client sends is well typed.
LEMMA DeliverType ==
    ASSUME TypeOK, NEW c \in Clients, Deliver(c) \/ inbox' = inbox
    PROVE  inbox' \in Report
<1>1. cl[c].part \in Parts /\ cl[c].op \in Op
  BY DEF TypeOK, Locals
<1>2. cl[c].part \in -1 .. LastPart
  BY <1>1, FrameAssumption DEF Parts
<1>3. QED
  BY <1>1, <1>2 DEF Deliver, Report, TypeOK

LEMMA SendType ==
    ASSUME TypeOK, NEW c \in Clients, SendPart(c)
    PROVE  TypeOK'
<1>1. PICK j \in Parts : Becomes(c, AfterPart(c, j))
  BY DEF SendPart
<1>2. cl[c] \in Locals /\ [cl[c] EXCEPT !.part = j] \in Locals
  BY DEF TypeOK, Locals
<1>3. AfterPart(c, j) \in Locals
  BY <1>2, WaitingType DEF AfterPart, PCs
<1>4. cl' \in [Clients -> Locals]
  BY <1>1, <1>3, BecomesType
<1>5. inbox' \in Report
  BY DeliverType DEF SendPart
<1>6. QED
  BY <1>4, <1>5 DEF SendPart, TypeOK

LEMMA ReadResponseType ==
    ASSUME TypeOK, NEW c \in Clients,
           ReadChunk(c) \/ ReadEnd(c) \/ ReadLost(c)
    PROVE  TypeOK'
<1>1. Read
  BY DEF ReadChunk, ReadEnd, ReadLost
<1>2. cl[c] \in Locals /\ cl[c].buf \in Seq(Chunk)
  BY DEF TypeOK, Locals
<1>3. cl' \in [Clients -> Locals]
  <2>1. CASE ReadChunk(c)
    <3> DEFINE b == Append(cl[c].buf, ChunkShown)
    <3>1. b \in Seq(Chunk)
      BY <1>2, ChunkShownType
    <3>2. Becomes(c, [cl[c] EXCEPT !.buf = b])
      BY <2>1 DEF ReadChunk
    <3> HIDE DEF b
    <3>3. [cl[c] EXCEPT !.buf = b] \in Locals
      BY <1>2, <3>1 DEF Locals
    <3>4. QED
      BY <3>2, <3>3, BecomesType
  <2>2. CASE ReadEnd(c)
    <3> DEFINE v == Judge(cl[c].op, cl[c].buf)
               p == Ending(v)
    <3>1. v \in Results /\ p \in PCs
      BY DEF Judge, Ending, Results, PCs
    <3>2. Becomes(c, [cl[c] EXCEPT !.res = v, !.pc = p])
      BY <2>2 DEF ReadEnd
    <3> HIDE DEF v, p
    <3>3. [cl[c] EXCEPT !.res = v, !.pc = p] \in Locals
      BY <1>2, <3>1 DEF Locals
    <3>4. QED
      BY <3>2, <3>3, BecomesType
  <2>3. CASE ReadLost(c)
    <3>1. [cl[c] EXCEPT !.pc = "reset", !.res = "unset"] \in Locals
      BY <1>2 DEF Locals, PCs, Results
    <3>2. QED
      BY <2>3, <3>1, BecomesType DEF ReadLost
  <2>4. QED
    BY <2>1, <2>2, <2>3
<1>4. QED
  BY <1>1, <1>3, ReadType DEF TypeOK

LEMMA TooLongType ==
    ASSUME TypeOK, NEW c \in Clients, ReadTooLong(c)
    PROVE  TypeOK'
<1>1. [cl[c] EXCEPT !.pc = "reset", !.res = "EWRONGSIZ"] \in Locals
  BY DEF TypeOK, Locals, PCs, Results
<1>2. cl' \in [Clients -> Locals]
  BY <1>1, BecomesType DEF ReadTooLong
<1>3. QED
  BY <1>2 DEF ReadTooLong, TypeOK, keyVars

LEMMA ResetType ==
    ASSUME TypeOK, NEW c \in Clients, ResetReadMode(c) \/ ResetFails(c)
    PROVE  TypeOK'
<1>1. Outcomes(c) \subseteq Results
  BY DEF TypeOK, Locals, Outcomes, Results
<1>2. cl' \in [Clients -> Locals]
  BY <1>1, ReturnType DEF ResetReadMode, ResetFails
<1>3. resp' \in Answer /\ pos' \in Nat /\ touch' \in Answer
  BY DummyType DEF ResetReadMode, ResetFails
<1>4. faults' \in 0 .. MaxFaults
  BY BoundsAssumption DEF ResetReadMode, ResetFails, Fault, TypeOK
<1>5. QED
  BY <1>2, <1>3, <1>4 DEF ResetReadMode, ResetFails, TypeOK

LEMMA FailsType ==
    ASSUME TypeOK, NEW c \in Clients,
           ReadFails(c) \/ SendFails(c) \/ Killed(c)
    PROVE  TypeOK'
<1>1. faults' \in 0 .. MaxFaults
  BY BoundsAssumption DEF ReadFails, SendFails, Killed, Fault, TypeOK
<1>2. cl' \in [Clients -> Locals]
  BY ReturnType DEF ReadFails, SendFails, Killed, Results
<1>3. CASE ReadFails(c)
  <2>1. pos' \in Nat
    BY <1>3 DEF ReadFails, HandOut, TypeOK
  <2>2. QED
    BY <1>1, <1>2, <1>3, <2>1 DEF ReadFails, TypeOK
<1>4. CASE SendFails(c)
  <2>1. inbox' \in Report
    BY <1>4, DeliverType DEF SendFails
  <2>2. QED
    BY <1>1, <1>2, <1>4, <2>1 DEF SendFails, TypeOK
<1>5. CASE Killed(c)
  BY <1>1, <1>2, <1>5 DEF Killed, TypeOK, keyVars
<1>6. QED
  BY <1>3, <1>4, <1>5

LEMMA KeyType ==
    ASSUME TypeOK, Key
    PROVE  TypeOK'
<1>1. CASE KeyTakesPart
  <2>1. inbox.op.payload \in [Body -> Nat]
    BY DEF TypeOK, Report, Op
  <2>2. frame' \in [Body -> Nat]
    BY <1>1, <2>1, ZerosType DEF KeyTakesPart, TypeOK
  <2>3. resp' \in Answer /\ pos' \in Nat /\ touch' \in Answer
    BY <1>1, NoAnswerType DEF KeyTakesPart, TypeOK
  <2>4. QED
    BY <1>1, <2>2, <2>3, NoReportType DEF KeyTakesPart, TypeOK
<1>2. CASE KeyRejectsFrame
  BY <1>2, NoReportType DEF KeyRejectsFrame, TypeOK
<1>3. ASSUME NEW kinds, KeyAccepts(kinds)
      PROVE  /\ inbox' \in Report
             /\ accepted' \in SUBSET (0 .. MaxOps)
             /\ cl' \in [Clients -> Locals]
             /\ frame' \in [Body -> Nat]
             /\ ops' \in 0 .. MaxOps
             /\ faults' \in 0 .. MaxFaults
             /\ inbox.op \in Op
  <2>1. inbox.op \in Op /\ inbox.op.tag \in 0 .. MaxOps
    BY DEF TypeOK, Report, Op
  <2>2. QED
    BY <1>3, <2>1, NoReportType DEF KeyAccepts, TypeOK
<1>4. CASE KeyUpdates
  <2>1. KeyAccepts(WriteKinds)
    BY <1>4 DEF KeyUpdates
  <2>2. pgmSeq' \in SeqNos /\ valid' \in BOOLEAN
    <3>1. /\ pgmSeq' \in {pgmSeq, 0, IF pgmSeq + 1 = SeqMod THEN 0 ELSE pgmSeq + 1}
          /\ valid' = valid \/ valid' = TRUE \/ valid' = FALSE
      BY <1>4 DEF KeyUpdates
    <3>2. pgmSeq \in 0 .. SeqMod - 1 /\ valid \in BOOLEAN
      BY DEF TypeOK, SeqNos
    <3>3. pgmSeq' \in 0 .. SeqMod - 1
      BY <3>1, <3>2, BoundsAssumption
    <3>4. QED
      BY <3>1, <3>2, <3>3 DEF SeqNos
  <2>3. applied' \in SUBSET (0 .. MaxOps)
    <3>1. inbox.op.tag \in 0 .. MaxOps
      BY DEF TypeOK, Report, Op
    <3>2. QED
      BY <1>4, <3>1 DEF KeyUpdates, TypeOK
  <2>4. resp' \in Answer /\ pos' \in Nat /\ touch' \in Answer
    BY <1>4 DEF KeyUpdates, TypeOK
  <2>5. QED
    BY <1>3, <2>1, <2>2, <2>3, <2>4 DEF TypeOK
<1>5. CASE KeyAnswers
  <2>1. KeyAccepts(AnswerKinds)
    BY <1>5 DEF KeyAnswers
  <2>2. [tag |-> inbox.op.tag, n |-> ChunksOf[inbox.op.kind]] \in Answer
    <3>1. inbox.op.kind \in AnswerKinds
      BY <2>1 DEF KeyAccepts
    <3>2. inbox.op.tag \in 0 .. MaxOps
      BY DEF TypeOK, Report, Op
    <3>3. QED
      BY <3>1, <3>2, KindsAssumption DEF Answer
  <2>3. resp' \in Answer /\ pos' \in Nat /\ touch' \in Answer
    BY <1>5, <2>2, NoAnswerType DEF KeyAnswers, TypeOK
  <2>4. pgmSeq' \in SeqNos /\ valid' \in BOOLEAN
        /\ applied' \in SUBSET (0 .. MaxOps)
    BY <1>5 DEF KeyAnswers, TypeOK
  <2>5. QED
    BY <1>3, <2>1, <2>3, <2>4 DEF TypeOK
<1>6. CASE Touched
  <2>1. resp' \in Answer /\ pos' \in Nat /\ touch' \in Answer
    BY <1>6, NoAnswerType DEF Touched, TypeOK
  <2>2. QED
    BY <1>6, <2>1 DEF Touched, TypeOK
<1>7. CASE KeyGivesUp
  <2>1. resp' \in Answer /\ pos' \in Nat /\ touch' \in Answer
    BY <1>7, NoAnswerType DEF KeyGivesUp, TypeOK
  <2>2. QED
    BY <1>7, <2>1 DEF KeyGivesUp, TypeOK
<1>8. QED
  BY <1>1, <1>2, <1>4, <1>5, <1>6, <1>7 DEF Key

LEMMA TypeStep == TypeOK /\ [Next]_vars => TypeOK'
<1> SUFFICES ASSUME TypeOK, [Next]_vars PROVE TypeOK'
  OBVIOUS
<1>1. ASSUME NEW c \in Clients, Call(c) PROVE TypeOK'
  BY <1>1, CallType
<1>2. ASSUME NEW c \in Clients, Step(c) PROVE TypeOK'
  BY <1>2, StatusType, PollType, TimesOutType, SendType, ReadResponseType,
     TooLongType, ResetType DEF Step
<1>3. ASSUME NEW c \in Clients, Failure(c) PROVE TypeOK'
  BY <1>3, FailsType, ResetType DEF Failure
<1>4. CASE Key
  BY <1>4, KeyType
<1>5. CASE UNCHANGED vars
  BY <1>5 DEF vars, keyVars, TypeOK
<1>6. QED
  BY <1>1, <1>2, <1>3, <1>4, <1>5 DEF Next

\* Type correctness of the clients and of the key they share.
THEOREM TypeCorrect == Spec => []TypeOK
<1>1. Init => TypeOK
  BY InitType
<1>2. TypeOK /\ [Next]_vars => TypeOK'
  BY TypeStep
<1>3. QED
  BY <1>1, <1>2, PTL DEF Spec

-----------------------------------------------------------------------------
(* An accepted answer is whole.  AcceptedIsWhole is not inductive: it says *)
(* nothing of a call before it returns.  What is missing is where a call   *)
(* that has its verdict, but not yet reset the read mode, stands; that a   *)
(* verdict is given at the end only; and that every chunk in a buffer, and *)
(* every answer in the key, answers a command the key accepted.            *)

\* The locals of one client, given the commands accepted so far.
Coherent(l, done) ==
    /\ \A i \in 1 .. Len(l.buf) : l.buf[i].n > 0 => l.buf[i].tag \in done
    /\ l.pc \notin {"idle", "reset"} => l.res = "none"
    /\ l.pc = "status" => l.op.kind = "status"
    /\ l.pc \in {"seq", "settle", "verify"} => l.op.kind \in WriteKinds
    /\ l.res = "ok" /\ l.op.kind \in CheckedKinds =>
          /\ CrcOk(l.buf, ChunksOf[l.op.kind])
          /\ Len(l.buf) = ChunksOf[l.op.kind]

AnswersKnown ==
    /\ resp.n > 0 => resp.tag \in accepted
    /\ touch.n > 0 => touch.tag \in accepted

IInv ==
    /\ TypeOK
    /\ AnswersKnown
    /\ \A c \in Clients : Coherent(cl[c], accepted)

LEMMA CoherentGrows ==
    ASSUME NEW l, NEW done, NEW more, done \subseteq more, Coherent(l, done)
    PROVE  Coherent(l, more)
BY DEF Coherent

\* A step of one client that changes no answer to an unknown one.
LEMMA ClientStep ==
    ASSUME IInv, NEW c \in Clients, NEW l,
           Becomes(c, l), Coherent(l, accepted), accepted' = accepted
    PROVE  \A d \in Clients : Coherent(cl'[d], accepted')
<1>1. cl' = [cl EXCEPT ![c] = l] /\ cl \in [Clients -> Locals]
  BY DEF IInv, TypeOK, Becomes
<1>2. \A d \in Clients : cl'[d] = IF d = c THEN l ELSE cl[d]
  BY <1>1
<1>3. QED
  BY <1>2 DEF IInv

\* Returning with a failure, or with the verdict already given.
LEMMA ReturnStep ==
    ASSUME IInv, NEW c \in Clients, NEW r \in Results, Return(c, r),
           r = "ok" => \/ cl[c].op.kind \notin CheckedKinds
                       \/ cl[c].res = "ok",
           accepted' = accepted
    PROVE  \A d \in Clients : Coherent(cl'[d], accepted')
<1> DEFINE l == [cl[c] EXCEPT !.pc = "idle", !.res = r]
<1>1. /\ l.pc = "idle" /\ l.res = r
      /\ l.op = cl[c].op /\ l.buf = cl[c].buf
  BY DEF IInv, TypeOK, Locals
<1>2. Coherent(cl[c], accepted)
  BY DEF IInv
<1> HIDE DEF l
<1>3. Coherent(l, accepted)
  BY <1>1, <1>2 DEF Coherent
<1>4. Becomes(c, l)
  BY DEF Return, l
<1>5. QED
  BY <1>3, <1>4, ClientStep

LEMMA InitInv == Init => IInv
<1> SUFFICES ASSUME Init PROVE IInv
  OBVIOUS
<1>1. AnswersKnown
  BY DEF Init, NoAnswer, AnswersKnown
<1>2. \A c \in Clients : Coherent(cl[c], accepted)
  BY DEF Init, Fresh, Coherent
<1>3. QED
  BY <1>1, <1>2, InitType DEF IInv

\* The chunk a read shows answers a known command.
LEMMA ChunkKnown ==
    ASSUME IInv
    PROVE  ChunkShown.n > 0 => ChunkShown.tag \in accepted
BY DEF IInv, AnswersKnown, ChunkShown, TypeOK, Answer

\* What the clients' steps do to the answers the key holds.
LEMMA AnswersStep ==
    ASSUME IInv, accepted' = accepted,
           \/ UNCHANGED <<resp, touch>>
           \/ DummyReport
    PROVE  AnswersKnown'
BY DEF IInv, AnswersKnown, DummyReport, NoAnswer

LEMMA CallCoherent ==
    ASSUME IInv, NEW c \in Clients, Call(c)
    PROVE  \A d \in Clients : Coherent(cl'[d], accepted')
<1>1. PICK kind \in Kinds, payload \in Payloads \cup {Zeros}, mayBlock \in BOOLEAN :
        Becomes(c, Fresh([kind |-> kind, tag |-> ops + 1,
                          payload |-> payload, mayBlock |-> mayBlock],
                         FirstPc(kind)))
  BY DEF Call
<1> DEFINE op == [kind |-> kind, tag |-> ops + 1,
                  payload |-> payload, mayBlock |-> mayBlock]
<1>2. op.kind = kind
  OBVIOUS
<1> HIDE DEF op
<1>3. Coherent(Fresh(op, FirstPc(kind)), accepted)
  BY <1>2, KindsAssumption
     DEF Coherent, Fresh, FirstPc, WriteKinds, AllKinds, AnswerKinds, CheckedKinds
<1>4. accepted' = accepted
  BY DEF Call
<1>5. QED
  BY <1>1, <1>3, <1>4, ClientStep DEF op

LEMMA StatusCoherent ==
    ASSUME IInv, NEW c \in Clients, GetStatus(c) \/ ReadSeq(c) \/ Verify(c)
    PROVE  \A d \in Clients : Coherent(cl'[d], accepted')
<1>1. accepted' = accepted
  BY DEF GetStatus, ReadSeq, Verify, Read
<1>2. cl[c] \in Locals /\ Coherent(cl[c], accepted)
  BY DEF IInv, TypeOK
<1>3. CASE GetStatus(c)
  <2>1. cl[c].op.kind = "status"
    BY <1>2, <1>3 DEF GetStatus, At, Coherent
  <2>2. cl[c].op.kind \notin CheckedKinds
    BY <2>1 DEF CheckedKinds
  <2>3. "ok" \in Results /\ Return(c, "ok")
    BY <1>3 DEF Results, GetStatus
  <2>4. QED
    BY <1>1, <2>2, <2>3, ReturnStep
<1>4. CASE ReadSeq(c)
  <2>1. PICK s \in SeqNos : Becomes(c, [cl[c] EXCEPT !.pc = "frame",
               !.seq = s, !.sure = ~PendingFlag /\ ~WriteFlag])
    BY <1>4 DEF ReadSeq
  <2> DEFINE l == [cl[c] EXCEPT !.pc = "frame",
               !.seq = s, !.sure = ~PendingFlag /\ ~WriteFlag]
  <2>2. /\ l.pc = "frame" /\ l.op = cl[c].op /\ l.buf = cl[c].buf
        /\ l.res = cl[c].res
    BY <1>2 DEF Locals
  <2>3. cl[c].res = "none"
    BY <1>2, <1>4 DEF ReadSeq, At, Coherent
  <2> HIDE DEF l
  <2>4. Coherent(l, accepted)
    BY <1>2, <2>2, <2>3 DEF Coherent
  <2>5. Becomes(c, l)
    BY <2>1 DEF l
  <2>6. QED
    BY <1>1, <2>4, <2>5, ClientStep
<1>5. CASE Verify(c)
  <2>1. PICK s \in SeqNos, v \in BOOLEAN :
           Becomes(c, [cl[c] EXCEPT
              !.pc = "idle",
              !.sure = @ /\ ~PendingFlag,
              !.blank = ~v /\ s = 0,
              !.res = IF (~v /\ s = 0) \/ s # cl[c].seq
                      THEN "ok" ELSE "EWRITEERR"])
    BY <1>5 DEF Verify
  <2> DEFINE l == [cl[c] EXCEPT
              !.pc = "idle",
              !.sure = @ /\ ~PendingFlag,
              !.blank = ~v /\ s = 0,
              !.res = IF (~v /\ s = 0) \/ s # cl[c].seq
                      THEN "ok" ELSE "EWRITEERR"]
  <2>2. l.pc = "idle" /\ l.op = cl[c].op /\ l.buf = cl[c].buf
    BY <1>2 DEF Locals
  <2>3. cl[c].op.kind \in WriteKinds
    BY <1>2, <1>5 DEF Verify, At, Coherent
  <2> HIDE DEF l
  <2>4. Coherent(l, accepted)
    BY <1>2, <2>2, <2>3 DEF Coherent, WriteKinds, CheckedKinds
  <2>5. Becomes(c, l)
    BY <2>1 DEF l
  <2>6. QED
    BY <1>1, <2>4, <2>5, ClientStep
<1>6. QED
  BY <1>3, <1>4, <1>5

LEMMA PollCoherent ==
    ASSUME IInv, NEW c \in Clients,
           \/ PollHits(c) \/ PollRefuses(c) \/ PollBlocks(c)
           \/ PollUserGone(c) \/ PollAgain(c) \/ PollTimesOut(c)
    PROVE  \A d \in Clients : Coherent(cl'[d], accepted')
<1>1. accepted' = accepted /\ cl[c].pc \in {"frame", "settle", "pending"}
  BY DEF PollHits, PollRefuses, PollBlocks, PollUserGone, PollAgain,
         PollTimesOut, Poll, InWait, Read
<1>2. cl[c] \in Locals /\ Coherent(cl[c], accepted) /\ cl[c].res = "none"
  BY <1>1 DEF IInv, TypeOK, Coherent
<1>3. CASE PollHits(c)
  <2>1. CASE At(c, "frame")
    <3>1. Coherent([cl[c] EXCEPT !.pc = "send"], accepted)
      BY <1>2 DEF Coherent, Locals
    <3>2. Becomes(c, [cl[c] EXCEPT !.pc = "send"])
      BY <1>3, <2>1 DEF PollHits
    <3>3. QED
      BY <1>1, <3>1, <3>2, ClientStep
  <2>2. CASE ~At(c, "frame") /\ At(c, "settle")
    <3>1. Coherent([cl[c] EXCEPT !.pc = "verify"], accepted)
      BY <1>2, <2>2 DEF Coherent, Locals, At
    <3>2. Becomes(c, [cl[c] EXCEPT !.pc = "verify"])
      BY <1>3, <2>2 DEF PollHits
    <3>3. QED
      BY <1>1, <3>1, <3>2, ClientStep
  <2>3. CASE ~At(c, "frame") /\ ~At(c, "settle")
    <3> DEFINE b == <<ChunkShown>>
               l == [cl[c] EXCEPT !.pc = "read", !.buf = b]
    <3>1. Len(b) = 1 /\ b[1] = ChunkShown
      OBVIOUS
    <3> HIDE DEF b
    <3>2. l.pc = "read" /\ l.buf = b /\ l.res = "none" /\ l.op = cl[c].op
      BY <1>2 DEF Locals
    <3> HIDE DEF l
    <3>3. \A i \in 1 .. Len(b) : b[i].n > 0 => b[i].tag \in accepted
      BY <3>1, ChunkKnown
    <3>4. Coherent(l, accepted)
      BY <3>2, <3>3 DEF Coherent
    <3>5. Becomes(c, l)
      BY <1>3, <2>3 DEF PollHits, l, b
    <3>6. QED
      BY <1>1, <3>4, <3>5, ClientStep
  <2>4. QED
    BY <2>1, <2>2, <2>3
<1>4. CASE PollRefuses(c)
  <2>1. Coherent([cl[c] EXCEPT !.pc = "reset", !.res = "EWOULDBLOCK"], accepted)
    BY <1>2 DEF Coherent, Locals
  <2>2. QED
    BY <1>1, <1>4, <2>1, ClientStep DEF PollRefuses
<1>5. CASE PollBlocks(c)
  <2> DEFINE n == IF cl[c].blocking THEN cl[c].budget - 1
                  ELSE cl[c].budget - 1 + BlockPolls
  <2>1. Becomes(c, [cl[c] EXCEPT !.blocking = TRUE, !.budget = n])
    BY <1>5 DEF PollBlocks
  <2> HIDE DEF n
  <2>2. Coherent([cl[c] EXCEPT !.blocking = TRUE, !.budget = n], accepted)
    BY <1>2 DEF Coherent, Locals
  <2>3. QED
    BY <1>1, <2>1, <2>2, ClientStep
<1>6. CASE PollUserGone(c)
  BY <1>1, <1>6, ReturnStep DEF PollUserGone, Results
<1>7. CASE PollAgain(c)
  <2>1. Coherent([cl[c] EXCEPT !.budget = @ - 1], accepted)
    BY <1>2 DEF Coherent, Locals
  <2>2. QED
    BY <1>1, <1>7, <2>1, ClientStep DEF PollAgain
<1>8. CASE PollTimesOut(c)
  BY <1>1, <1>8, ReturnStep DEF PollTimesOut, Results
<1>9. QED
  BY <1>3, <1>4, <1>5, <1>6, <1>7, <1>8

LEMMA SendCoherent ==
    ASSUME IInv, NEW c \in Clients, SendPart(c)
    PROVE  \A d \in Clients : Coherent(cl'[d], accepted')
<1>1. accepted' = accepted
  BY DEF SendPart
<1>2. cl[c] \in Locals /\ Coherent(cl[c], accepted) /\ cl[c].res = "none"
  BY DEF IInv, TypeOK, SendPart, At, Coherent
<1>3. PICK j \in Parts : Becomes(c, AfterPart(c, j))
  BY DEF SendPart
<1>4. Coherent(Waiting([cl[c] EXCEPT !.part = j], "frame"), accepted)
  BY <1>2 DEF Coherent, Waiting, Locals
<1>5. cl[c].op.kind \in WriteKinds
      => Coherent(Waiting(cl[c], "settle"), accepted)
  BY <1>2 DEF Coherent, Waiting, Locals
<1>6. Coherent(Waiting(cl[c], "pending"), accepted)
  BY <1>2 DEF Coherent, Waiting, Locals
<1>7. Coherent(AfterPart(c, j), accepted)
  BY <1>4, <1>5, <1>6 DEF AfterPart
<1>8. QED
  BY <1>1, <1>3, <1>7, ClientStep

LEMMA ReadCoherent ==
    ASSUME IInv, NEW c \in Clients,
           ReadChunk(c) \/ ReadEnd(c) \/ ReadLost(c) \/ ReadTooLong(c)
    PROVE  \A d \in Clients : Coherent(cl'[d], accepted')
<1>1. accepted' = accepted /\ cl[c].pc = "read"
  BY DEF ReadChunk, ReadEnd, ReadLost, ReadTooLong, Read, At
<1>2. /\ cl[c] \in Locals /\ Coherent(cl[c], accepted)
      /\ cl[c].res = "none" /\ cl[c].buf \in Seq(Chunk)
  BY <1>1 DEF IInv, TypeOK, Coherent, Locals
<1>3. CASE ReadChunk(c)
  <2> DEFINE b == Append(cl[c].buf, ChunkShown)
             l == [cl[c] EXCEPT !.buf = b]
  <2>1. \A i \in 1 .. Len(b) : b[i].n > 0 => b[i].tag \in accepted
    <3>1. /\ Len(b) = Len(cl[c].buf) + 1
          /\ \A i \in 1 .. Len(b) :
                b[i] = IF i = Len(b) THEN ChunkShown ELSE cl[c].buf[i]
      BY <1>2
    <3>2. \A i \in 1 .. Len(cl[c].buf) :
              cl[c].buf[i].n > 0 => cl[c].buf[i].tag \in accepted
      BY <1>2 DEF Coherent
    <3>3. Len(cl[c].buf) \in Nat
      BY <1>2
    <3> HIDE DEF b
    <3>4. QED
      BY <3>1, <3>2, <3>3, ChunkKnown
  <2> HIDE DEF b
  <2>2. l.pc = "read" /\ l.buf = b /\ l.res = "none"
    BY <1>1, <1>2 DEF Locals
  <2>3. Becomes(c, l)
    BY <1>3 DEF ReadChunk, b
  <2> HIDE DEF l
  <2>4. Coherent(l, accepted)
    BY <2>1, <2>2 DEF Coherent
  <2>5. QED
    BY <1>1, <2>3, <2>4, ClientStep
<1>4. CASE ReadEnd(c)
  <2> DEFINE v == Judge(cl[c].op, cl[c].buf)
             p == Ending(v)
             l == [cl[c] EXCEPT !.res = v, !.pc = p]
  <2>1. p \in {"idle", "reset"}
    BY DEF Ending
  <2>2. v = "ok" /\ cl[c].op.kind \in CheckedKinds =>
           /\ CrcOk(cl[c].buf, ChunksOf[cl[c].op.kind])
           /\ Len(cl[c].buf) = ChunksOf[cl[c].op.kind]
    BY DEF Judge
  <2>3. Becomes(c, l)
    BY <1>4 DEF ReadEnd
  <2> HIDE DEF v, p
  <2>4. l.pc = p /\ l.res = v /\ l.buf = cl[c].buf /\ l.op = cl[c].op
    BY <1>2 DEF Locals
  <2> HIDE DEF l
  <2>5. Coherent(l, accepted)
    BY <1>2, <2>1, <2>2, <2>4 DEF Coherent
  <2>6. QED
    BY <1>1, <2>3, <2>5, ClientStep
<1>5. CASE ReadLost(c)
  <2>1. Coherent([cl[c] EXCEPT !.pc = "reset", !.res = "unset"], accepted)
    BY <1>2 DEF Coherent, Locals
  <2>2. QED
    BY <1>1, <1>5, <2>1, ClientStep DEF ReadLost
<1>6. CASE ReadTooLong(c)
  <2>1. Coherent([cl[c] EXCEPT !.pc = "reset", !.res = "EWRONGSIZ"], accepted)
    BY <1>2 DEF Coherent, Locals
  <2>2. QED
    BY <1>1, <1>6, <2>1, ClientStep DEF ReadTooLong
<1>7. QED
  BY <1>3, <1>4, <1>5, <1>6

LEMMA FailureCoherent ==
    ASSUME IInv, NEW c \in Clients, ResetReadMode(c) \/ Failure(c)
    PROVE  \A d \in Clients : Coherent(cl'[d], accepted')
<1>1. accepted' = accepted
  BY DEF ResetReadMode, Failure, ReadFails, SendFails, ResetFails, Killed
<1>2. cl[c].res \in Results
  BY DEF IInv, TypeOK, Locals
<1>3. \/ Return(c, cl[c].res)
      \/ Return(c, "EWRONGSIZ")
      \/ Return(c, "EUSBERR")
      \/ Return(c, "killed")
  BY DEF ResetReadMode, Failure, ReadFails, SendFails, ResetFails, Killed,
         Outcomes
<1>4. QED
  BY <1>1, <1>2, <1>3, ReturnStep DEF Results

LEMMA ClientAnswers ==
    ASSUME IInv, NEW c \in Clients, Call(c) \/ Step(c) \/ Failure(c)
    PROVE  AnswersKnown'
<1>1. accepted' = accepted /\ (UNCHANGED <<resp, touch>> \/ DummyReport)
  <2>1. CASE Call(c)
    BY <2>1 DEF Call, keyVars
  <2>2. CASE Step(c)
    BY <2>2 DEF Step, GetStatus, ReadSeq, Verify, PollHits, PollRefuses,
         PollBlocks, PollUserGone, PollAgain, PollTimesOut, Poll, SendPart,
         ReadChunk, ReadEnd, ReadLost, ReadTooLong, ResetReadMode, Read,
         keyVars
  <2>3. CASE Failure(c)
    BY <2>3 DEF Failure, ReadFails, SendFails, ResetFails, Killed, keyVars
  <2>4. QED
    BY <2>1, <2>2, <2>3
<1>2. QED
  BY <1>1, AnswersStep

LEMMA KeyInv ==
    ASSUME IInv, Key
    PROVE  AnswersKnown' /\ \A c \in Clients : Coherent(cl'[c], accepted')
<1>1. cl' = cl /\ accepted \subseteq accepted'
  BY DEF Key, KeyTakesPart, KeyRejectsFrame, KeyUpdates, KeyAnswers,
         KeyAccepts, Touched, KeyGivesUp
<1>2. \A c \in Clients : Coherent(cl'[c], accepted')
  BY <1>1, CoherentGrows DEF IInv
<1>3. AnswersKnown'
  <2>1. CASE KeyTakesPart \/ KeyRejectsFrame \/ KeyGivesUp \/ Touched
    BY <2>1 DEF KeyTakesPart, KeyRejectsFrame, KeyGivesUp, Touched, NoAnswer,
         IInv, AnswersKnown
  <2>2. CASE KeyUpdates
    BY <1>1, <2>2 DEF KeyUpdates, IInv, AnswersKnown
  <2>3. CASE KeyAnswers
    <3> DEFINE answer == [tag |-> inbox.op.tag, n |-> ChunksOf[inbox.op.kind]]
    <3>1. answer.tag \in accepted'
      BY <2>3 DEF KeyAnswers, KeyAccepts
    <3>2. resp' \in {resp, answer, NoAnswer} /\ touch' \in {touch, answer}
      BY <2>3 DEF KeyAnswers
    <3> HIDE DEF answer
    <3>3. QED
      BY <1>1, <3>1, <3>2 DEF IInv, AnswersKnown, NoAnswer
  <2>4. QED
    BY <2>1, <2>2, <2>3 DEF Key
<1>4. QED
  BY <1>2, <1>3

LEMMA InvStep == IInv /\ [Next]_vars => IInv'
<1> SUFFICES ASSUME IInv, [Next]_vars PROVE IInv'
  OBVIOUS
<1>1. TypeOK'
  BY TypeStep DEF IInv
<1>2. ASSUME NEW c \in Clients, Call(c) \/ Step(c) \/ Failure(c)
      PROVE  AnswersKnown' /\ \A d \in Clients : Coherent(cl'[d], accepted')
  <2>1. \A d \in Clients : Coherent(cl'[d], accepted')
    BY <1>2, CallCoherent, StatusCoherent, PollCoherent, SendCoherent,
       ReadCoherent, FailureCoherent DEF Step
  <2>2. QED
    BY <1>2, <2>1, ClientAnswers
<1>3. CASE Key
  BY <1>1, <1>3, KeyInv DEF IInv
<1>4. CASE UNCHANGED vars
  BY <1>1, <1>4 DEF vars, keyVars, IInv, AnswersKnown
<1>5. QED
  BY <1>1, <1>2, <1>3, <1>4 DEF Next, IInv

LEMMA WholeIfCoherent == IInv => AcceptedIsWhole
<1> SUFFICES ASSUME IInv, NEW c \in Clients, Returned(c, CheckedKinds, "ok")
             PROVE  LET n == ChunksOf[cl[c].op.kind] IN
                    \E tag \in accepted : cl[c].buf =
                      [i \in 1 .. n |-> [tag |-> tag, i |-> i - 1, n |-> n]]
  BY DEF AcceptedIsWhole
<1> DEFINE n == ChunksOf[cl[c].op.kind]
           buf == cl[c].buf
<1>1. /\ cl[c].res = "ok" /\ cl[c].op.kind \in CheckedKinds
      /\ cl[c] \in Locals /\ Coherent(cl[c], accepted)
  BY DEF Returned, IInv, TypeOK
<1>2. n \in Nat \ {0}
  BY <1>1, KindsAssumption DEF AnswerKinds
<1>3. buf \in Seq(Chunk) /\ Len(buf) = n /\ CrcOk(buf, n)
  BY <1>1 DEF Coherent, Locals
<1>4. \A i \in 1 .. Len(buf) : buf[i].n > 0 => buf[i].tag \in accepted
  BY <1>1 DEF Coherent
<1> HIDE DEF n, buf
<1>5. PICK tag \in 1 .. MaxOps :
        \A i \in 1 .. n : buf[i] = [tag |-> tag, i |-> i - 1, n |-> n]
  BY <1>3 DEF CrcOk
<1>6. tag \in accepted
  <2>1. buf[1] = [tag |-> tag, i |-> 0, n |-> n]
    BY <1>2, <1>5
  <2>2. buf[1].n = n /\ buf[1].tag = tag
    BY <2>1
  <2>3. QED
    BY <1>2, <1>3, <1>4, <2>2
<1>7. buf = [i \in 1 .. n |-> [tag |-> tag, i |-> i - 1, n |-> n]]
  BY <1>3, <1>5
<1>8. QED
  BY <1>6, <1>7 DEF n, buf

\* What yk_challenge_response or yk_get_serial accepts is one whole answer of
\* the key to one command it received intact, for any number of clients.
THEOREM AcceptedAnswersAreWhole == Spec => []AcceptedIsWhole
<1>1. Init => IInv
  BY InitInv
<1>2. IInv /\ [Next]_vars => IInv'
  BY InvStep
<1>3. IInv => AcceptedIsWhole
  BY WholeIfCoherent
<1>4. QED
  BY <1>1, <1>2, <1>3, PTL DEF Spec
-----------------------------------------------------------------------------
(* One client.  What a call that was given up, or killed, leaves in the    *)
(* key does no harm: the parts of a frame are put together from the first  *)
(* one on; the answer that was left is no longer shown from its beginning, *)
(* for the waits between the parts have used its beginning up; and pgmSeq  *)
(* moves with the client's own write only.                                 *)

\* There is one client, at most.
Alone == \A c, d \in Clients : c = d

\* The key has put together the parts of op before part k, and no more.
Assembled(op, k) == \A i \in Body : frame[i] = IF i < k THEN op.payload[i] ELSE 0

\* A frame is on its way: the part sent last is taken, or in the inbox.  With the
\* first part taken nothing waits for the user any more.
Underway(l) ==
    l.pc \in {"frame", "send"} /\ l.part > 0 =>
        \/ inbox = NoReport /\ Assembled(l.op, l.part) /\ touch.n = 0
        \/ /\ l.pc = "frame" /\ inbox.op = l.op /\ inbox.part \in Body
           /\ IsNextPart(l.op, inbox.part, l.part)
           /\ inbox.part > 0 => Assembled(l.op, inbox.part) /\ touch.n = 0

\* The client sends when the key has taken what there was, and has then read away
\* the beginning of what the key was showing.
Ready(l) ==
    /\ l.pc = "seq" => l.part = 0
    /\ l.pc = "verify" => inbox = NoReport
    /\ l.pc = "send" => /\ inbox = NoReport
                        /\ l.part > 0 /\ resp.n > 0 => pos > 0

\* Before its last part is sent, a command is not accepted.
Unsent(l) ==
    l.pc \in {"seq", "frame", "send"} =>
        /\ l.op.tag \notin accepted
        /\ inbox.op.tag = l.op.tag => inbox.part # LastPart

\* Behind the last part, the command is accepted or about to be.
Sent(l) ==
    l.pc \in {"settle", "verify", "pending", "read"} =>
        \/ inbox = NoReport /\ l.op.tag \in accepted
        \/ /\ inbox = [part |-> LastPart, op |-> l.op] /\ frame = l.op.payload
           /\ l.op.tag \notin accepted

\* An old answer is not shown from its beginning, and no touch brings one back.
Awaited(l) ==
    l.pc = "pending" => /\ resp.n > 0 /\ resp.tag # l.op.tag => pos > 0
                        /\ touch.n > 0 => touch.tag = l.op.tag

\* So the beginning of an answer is the beginning of this command's.
FirstOwn(l) ==
    /\ l.pc = "read" => Len(l.buf) > 0
    /\ Len(l.buf) > 0 /\ l.buf[1].i = 0 /\ l.buf[1].n > 0 => l.buf[1].tag = l.op.tag

\* A checked answer was the client's own, so that nothing is left in the key.
ResetDone(l) ==
    l.res = "ok" /\ l.op.kind \in CheckedKinds =>
        /\ l.pc = "reset" => inbox = NoReport
        /\ l.pc = "idle" /\ faults = 0 => inbox = NoReport /\ resp.n = 0 /\ touch.n = 0

\* What pgmSeq tells of a write whose looks at it were sure.
Counted(l) ==
    l.op.kind \in WriteKinds /\ l.sure =>
        /\ l.pc \in {"frame", "send"} =>
              l.seq = pgmSeq /\ (l.part = 0 => inbox = NoReport)
        /\ l.pc \in {"settle", "verify"} =>
              IF l.op.tag \in applied THEN pgmSeq # l.seq \/ (pgmSeq = 0 /\ ~valid)
                                      ELSE pgmSeq = l.seq
        /\ l.pc = "idle" /\ l.res = "ok" => l.op.tag \in applied \/ l.blank
        /\ l.pc = "idle" /\ l.res = "EWRITEERR" => l.op.tag \notin applied /\ inbox = NoReport

\* Writes and answers come to their ends apart.
Apart(l) ==
    /\ l.pc \in {"pending", "read"} => l.op.kind \notin WriteKinds
    /\ l.pc = "reset" => l.res # "EWRITEERR" /\ (l.res = "ok" => l.op.kind \notin WriteKinds)
    /\ l.op.tag <= ops

\* Only calls that were made are known to the key.
Past ==
    /\ applied \subseteq accepted
    /\ \A tag \in accepted : tag <= ops
    /\ inbox.op.tag <= ops

Lone(l) ==
    /\ Underway(l) /\ Ready(l) /\ Unsent(l) /\ Sent(l) /\ Awaited(l)
    /\ FirstOwn(l) /\ ResetDone(l) /\ Counted(l) /\ Apart(l)

LoneInv == IInv /\ Past /\ \A c \in Clients : Lone(cl[c])

LEMMA LoneStarts == Init => LoneInv
<1> SUFFICES ASSUME Init PROVE LoneInv
  OBVIOUS
<1>1. Past
  BY BoundsAssumption DEF Init, Past, NoReport, NoOp
<1>2. \A c \in Clients : Lone(cl[c])
  BY DEF Init, Fresh, Lone, Underway, Ready, Unsent, Sent, Awaited, FirstOwn, ResetDone,
         Counted, Apart, NoOp, WriteKinds, CheckedKinds
<1> QED
  BY <1>1, <1>2, InitInv DEF LoneInv

\* The parts that are left out are zero, in the frame as in the payload.
LEMMA PartTaken ==
    ASSUME TypeOK, KeyTakesPart, NEW j \in Parts, IsNextPart(inbox.op, inbox.part, j),
           inbox.part > 0 => Assembled(inbox.op, inbox.part)
    PROVE  \A i \in Body : frame'[i] = IF i < j THEN inbox.op.payload[i] ELSE 0
<1> DEFINE k == inbox.part
<1>1. /\ k \in Body /\ frame \in [Body -> Nat] /\ Body = 0 .. LastPart - 1
      /\ LastPart \in Nat \ {0} /\ j \in 0 .. LastPart /\ j > k
  BY FrameAssumption DEF KeyTakesPart, TypeOK, Body, Parts, IsNextPart
<1>2. frame' = [(IF k = 0 THEN Zeros ELSE frame) EXCEPT ![k] = inbox.op.payload[k]]
  BY DEF KeyTakesPart
<1> SUFFICES ASSUME NEW i \in Body
             PROVE  frame'[i] = IF i < j THEN inbox.op.payload[i] ELSE 0
  OBVIOUS
<1>3. i < k => frame'[i] = inbox.op.payload[i]
  BY <1>1, <1>2 DEF Assembled
<1>4. frame'[k] = inbox.op.payload[k]
  BY <1>1, <1>2 DEF Zeros
<1>5. i > k => frame'[i] = 0
  BY <1>1, <1>2 DEF Assembled, Zeros
<1>6. i > k /\ i < j => inbox.op.payload[i] = 0
  BY <1>1 DEF IsNextPart
<1> QED
  BY <1>1, <1>3, <1>4, <1>5, <1>6

LEMMA Complete ==
    ASSUME TypeOK, NEW op \in Op, Assembled(op, LastPart)
    PROVE  frame = op.payload
<1>1. frame \in [Body -> Nat] /\ op.payload \in [Body -> Nat]
  BY DEF TypeOK, Op
<1>2. \A i \in Body : frame[i] = op.payload[i]
  BY FrameAssumption DEF Assembled, Body
<1> QED
  BY <1>1, <1>2

LEMMA ReadMoves ==
    ASSUME TypeOK, Read
    PROVE  /\ UNCHANGED <<inbox, frame, resp, touch, pgmSeq, valid, ops, faults,
                          accepted, applied>>
           /\ resp.n > 0 => pos' > 0
BY DEF Read, HandOut, TypeOK, Answer

\* The locals after a step.
LEMMA NowIs ==
    ASSUME TypeOK, NEW c \in Clients, NEW l, Becomes(c, l)
    PROVE  cl'[c] = l
BY DEF TypeOK, Becomes

LEMMA NowReturned ==
    ASSUME TypeOK, NEW c \in Clients, NEW r, Return(c, r)
    PROVE  /\ cl'[c].pc = "idle" /\ cl'[c].res = r /\ cl'[c].op = cl[c].op
           /\ cl'[c].buf = cl[c].buf /\ cl'[c].sure = cl[c].sure
<1>1. cl'[c] = [cl[c] EXCEPT !.pc = "idle", !.res = r] /\ cl[c] \in Locals
  BY NowIs DEF Return, TypeOK
<1> QED
  BY <1>1 DEF Locals

\* A call that is over without success or doubt has nothing to keep.
LEMMA Ended ==
    ASSUME LoneInv, NEW c \in Clients, NEW r \in Results, Return(c, r),
           r \notin {"ok", "EWRITEERR"}, UNCHANGED <<ops, accepted, applied>>
    PROVE  Lone(cl[c])'
<1>1. /\ cl'[c].pc = "idle" /\ cl'[c].res = r /\ cl'[c].op = cl[c].op
      /\ cl'[c].buf = cl[c].buf
  BY NowReturned DEF LoneInv, IInv
<1>2. FirstOwn(cl[c]) /\ Apart(cl[c])
  BY DEF LoneInv, Lone
<1> QED
  BY <1>1, <1>2 DEF Lone, Underway, Ready, Unsent, Sent, Awaited, FirstOwn, ResetDone,
                    Counted, Apart

LEMMA CallAlone ==
    ASSUME LoneInv, NEW c \in Clients, Call(c)
    PROVE  Past' /\ Lone(cl[c])'
<1>1. PICK kind \in Kinds, payload \in Payloads \cup {Zeros}, mayBlock \in BOOLEAN :
        Becomes(c, Fresh([kind |-> kind, tag |-> ops + 1,
                          payload |-> payload, mayBlock |-> mayBlock],
                         FirstPc(kind)))
  BY DEF Call
<1> DEFINE op == [kind |-> kind, tag |-> ops + 1,
                  payload |-> payload, mayBlock |-> mayBlock]
<1>2. op.kind = kind /\ op.tag = ops + 1
  OBVIOUS
<1> HIDE DEF op
<1>3. cl'[c] = Fresh(op, FirstPc(kind))
  BY <1>1, NowIs DEF LoneInv, IInv, op
<1>4. /\ cl'[c].pc = FirstPc(kind) /\ cl'[c].op = op /\ cl'[c].part = 0
      /\ cl'[c].buf = <<>> /\ cl'[c].res = "none"
  BY <1>3 DEF Fresh, FirstPart
<1>5. /\ FirstPc(kind) \in {"status", "seq", "frame"}
      /\ kind \in WriteKinds => FirstPc(kind) = "seq"
  BY DEF FirstPc, WriteKinds
<1>6. /\ UNCHANGED <<inbox, accepted, applied>> /\ ops' = ops + 1 /\ ops \in Nat
      /\ inbox.op.tag \in Nat /\ inbox.op.tag < ops + 1 /\ ops + 1 \notin accepted
      /\ accepted \subseteq Nat
  BY DEF Call, keyVars, LoneInv, IInv, TypeOK, Past, Report, Op
<1>7. Past'
  BY <1>6 DEF LoneInv, Past
<1> QED
  BY <1>2, <1>4, <1>5, <1>6, <1>7 DEF Lone, Underway, Ready, Unsent, Sent, Awaited, FirstOwn,
                    ResetDone, Counted, Apart

LEMMA StatusAlone ==
    ASSUME LoneInv, NEW c \in Clients, GetStatus(c) \/ ReadSeq(c) \/ Verify(c)
    PROVE  Past' /\ Lone(cl[c])'
<1>1. /\ UNCHANGED <<inbox, frame, resp, touch, pgmSeq, valid, ops, faults, accepted,
                    applied>>
      /\ cl[c] \in Locals /\ Lone(cl[c]) /\ Coherent(cl[c], accepted) /\ TypeOK
  BY ReadMoves DEF GetStatus, ReadSeq, Verify, LoneInv, IInv, TypeOK
<1>2. Past'
  BY <1>1 DEF LoneInv, Past
<1>3. CASE GetStatus(c)
  <2>1. /\ cl'[c].pc = "idle" /\ cl'[c].res = "ok" /\ cl'[c].op = cl[c].op
        /\ cl'[c].buf = cl[c].buf
    BY <1>1, <1>3, NowReturned DEF GetStatus
  <2>2. cl[c].op.kind = "status"
    BY <1>1, <1>3 DEF GetStatus, At, Coherent
  <2> QED
    BY <1>1, <1>2, <2>1, <2>2 DEF Lone, Underway, Ready, Unsent, Sent, Awaited, FirstOwn,
          ResetDone, Counted, Apart, CheckedKinds, WriteKinds
<1>4. CASE ReadSeq(c)
  <2>1. PICK s \in SeqNos, v \in BOOLEAN :
          /\ StatusRead(s, v)
          /\ Becomes(c, [cl[c] EXCEPT !.pc = "frame", !.seq = s,
                             !.sure = ~PendingFlag /\ ~WriteFlag])
    BY <1>4 DEF ReadSeq
  <2>2. cl'[c] = [cl[c] EXCEPT !.pc = "frame", !.seq = s,
                             !.sure = ~PendingFlag /\ ~WriteFlag]
    BY <1>1, <2>1, NowIs
  <2>3. /\ cl'[c].pc = "frame" /\ cl'[c].op = cl[c].op /\ cl'[c].buf = cl[c].buf
        /\ cl'[c].seq = s /\ cl'[c].part = cl[c].part
        /\ cl'[c].sure => ~PendingFlag /\ ~WriteFlag
    BY <1>1, <2>2 DEF Locals
  <2>4. cl[c].pc = "seq" /\ cl[c].part = 0
    BY <1>1, <1>4 DEF ReadSeq, At, Lone, Ready
  <2>5. Counted(cl[c])'
    BY <1>1, <2>1, <2>3, <2>4 DEF Counted, StatusRead, WriteFlag
  <2> QED
    BY <1>1, <1>2, <2>3, <2>4, <2>5 DEF Lone, Underway, Ready, Unsent, Sent, Awaited, FirstOwn,
          ResetDone, Apart
<1>5. CASE Verify(c)
  <2>1. PICK s \in SeqNos, v \in BOOLEAN :
          /\ StatusRead(s, v)
          /\ Becomes(c, [cl[c] EXCEPT
                !.pc = "idle",
                !.sure = @ /\ ~PendingFlag,
                !.blank = ~v /\ s = 0,
                !.res = IF (~v /\ s = 0) \/ s # cl[c].seq
                        THEN "ok" ELSE "EWRITEERR"])
    BY <1>5 DEF Verify
  <2>2. /\ cl'[c].pc = "idle" /\ cl'[c].op = cl[c].op /\ cl'[c].buf = cl[c].buf
        /\ cl'[c].sure => cl[c].sure /\ ~PendingFlag
        /\ cl'[c].blank <=> ~v /\ s = 0
        /\ cl'[c].res = IF (~v /\ s = 0) \/ s # cl[c].seq THEN "ok" ELSE "EWRITEERR"
    <3>1. cl'[c] = [cl[c] EXCEPT
                !.pc = "idle",
                !.sure = @ /\ ~PendingFlag,
                !.blank = ~v /\ s = 0,
                !.res = IF (~v /\ s = 0) \/ s # cl[c].seq
                        THEN "ok" ELSE "EWRITEERR"]
      BY <1>1, <2>1, NowIs
    <3> QED
      BY <1>1, <3>1 DEF Locals
  <2>3. cl[c].pc = "verify" /\ cl[c].op.kind \in WriteKinds
    BY <1>1, <1>5 DEF Verify, At, Coherent
  <2>4. cl'[c].sure => s = pgmSeq /\ v = valid
    BY <2>1, <2>2 DEF StatusRead
  <2>5. inbox = NoReport
    BY <1>1, <1>5, <2>3 DEF Lone, Ready
  <2>6. Counted(cl[c])'
    BY <1>1, <2>2, <2>3, <2>4, <2>5 DEF Lone, Counted
  <2> QED
    BY <1>1, <1>2, <2>2, <2>3, <2>6 DEF Lone, Underway, Ready, Unsent, Sent, Awaited, FirstOwn,
          ResetDone, Apart, CheckedKinds, WriteKinds
<1> QED
  BY <1>3, <1>4, <1>5

LEMMA PollAlone ==
    ASSUME LoneInv, NEW c \in Clients,
           \/ PollHits(c) \/ PollRefuses(c) \/ PollBlocks(c)
           \/ PollUserGone(c) \/ PollAgain(c) \/ PollTimesOut(c)
    PROVE  Past' /\ Lone(cl[c])'
<1>1. /\ UNCHANGED <<inbox, frame, resp, touch, pgmSeq, valid, ops, faults, accepted,
                    applied>>
      /\ cl[c] \in Locals /\ Lone(cl[c]) /\ Coherent(cl[c], accepted) /\ TypeOK
      /\ cl[c].pc \in {"frame", "settle", "pending"}
      /\ PollTimesOut(c) \/ (resp.n > 0 => pos' > 0)
  BY ReadMoves DEF PollHits, PollRefuses, PollBlocks, PollUserGone, PollAgain, PollTimesOut,
       Poll, InWait, LoneInv, IInv, TypeOK, keyVars
<1>2. Past'
  BY <1>1 DEF LoneInv, Past
<1>3. CASE PollHits(c)
  <2>1. CASE cl[c].pc = "frame"
    <3>1. cl'[c] = [cl[c] EXCEPT !.pc = "send"] /\ inbox = NoReport
      BY <1>1, <1>3, <2>1, NowIs DEF PollHits, At, WaitOver, WriteFlag
    <3>2. /\ cl'[c].pc = "send" /\ cl'[c].op = cl[c].op /\ cl'[c].buf = cl[c].buf
          /\ cl'[c].seq = cl[c].seq /\ cl'[c].part = cl[c].part
          /\ cl'[c].sure = cl[c].sure /\ cl'[c].res = cl[c].res
      BY <1>1, <3>1 DEF Locals
    <3>3. inbox.part \notin Body
      BY <3>1, FrameAssumption DEF NoReport, Body
    <3>4. Underway(cl[c])'
      BY <1>1, <2>1, <3>1, <3>2, <3>3 DEF Lone, Underway, Assembled
    <3>5. Ready(cl[c])'
      BY <1>1, <1>3, <3>1, <3>2 DEF Ready, PollHits, PollTimesOut, Poll
    <3> QED
      BY <1>1, <1>2, <2>1, <3>2, <3>4, <3>5 DEF Lone, Unsent, Sent, Awaited, FirstOwn,
           ResetDone, Counted, Apart
  <2>2. CASE cl[c].pc = "settle"
    <3>1. cl'[c] = [cl[c] EXCEPT !.pc = "verify"] /\ inbox = NoReport
      BY <1>1, <1>3, <2>2, NowIs DEF PollHits, At, WaitOver, WriteFlag
    <3>2. /\ cl'[c].pc = "verify" /\ cl'[c].op = cl[c].op /\ cl'[c].buf = cl[c].buf
          /\ cl'[c].seq = cl[c].seq /\ cl'[c].part = cl[c].part
          /\ cl'[c].sure = cl[c].sure /\ cl'[c].res = cl[c].res
      BY <1>1, <3>1 DEF Locals
    <3> QED
      BY <1>1, <1>2, <2>2, <3>1, <3>2 DEF Lone, Underway, Ready, Unsent, Sent, Awaited,
           FirstOwn, ResetDone, Counted, Apart
  <2>3. CASE cl[c].pc = "pending"
    <3> DEFINE b == <<ChunkShown>>
    <3>1. cl'[c] = [cl[c] EXCEPT !.pc = "read", !.buf = b]
      BY <1>1, <1>3, <2>3, NowIs DEF PollHits, At
    <3>2. b[1] = ChunkShown /\ Len(b) > 0
      OBVIOUS
    <3> HIDE DEF b
    <3>3. /\ cl'[c].pc = "read" /\ cl'[c].op = cl[c].op /\ cl'[c].buf = b
          /\ cl'[c].part = cl[c].part /\ cl'[c].res = cl[c].res
      BY <1>1, <3>1 DEF Locals
    <3>4. ChunkShown.i = 0 /\ ChunkShown.n > 0 => ChunkShown.tag = cl[c].op.tag
      BY <1>1, <2>3 DEF ChunkShown, Lone, Awaited, TypeOK, Answer
    <3>5. FirstOwn(cl[c])'
      BY <3>2, <3>3, <3>4 DEF FirstOwn
    <3> QED
      BY <1>1, <1>2, <2>3, <3>3, <3>5 DEF Lone, Underway, Ready, Unsent, Sent, Awaited,
           ResetDone, Counted, Apart
  <2> QED
    BY <1>1, <2>1, <2>2, <2>3
<1>4. CASE PollRefuses(c)
  <2>1. cl'[c] = [cl[c] EXCEPT !.pc = "reset", !.res = "EWOULDBLOCK"]
    BY <1>1, <1>4, NowIs DEF PollRefuses
  <2>2. /\ cl'[c].pc = "reset" /\ cl'[c].op = cl[c].op /\ cl'[c].buf = cl[c].buf
        /\ cl'[c].res = "EWOULDBLOCK"
    BY <1>1, <2>1 DEF Locals
  <2> QED
    BY <1>1, <1>2, <2>2 DEF Lone, Underway, Ready, Unsent, Sent, Awaited, FirstOwn,
         ResetDone, Counted, Apart
<1>5. CASE PollBlocks(c) \/ PollAgain(c)
  <2> DEFINE n == IF cl[c].blocking THEN cl[c].budget - 1
                  ELSE cl[c].budget - 1 + BlockPolls
  <2>1. \/ cl'[c] = [cl[c] EXCEPT !.blocking = TRUE, !.budget = n]
        \/ cl'[c] = [cl[c] EXCEPT !.budget = @ - 1]
    BY <1>1, <1>5, NowIs DEF PollBlocks, PollAgain
  <2> HIDE DEF n
  <2>2. /\ cl'[c].pc = cl[c].pc /\ cl'[c].op = cl[c].op /\ cl'[c].buf = cl[c].buf
        /\ cl'[c].seq = cl[c].seq /\ cl'[c].part = cl[c].part
        /\ cl'[c].sure = cl[c].sure /\ cl'[c].res = cl[c].res
        /\ cl'[c].blank = cl[c].blank
    BY <1>1, <2>1 DEF Locals
  <2>3. Awaited(cl[c])'
    BY <1>1, <1>5, <2>2 DEF Lone, Awaited, PollBlocks, PollAgain, PollTimesOut, Poll
  <2> QED
    BY <1>1, <1>2, <2>2, <2>3 DEF Lone, Underway, Assembled, Ready, Unsent, Sent, FirstOwn,
         ResetDone, Counted, Apart
<1>6. CASE PollUserGone(c) \/ PollTimesOut(c)
  BY <1>1, <1>2, <1>6, Ended DEF PollUserGone, PollTimesOut, Results
<1> QED
  BY <1>3, <1>4, <1>5, <1>6

LEMMA SendAlone ==
    ASSUME LoneInv, NEW c \in Clients, SendPart(c)
    PROVE  Past' /\ Lone(cl[c])'
<1>1. /\ UNCHANGED <<frame, resp, pos, touch, pgmSeq, valid, ops, faults, accepted,
                    applied>>
      /\ inbox' = [part |-> cl[c].part, op |-> cl[c].op]
      /\ cl[c] \in Locals /\ Lone(cl[c]) /\ Coherent(cl[c], accepted) /\ TypeOK
      /\ cl[c].pc = "send" /\ inbox = NoReport
  BY DEF SendPart, Deliver, At, LoneInv, IInv, TypeOK, Lone, Ready
<1>2. inbox'.part = cl[c].part /\ inbox'.op = cl[c].op
  BY <1>1
<1>3. /\ cl[c].op \in Op /\ cl[c].part \in 0 .. LastPart /\ LastPart \in Nat \ {0}
      /\ Body = 0 .. LastPart - 1
  BY <1>1, FrameAssumption DEF Locals, Parts, Body
<1>4. Past'
  BY <1>1, <1>2 DEF LoneInv, Past, Lone, Apart
<1>5. PICK j \in Parts : /\ cl[c].part < LastPart => IsNextPart(cl[c].op, cl[c].part, j)
                         /\ cl'[c] = AfterPart(c, j)
  BY <1>1, NowIs DEF SendPart
<1>6. CASE cl[c].part < LastPart
  <2>1. IsNextPart(cl[c].op, cl[c].part, j) /\ j > cl[c].part
    BY <1>5, <1>6 DEF IsNextPart
  <2>2. /\ cl'[c].pc = "frame" /\ cl'[c].op = cl[c].op /\ cl'[c].buf = cl[c].buf
        /\ cl'[c].seq = cl[c].seq /\ cl'[c].part = j
        /\ cl'[c].sure = cl[c].sure /\ cl'[c].res = cl[c].res
    BY <1>1, <1>5, <1>6 DEF AfterPart, Waiting, Locals
  <2>3. Underway(cl[c])'
    <3>1. cl[c].part > 0 => Assembled(cl[c].op, cl[c].part) /\ touch.n = 0
      BY <1>1 DEF Lone, Underway
    <3>2. inbox'.part \in Body
      BY <1>2, <1>3, <1>6
    <3> QED
      BY <1>1, <1>2, <2>1, <2>2, <3>1, <3>2 DEF Underway, Assembled, IsNextPart
  <2>4. inbox'.part # LastPart /\ j > 0
    BY <1>2, <1>3, <1>6, <2>1, FrameAssumption DEF Parts
  <2> QED
    BY <1>1, <1>4, <2>2, <2>3, <2>4 DEF Lone, Ready, Unsent, Sent, Awaited, FirstOwn,
         ResetDone, Counted, Apart
<1>7. CASE ~(cl[c].part < LastPart)
  <2>1. cl[c].part = LastPart
    BY <1>3, <1>7
  <2>2. /\ cl'[c].pc = IF cl[c].op.kind \in WriteKinds THEN "settle" ELSE "pending"
        /\ cl'[c].op = cl[c].op /\ cl'[c].buf = cl[c].buf
        /\ cl'[c].seq = cl[c].seq /\ cl'[c].part = cl[c].part
        /\ cl'[c].sure = cl[c].sure /\ cl'[c].res = cl[c].res
    BY <1>1, <1>5, <1>7 DEF AfterPart, Waiting, Locals
  <2>3. frame = cl[c].op.payload /\ touch.n = 0 /\ (resp.n > 0 => pos > 0)
    BY <1>1, <1>3, <2>1, Complete DEF Lone, Underway, Ready
  <2>4. Sent(cl[c])'
    BY <1>1, <2>1, <2>2, <2>3 DEF Sent, Lone, Unsent
  <2>5. cl[c].op.tag \notin applied
    BY <1>1 DEF Lone, Unsent, LoneInv, Past
  <2> QED
    BY <1>1, <1>4, <2>2, <2>3, <2>4, <2>5 DEF Lone, Underway, Ready, Unsent, Awaited,
         FirstOwn, ResetDone, Counted, Apart
<1> QED
  BY <1>6, <1>7

\* A checked answer begins with the chunk that the key showed first.
LEMMA OwnAnswer ==
    ASSUME LoneInv, NEW c \in Clients, cl[c].op.kind \in CheckedKinds,
           CrcOk(cl[c].buf, ChunksOf[cl[c].op.kind])
    PROVE  /\ \A i \in 1 .. ChunksOf[cl[c].op.kind] : cl[c].buf[i].tag = cl[c].op.tag
           /\ cl[c].op.tag \in accepted
<1> DEFINE n == ChunksOf[cl[c].op.kind]
           buf == cl[c].buf
<1>1. n \in Nat \ {0}
  BY KindsAssumption DEF AnswerKinds
<1>2. buf \in Seq(Chunk) /\ Len(buf) \in Nat
  BY DEF LoneInv, IInv, TypeOK, Locals
<1>3. FirstOwn(cl[c]) /\ Coherent(cl[c], accepted)
  BY DEF LoneInv, Lone, IInv
<1> HIDE DEF n
<1>4. PICK tag \in 1 .. MaxOps :
        /\ Len(buf) >= n
        /\ \A i \in 1 .. n : buf[i] = [tag |-> tag, i |-> i - 1, n |-> n]
  BY DEF CrcOk, n
<1>5. buf[1].i = 0 /\ buf[1].n = n /\ buf[1].tag = tag
  <2>1. buf[1] = [tag |-> tag, i |-> 1 - 1, n |-> n]
    BY <1>1, <1>4
  <2> QED
    BY <2>1
<1>6. tag = cl[c].op.tag
  BY <1>1, <1>2, <1>3, <1>4, <1>5 DEF FirstOwn
<1>7. tag \in accepted
  BY <1>1, <1>2, <1>3, <1>4, <1>5 DEF Coherent
<1>8. ASSUME NEW i \in 1 .. n PROVE buf[i].tag = tag
  <2>1. buf[i] = [tag |-> tag, i |-> i - 1, n |-> n]
    BY <1>4
  <2> QED
    BY <2>1
<1> QED
  BY <1>6, <1>7, <1>8 DEF n

LEMMA ReadAlone ==
    ASSUME LoneInv, NEW c \in Clients,
           ReadChunk(c) \/ ReadEnd(c) \/ ReadLost(c) \/ ReadTooLong(c)
    PROVE  Past' /\ Lone(cl[c])'
<1>1. /\ UNCHANGED <<inbox, frame, resp, touch, pgmSeq, valid, ops, faults, accepted,
                    applied>>
      /\ cl[c] \in Locals /\ Lone(cl[c]) /\ Coherent(cl[c], accepted) /\ TypeOK
      /\ cl[c].pc = "read"
  BY ReadMoves DEF ReadChunk, ReadEnd, ReadLost, ReadTooLong, At, LoneInv, IInv, TypeOK,
       keyVars
<1>2. Past'
  BY <1>1 DEF LoneInv, Past
<1>3. cl[c].res = "none" /\ cl[c].op.kind \notin WriteKinds
  BY <1>1 DEF Coherent, Lone, Apart
<1>4. CASE ReadChunk(c)
  <2> DEFINE b == Append(cl[c].buf, ChunkShown)
  <2>1. cl'[c] = [cl[c] EXCEPT !.buf = b]
    BY <1>1, <1>4, NowIs DEF ReadChunk
  <2>2. cl[c].buf \in Seq(Chunk) /\ (Len(cl[c].buf) > 0 => b[1] = cl[c].buf[1])
    BY <1>1 DEF Locals
  <2>3. Len(cl[c].buf) > 0
    BY <1>1 DEF Lone, FirstOwn
  <2>5. Len(b) > 0
    BY <2>2, <2>3
  <2> HIDE DEF b
  <2>4. /\ cl'[c].pc = "read" /\ cl'[c].op = cl[c].op /\ cl'[c].buf = b
        /\ cl'[c].part = cl[c].part /\ cl'[c].res = cl[c].res
    BY <1>1, <2>1 DEF Locals
  <2> QED
    BY <1>1, <1>2, <1>3, <2>2, <2>3, <2>5, <2>4 DEF Lone, Underway, Ready, Unsent, Sent, Awaited,
         FirstOwn, ResetDone, Counted, Apart
<1>5. CASE ReadEnd(c)
  <2> DEFINE v == Judge(cl[c].op, cl[c].buf)
  <2>1. cl'[c] = [cl[c] EXCEPT !.res = v, !.pc = Ending(v)]
    BY <1>1, <1>5, NowIs DEF ReadEnd
  <2>2. v \in {"ok", "ECHECKSUM", "EWRONGSIZ"}
    BY DEF Judge
  <2>3. v = "ok" /\ cl[c].op.kind \in CheckedKinds =>
           CrcOk(cl[c].buf, ChunksOf[cl[c].op.kind])
    BY DEF Judge
  <2> HIDE DEF v
  <2>4. /\ cl'[c].pc = IF v = "ok" THEN "reset" ELSE "idle"
        /\ cl'[c].op = cl[c].op /\ cl'[c].buf = cl[c].buf /\ cl'[c].res = v
    BY <1>1, <2>1 DEF Locals, Ending
  <2>5. v = "ok" /\ cl[c].op.kind \in CheckedKinds => inbox = NoReport
    BY <1>1, <2>3, OwnAnswer DEF Lone, Sent
  <2> QED
    BY <1>1, <1>2, <1>3, <2>2, <2>4, <2>5 DEF Lone, Underway, Ready, Unsent, Sent, Awaited,
         FirstOwn, ResetDone, Counted, Apart
<1>6. CASE ReadLost(c) \/ ReadTooLong(c)
  <2>1. \/ cl'[c] = [cl[c] EXCEPT !.pc = "reset", !.res = "unset"]
        \/ cl'[c] = [cl[c] EXCEPT !.pc = "reset", !.res = "EWRONGSIZ"]
    BY <1>1, <1>6, NowIs DEF ReadLost, ReadTooLong
  <2>2. /\ cl'[c].pc = "reset" /\ cl'[c].op = cl[c].op /\ cl'[c].buf = cl[c].buf
        /\ cl'[c].res \in {"unset", "EWRONGSIZ"}
    BY <1>1, <2>1 DEF Locals
  <2> QED
    BY <1>1, <1>2, <2>2 DEF Lone, Underway, Ready, Unsent, Sent, Awaited, FirstOwn,
         ResetDone, Counted, Apart
<1> QED
  BY <1>4, <1>5, <1>6
LEMMA FailsAlone ==
    ASSUME LoneInv, NEW c \in Clients, ReadFails(c) \/ SendFails(c) \/ Killed(c)
    PROVE  Past' /\ Lone(cl[c])'
<1>1. UNCHANGED <<ops, accepted, applied>> /\ Lone(cl[c])
  BY DEF ReadFails, SendFails, Killed, keyVars, LoneInv
<1>2. inbox' = inbox \/ inbox' = [part |-> cl[c].part, op |-> cl[c].op]
  BY DEF ReadFails, SendFails, Killed, keyVars, Deliver
<1>3. inbox'.op.tag <= ops
  BY <1>1, <1>2 DEF LoneInv, Past, Lone, Apart
<1>4. Past'
  BY <1>1, <1>3 DEF LoneInv, Past
<1> QED
  BY <1>1, <1>4, Ended DEF ReadFails, SendFails, Killed, Results

LEMMA ResetAlone ==
    ASSUME LoneInv, NEW c \in Clients, ResetReadMode(c) \/ ResetFails(c)
    PROVE  Past' /\ Lone(cl[c])'
<1>1. /\ UNCHANGED <<inbox, ops, accepted, applied>> /\ Lone(cl[c]) /\ TypeOK
      /\ cl[c].pc = "reset" /\ cl[c].res \in Results
  BY DEF ResetReadMode, ResetFails, At, LoneInv, IInv, TypeOK, Locals
<1>2. Past'
  BY <1>1 DEF LoneInv, Past
<1>3. PICK r \in Outcomes(c) : Return(c, r)
  BY DEF ResetReadMode, ResetFails
<1>4. /\ r = cl[c].res \/ r = "EWRONGSIZ"
      /\ cl[c].op.kind \in CheckedKinds => r = cl[c].res
  BY <1>3 DEF Outcomes, CheckedKinds
<1>5. /\ cl'[c].pc = "idle" /\ cl'[c].res = r /\ cl'[c].op = cl[c].op
      /\ cl'[c].buf = cl[c].buf /\ cl'[c].sure = cl[c].sure
  BY <1>1, <1>3, NowReturned
<1>6. ResetDone(cl[c])'
  <2>1. CASE ResetReadMode(c)
    BY <1>1, <1>4, <1>5, <2>1 DEF ResetReadMode, DummyReport, NoAnswer, Lone, ResetDone
  <2>2. CASE ResetFails(c)
    <3>1. faults' # 0
      BY <1>1, <2>2 DEF ResetFails, Fault, TypeOK
    <3> QED
      BY <1>5, <3>1 DEF ResetDone
  <2> QED
    BY <2>1, <2>2
<1>7. Counted(cl[c])'
  BY <1>1, <1>4, <1>5 DEF Lone, Apart, Counted
<1> QED
  BY <1>1, <1>2, <1>5, <1>6, <1>7 DEF Lone, Underway, Ready, Unsent, Sent, Awaited,
       FirstOwn, Apart

\* What the key does changes none of the client's locals.
LEMMA KeyAlone ==
    ASSUME LoneInv, Key
    PROVE  Past' /\ \A c \in Clients : Lone(cl[c])'
<1>1. cl' = cl /\ ops' = ops /\ faults' = faults /\ TypeOK /\ Past /\ ops \in Nat
  BY DEF Key, KeyTakesPart, KeyRejectsFrame, KeyUpdates, KeyAnswers, KeyAccepts, Touched,
       KeyGivesUp, LoneInv, IInv, TypeOK
<1>2. /\ NoReport.part = -1 /\ NoReport.op.tag = 0 /\ LastPart \in Nat \ {0}
      /\ Body = 0 .. LastPart - 1 /\ LastPart # -1 /\ LastPart \notin Body /\ -1 \notin Body
  BY FrameAssumption DEF NoReport, NoOp, Body
<1>3. CASE KeyTakesPart
  <2>1. /\ inbox.part \in Body /\ inbox' = NoReport /\ touch' = NoAnswer
        /\ UNCHANGED <<pgmSeq, valid, accepted, applied>>
        /\ UNCHANGED <<resp, pos>> \/ resp' = NoAnswer
    BY <1>3 DEF KeyTakesPart
  <2>2. Past'
    BY <1>1, <1>2, <2>1 DEF Past
  <2>3. ASSUME NEW c \in Clients PROVE Lone(cl[c])'
    <3>1. Lone(cl[c]) /\ cl[c].part \in Parts
      BY <1>1 DEF LoneInv, TypeOK, Locals
    <3>2. Underway(cl[c])'
      <4> SUFFICES ASSUME cl[c].pc \in {"frame", "send"}, cl[c].part > 0
                   PROVE  Underway(cl[c])'
        BY <1>1 DEF Underway
      <4>1. /\ inbox.op = cl[c].op /\ IsNextPart(inbox.op, inbox.part, cl[c].part)
            /\ inbox.part > 0 => Assembled(inbox.op, inbox.part)
        BY <1>2, <2>1, <3>1 DEF Lone, Underway
      <4>2. \A i \in Body : frame'[i] = IF i < cl[c].part THEN inbox.op.payload[i] ELSE 0
        BY <1>1, <1>3, <3>1, <4>1, PartTaken
      <4> QED
        BY <1>1, <2>1, <4>1, <4>2 DEF Underway, Assembled, NoAnswer
    <3>3. Sent(cl[c])'
      BY <1>1, <1>2, <2>1, <3>1 DEF Lone, Sent
    <3> QED
      BY <1>1, <1>2, <2>1, <3>1, <3>2, <3>3 DEF Lone, Ready, Unsent, Awaited, FirstOwn,
           ResetDone, Counted, Apart, NoAnswer
  <2> QED
    BY <2>2, <2>3
<1>4. CASE KeyRejectsFrame
  <2>1. /\ inbox.part = LastPart /\ inbox' = NoReport /\ frame # inbox.op.payload
        /\ UNCHANGED <<frame, resp, pos, touch, pgmSeq, valid, accepted, applied>>
    BY <1>4 DEF KeyRejectsFrame
  <2>2. Past'
    BY <1>1, <1>2, <2>1 DEF Past
  <2>3. ASSUME NEW c \in Clients PROVE Lone(cl[c])'
    <3>1. Lone(cl[c])
      BY DEF LoneInv
    <3>2. Underway(cl[c])'
      BY <1>1, <1>2, <2>1, <3>1 DEF Lone, Underway, Assembled
    <3>3. Sent(cl[c])'
      BY <1>1, <1>2, <2>1, <3>1 DEF Lone, Sent
    <3> QED
      BY <1>1, <1>2, <2>1, <3>1, <3>2, <3>3 DEF Lone, Ready, Unsent, Awaited, FirstOwn,
           ResetDone, Counted, Apart
  <2> QED
    BY <2>2, <2>3
<1>5. ASSUME NEW kinds, KeyAccepts(kinds), applied' \in {applied, applied \cup {inbox.op.tag}}
      PROVE  /\ Past'
             /\ inbox.part = LastPart /\ inbox' = NoReport /\ frame' = frame
             /\ inbox.op.kind \in kinds
             /\ accepted' = accepted \cup {inbox.op.tag}
             /\ \A c \in Clients : /\ Underway(cl[c])' /\ Unsent(cl[c])' /\ Sent(cl[c])'
                                   /\ FirstOwn(cl[c])' /\ Apart(cl[c])'
  <2>1. /\ inbox.part = LastPart /\ inbox' = NoReport /\ frame' = frame
        /\ inbox.op.kind \in kinds
        /\ accepted' = accepted \cup {inbox.op.tag}
    BY <1>5 DEF KeyAccepts
  <2>2. Past'
    BY <1>1, <1>2, <1>5, <2>1 DEF Past
  <2>3. ASSUME NEW c \in Clients
        PROVE  /\ Underway(cl[c])' /\ Unsent(cl[c])' /\ Sent(cl[c])'
               /\ FirstOwn(cl[c])' /\ Apart(cl[c])'
    <3>1. Lone(cl[c])
      BY DEF LoneInv
    <3>2. ~(cl[c].pc \in {"frame", "send"} /\ cl[c].part > 0)
      BY <1>2, <2>1, <3>1 DEF Lone, Underway
    <3>3. Unsent(cl[c])'
      BY <1>1, <1>2, <2>1, <3>1 DEF Lone, Unsent
    <3>4. Sent(cl[c])'
      BY <1>1, <1>2, <2>1, <3>1 DEF Lone, Sent
    <3> QED
      BY <1>1, <3>1, <3>2, <3>3, <3>4 DEF Lone, Underway, FirstOwn, Apart
  <2> QED
    BY <2>1, <2>2, <2>3
<1>6. CASE KeyUpdates
  <2>1. KeyAccepts(WriteKinds) /\ applied' \in {applied, applied \cup {inbox.op.tag}}
        /\ UNCHANGED <<resp, pos, touch>>
    BY <1>6 DEF KeyUpdates
  <2>2. ASSUME NEW c \in Clients
        PROVE  /\ Ready(cl[c])' /\ Awaited(cl[c])' /\ ResetDone(cl[c])' /\ Counted(cl[c])'
    <3>1. Lone(cl[c]) /\ cl[c].part \in Parts
      BY <1>1 DEF LoneInv, TypeOK, Locals
    <3>2. inbox.part = LastPart /\ inbox' = NoReport /\ inbox # NoReport
      BY <1>2, <1>5, <2>1
    <3>3. Ready(cl[c])' /\ Awaited(cl[c])' /\ ResetDone(cl[c])'
      BY <1>1, <2>1, <3>1, <3>2 DEF Lone, Ready, Awaited, ResetDone
    <3>4. Counted(cl[c])'
      <4> SUFFICES ASSUME cl[c].op.kind \in WriteKinds, cl[c].sure PROVE Counted(cl[c])'
        BY <1>1 DEF Counted
      <4>1. cl[c].pc \notin {"frame", "send"}
        <5>1. cl[c].pc \in {"frame", "send"} => cl[c].part > 0
          BY <3>1, <3>2 DEF Lone, Counted, Parts
        <5> QED
          BY <1>2, <3>1, <3>2, <5>1 DEF Lone, Underway
      <4>2. cl[c].pc \in {"settle", "verify"} =>
               inbox.op = cl[c].op /\ cl[c].op.tag \notin accepted /\ cl[c].op.tag \notin applied
               /\ cl[c].seq = pgmSeq
        BY <1>1, <3>1, <3>2 DEF Lone, Sent, Counted, Past
      <4>3. cl[c].pc = "idle" => Counted(cl[c])'
        BY <1>1, <2>1, <3>1, <3>2 DEF Lone, Counted
      <4>4. cl[c].pc \in {"settle", "verify"} => Counted(cl[c])'
        <5>1. pgmSeq \in 0 .. SeqMod - 1 /\ SeqMod \in Nat \ {0, 1}
          BY <1>1, BoundsAssumption DEF TypeOK, SeqNos
        <5> QED
          BY <1>1, <1>6, <4>2, <5>1 DEF Counted, KeyUpdates
      <4> QED
        BY <1>1, <4>1, <4>3, <4>4 DEF Counted
    <3> QED
      BY <3>3, <3>4
  <2> QED
    BY <1>5, <2>1, <2>2 DEF Lone
<1>7. CASE KeyAnswers
  <2>1. KeyAccepts(AnswerKinds) /\ UNCHANGED <<valid, pgmSeq, applied>>
    BY <1>7 DEF KeyAnswers
  <2>2. /\ \/ resp' = resp /\ pos' = pos
           \/ resp'.tag = inbox.op.tag
           \/ resp' = NoAnswer
        /\ touch' = touch \/ touch'.tag = inbox.op.tag
    BY <1>7 DEF KeyAnswers
  <2>3. ASSUME NEW c \in Clients
        PROVE  /\ Ready(cl[c])' /\ Awaited(cl[c])' /\ ResetDone(cl[c])' /\ Counted(cl[c])'
    <3>1. Lone(cl[c])
      BY DEF LoneInv
    <3>2. inbox.part = LastPart /\ inbox' = NoReport /\ inbox # NoReport
          /\ inbox.op.kind \in AnswerKinds
      BY <1>2, <1>5, <2>1
    <3>3. Ready(cl[c])' /\ ResetDone(cl[c])'
      BY <1>1, <3>1, <3>2 DEF Lone, Ready, ResetDone
    <3>4. Awaited(cl[c])'
      BY <1>1, <2>2, <3>1, <3>2 DEF Lone, Sent, Awaited, NoAnswer
    <3>5. Counted(cl[c])'
      BY <1>1, <2>1, <3>1, <3>2 DEF Lone, Counted
    <3> QED
      BY <3>3, <3>4, <3>5
  <2> QED
    BY <1>5, <2>1, <2>3 DEF Lone
<1>8. CASE Touched
  <2>1. /\ touch.n > 0 /\ resp' = touch /\ pos' = 0 /\ touch' = NoAnswer
        /\ UNCHANGED <<inbox, frame, pgmSeq, valid, accepted, applied>>
    BY <1>8 DEF Touched
  <2>2. Past'
    BY <1>1, <2>1 DEF Past
  <2>3. ASSUME NEW c \in Clients PROVE Lone(cl[c])'
    <3>1. Lone(cl[c]) /\ ~(touch.n = 0)
      BY <1>1, <2>1 DEF LoneInv, TypeOK, Answer
    <3>2. Underway(cl[c])' /\ Ready(cl[c])'
      BY <1>1, <1>2, <2>1, <3>1 DEF Lone, Underway, Assembled, Ready, NoAnswer
    <3> QED
      BY <1>1, <2>1, <3>1, <3>2 DEF Lone, Unsent, Sent, Awaited, FirstOwn, ResetDone,
           Counted, Apart, NoAnswer
  <2> QED
    BY <2>2, <2>3
<1>9. CASE KeyGivesUp
  <2>1. /\ touch' = touch \/ touch' = NoAnswer
        /\ UNCHANGED <<resp, pos>> \/ resp' = NoAnswer
        /\ UNCHANGED <<inbox, frame, pgmSeq, valid, accepted, applied>>
    BY <1>9 DEF KeyGivesUp
  <2>2. Past'
    BY <1>1, <2>1 DEF Past
  <2>3. ASSUME NEW c \in Clients PROVE Lone(cl[c])'
    <3>1. Lone(cl[c])
      BY DEF LoneInv
    <3>2. Underway(cl[c])'
      BY <1>1, <2>1, <3>1 DEF Lone, Underway, Assembled, NoAnswer
    <3> QED
      BY <1>1, <2>1, <3>1, <3>2 DEF Lone, Ready, Unsent, Sent, Awaited, FirstOwn, ResetDone,
           Counted, Apart, NoAnswer
  <2> QED
    BY <2>2, <2>3
<1> QED
  BY <1>3, <1>4, <1>6, <1>7, <1>8, <1>9 DEF Key

LEMMA LoneStep ==
    ASSUME Alone
    PROVE  LoneInv /\ [Next]_vars => LoneInv'
<1> SUFFICES ASSUME LoneInv, [Next]_vars PROVE LoneInv'
  OBVIOUS
<1>1. IInv'
  BY InvStep DEF LoneInv
<1>2. ASSUME NEW c \in Clients, Call(c) \/ Step(c) \/ Failure(c)
      PROVE  Past' /\ \A d \in Clients : Lone(cl[d])'
  <2>1. Past' /\ Lone(cl[c])'
    BY <1>2, CallAlone, StatusAlone, PollAlone, SendAlone, ReadAlone, FailsAlone, ResetAlone
    DEF Step, Failure
  <2>2. \A d \in Clients : d = c
    BY DEF Alone
  <2> QED
    BY <2>1, <2>2
<1>3. CASE Key
  BY <1>1, <1>3, KeyAlone DEF LoneInv
<1>4. CASE UNCHANGED vars
  <2>1. Past'
    BY <1>4 DEF vars, keyVars, LoneInv, Past
  <2>2. ASSUME NEW c \in Clients PROVE Lone(cl[c])'
    BY <1>4 DEF vars, keyVars, LoneInv, Lone, Underway, Assembled, Ready, Unsent, Sent,
         Awaited, FirstOwn, ResetDone, Counted, Apart
  <2> QED
    BY <1>1, <2>1, <2>2 DEF LoneInv
<1> QED
  BY <1>1, <1>2, <1>3, <1>4 DEF Next, LoneInv

LEMMA LoneHolds == ASSUME Alone PROVE Spec => []LoneInv
<1>1. LoneInv /\ [Next]_vars => LoneInv'
  BY LoneStep
<1> QED
  BY <1>1, LoneStarts, PTL DEF Spec

\* For one client: what yk_challenge_response or yk_get_serial accepts answers
\* the command that this very call has sent.
THEOREM AnswersAreOwn == ASSUME Alone PROVE Spec => []AcceptedIsOwn
<1>1. LoneInv => AcceptedIsOwn
  <2> SUFFICES ASSUME LoneInv, NEW c \in Clients, Returned(c, CheckedKinds, "ok"),
                      NEW i \in 1 .. Len(cl[c].buf)
               PROVE  cl[c].buf[i].tag = cl[c].op.tag
    BY DEF AcceptedIsOwn
  <2>1. Coherent(cl[c], accepted) /\ cl[c].res = "ok" /\ cl[c].op.kind \in CheckedKinds
    BY DEF LoneInv, IInv, Returned
  <2>2. /\ CrcOk(cl[c].buf, ChunksOf[cl[c].op.kind])
        /\ Len(cl[c].buf) = ChunksOf[cl[c].op.kind]
    BY <2>1 DEF Coherent
  <2> QED
    BY <2>1, <2>2, OwnAnswer
<1> QED
  BY <1>1, LoneHolds, PTL

\* For one client: a frame of yk_write_to_key whose last part was sent is accepted,
\* with its all-zero parts left out, whatever an interrupted call left in the key.
THEOREM FramesAreAccepted == ASSUME Alone PROVE Spec => []SentIsAccepted
<1>1. LoneInv => SentIsAccepted
  <2>1. NoReport.part = -1 /\ LastPart # -1
    BY FrameAssumption DEF NoReport
  <2>2. \A c \in Clients : NoReport # [part |-> LastPart, op |-> cl[c].op]
    BY <2>1
  <2> QED
    BY <2>2 DEF LoneInv, Lone, Sent, SentIsAccepted, WriteFlag
<1> QED
  BY <1>1, LoneHolds, PTL

\* For one client: _yk_write succeeds exactly if the update was made, where its
\* looks at pgmSeq were sure and the key is not blank.
THEOREM WritesAreTold == ASSUME Alone PROVE Spec => []WriteIsTold
<1>1. LoneInv => WriteIsTold
  BY DEF LoneInv, Lone, Counted, WriteIsTold, Returned, At
<1> QED
  BY <1>1, LoneHolds, PTL

\* For one client without failures: a checked answer leaves the key showing its
\* status (yk_force_key_update).
THEOREM ModeIsReset == ASSUME Alone PROVE Spec => []ReadModeIsReset
<1>1. LoneInv => ReadModeIsReset
  BY DEF LoneInv, Lone, ResetDone, ReadModeIsReset, Returned, At
<1> QED
  BY <1>1, LoneHolds, PTL
=============================================================================
