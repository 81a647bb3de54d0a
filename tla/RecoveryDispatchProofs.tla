----------------------- MODULE RecoveryDispatchProofs -----------------------
(***************************************************************************)
(* For every set of calls, commands, abandonments and deliveries and any   *)
(* number of faults: CreateTask is called once for a root, the dispatch    *)
(* record is true of the queue, callers agree on it, and an abandoned      *)
(* recovery never calls the provider.                                      *)
(*                                                                         *)
(* None of these is inductive.  The invariant adds what a call may hold    *)
(* and what a transaction was built from, be it under way or late: only a  *)
(* PREPARED record is ever started, only a started one is finished, and    *)
(* whoever may call CreateTask has the one started record of the root.     *)
(***************************************************************************)
EXTENDS RecoveryDispatch, TLAPS

CallPcs == {"idle", "trusted", "chain", "refresh", "readopt", "append", "intent",
            "reserve", "read", "resolve", "attest", "confirm", "issue", "prepare",
            "seal", "begin", "enqueue", "await", "finish", "readback", "done"}
CallCodes == Dispositions \cup
             {"none", "AUTHORITY_STALE", "IDENTITY_CONFLICT", "TRUSTED_STATE_INVALID",
              "ATTESTATION_INVALID", "ISSUANCE_DENIED", "OUTCOME_UNKNOWN",
              "STORE_UNAVAILABLE", "UNAVAILABLE", "CRASHED"}
AbPcs == {"idle", "read", "fence", "classify", "release", "readback", "done"}
AbCodes == {"none", "CLAIM_NOT_ACTIVE", "EPOCH_MISMATCH", "INTENT_INVALID",
            "DISPATCH_INVALID", "DISPATCH_NOT_EXPIRED", "RECEIPT_EXISTS",
            "TRUSTED_STATE_INVALID", "CLASSIFICATION_DENIED", "FENCED_RESET_REQUIRED",
            "RELEASED", "OUTCOME_UNKNOWN", "UNAVAILABLE"}
DlPcs == {"waiting", "claim", "adopt", "gate", "decide", "persist", "refused", "done"}
Outcomes == {"ABSENT", "CLAIMED", "DENIED", "FAILED_SAFE", "AMBIGUOUS", "VERIFIED"}
Reasons == {"NONE", "CALLER_UNAUTHORIZED", "EPOCH_MISMATCH", "AUTHORITY_UNAVAILABLE",
            "CAPABILITY_EXPIRED"}

ReceiptType == [outcome : Outcomes, reason : Reasons, seen : Nat]
SnapshotType == [authority : AuthorityType, intent : Command \cup {NoCommand},
                 rec : DispatchType, receipt : ReceiptType,
                 stages : SUBSET (FenceStages \cup ReleaseStages)]
CallState == [pc : CallPcs, cmd : Command \cup {NoCommand}, seen : AuthorityType,
              rec : DispatchType, op : Ops \cup {"none"}, code : CallCodes]
AbState == [pc : AbPcs, cmd : AbandonType \cup {NoAbandon}, born : Nat, tries : Nat,
            seen : SnapshotType, op : AbOps \cup {"none"}, code : AbCodes]
DlState == [pc : DlPcs, cmd : Command \cup {NoCommand}, born : Nat, seen : AuthorityType]
CallTx == [op : Ops, cmd : Command, rec : DispatchType]
AbandonTx == [op : AbOps, cmd : AbandonType, rec : SnapshotType]

Typed ==
    /\ now \in Nat /\ faults \in Nat /\ released \in BOOLEAN
    /\ authority \in AuthorityType
    /\ intent \in Command \cup {NoCommand}
    /\ dispatch \in [Command -> DispatchType]
    /\ wire \in [Call -> {"none", "sent", "created", "exists"}]
    /\ queue \subseteq Command /\ effect \subseteq Delivery
    /\ service \in {"CANARY", "STABLE"}
    /\ progress \in AbandonType \cup {NoAbandon}
    /\ receipt \in ReceiptType
    /\ call \in [Call -> CallState] /\ ab \in [Abandon -> AbState]
    /\ dl \in [Delivery -> DlState]

-----------------------------------------------------------------------------
\* Records and transactions.

Prepared(r) == r.state = "PREPARED" /\ r.rev = 0
Finished(r) == r.state \in Dispositions /\ r.rev = 2
Created(r) == r.state \in {"CREATED", "DUPLICATE"}
Regular(r) ==
    \/ Prepared(r)
    \/ r.state = "ENQUEUE_STARTED" /\ r.rev = 1
    \/ r.state \in Dispositions /\ r.rev >= 1

\* Only the command that the intent names has a record.
RecordsOK ==
    \A m \in Command :
        /\ dispatch[m] = NoDispatch \/ (intent = m /\ Regular(dispatch[m]))
        /\ Created(dispatch[m]) => m \in queue
        /\ m \in queue => Started(dispatch[m])

\* What the transactions that write a dispatch record were built from.
CallTxOK(op, m, r, q) ==
    /\ op \in {"prepare", "begin"} => Prepared(r)
    /\ op = "finish" => Finished(r) /\ (Created(r) => m \in q)

AbTxOK(op, m, s) ==
    /\ op = "fence" => EpochAbandonable(m)
    /\ op = "release" => s = "STABLE"

TxOK(o) ==
    \/ o \in CallTx /\ CallTxOK(o.op, o.cmd, o.rec, queue)
    \/ o \in AbandonTx /\ AbTxOK(o.op, o.cmd, service)

LateOK == \A o \in late : TxOK(o)

-----------------------------------------------------------------------------
\* Calls.

\* What the local state s of a call alone tells.
Local(s) ==
    /\ s = Idle \/ (s.pc # "idle" /\ s.cmd \in Command)
    /\ s.pc # "done" => s.code = "none"
    /\ s.pc \in {"attest", "confirm", "issue", "seal"} => Prepared(s.rec)
    /\ s.pc = "readback" => s.op \in Ops /\ (s.op = "prepare" => Prepared(s.rec))

\* What it tells of records D, queue Q and abandonment P.
Agrees(s, D, P) ==
    s.code \in Dispositions =>
        \/ D[s.cmd].state = s.code
        \/ P # NoAbandon /\ D[s.cmd].state = "AMBIGUOUS"

Truthful(s, D, Q, P) ==
    /\ CallTxOK(s.pc, s.cmd, s.rec, Q)
    /\ s.pc = "enqueue" => Started(D[s.cmd])
    /\ Agrees(s, D, P)

\* Where a call may be that has called CreateTask.
Placed(s) ==
    s.pc \in {"await", "finish", "done"} \/ (s.pc = "readback" /\ s.op = "finish")

\* What its request on the wire tells.
Wired(c) ==
    wire[c] # "none" =>
        /\ Placed(call[c]) /\ Started(dispatch[Cmd(c)])
        /\ wire[c] # "sent" => Cmd(c) \in queue

CallsOK ==
    \A c \in Call :
        Local(call[c]) /\ Truthful(call[c], dispatch, queue, progress) /\ Wired(c)

\* A call that may call CreateTask or did; there is one at most.
Holds(c) == call[c].pc = "enqueue" \/ wire[c] # "none"
OneHolder == \A c, d \in Call : Holds(c) /\ Holds(d) => c = d

-----------------------------------------------------------------------------
\* Abandonments and deliveries.

AbLocal(s) ==
    s.pc \notin {"idle", "done"} => s.cmd \in AbandonType /\ AbTxOK(s.pc, s.cmd, service)

AbsOK == \A a \in Abandon : AbLocal(ab[a])

\* A delivery past its claim knows that there is a receipt.
Gated(s, r) ==
    /\ s.pc \notin {"waiting", "done"} => s.cmd \in queue
    /\ s.pc \in {"gate", "decide", "persist", "refused"} => r.outcome # "ABSENT"

\* After the fence it has seen the fenced authority.
Fenced(s) ==
    s.pc = "decide" => s.seen.claim # "ACTIVE" /\ s.seen.epoch = progress.epoch + 1

GateOK ==
    /\ \A d \in Delivery : Gated(dl[d], receipt)
    /\ effect # {} => receipt.outcome # "ABSENT"

\* What the fence leaves behind, for good.
FenceOK ==
    Progressed =>
        /\ progress \in AbandonType
        /\ authority.claim # "ACTIVE" /\ authority.epoch = progress.epoch + 1
        /\ intent = progress.of /\ EpochAbandonable(progress)
        /\ dispatch[progress.of].state = "AMBIGUOUS"
        /\ effect = {}
        /\ \A d \in Delivery : Fenced(dl[d])

IInv ==
    /\ Typed /\ RecordsOK /\ LateOK /\ CallsOK /\ OneHolder
    /\ AbsOK /\ GateOK /\ FenceOK
    /\ ReleaseSawStable

-----------------------------------------------------------------------------
\* A local state to which call c may go, given the records D and the
\* abandonment P after its step.
NextOK(c, s, D, P) ==
    /\ s \in CallState /\ Local(s) /\ Truthful(s, D, queue, P)
    /\ s.pc = "enqueue" => \A d \in Call \ {c} : ~Holds(d)
    /\ wire[c] # "none" => s.cmd = Cmd(c) /\ Placed(s)

\* What a step does to the store while queue, receipt, service, calls of the
\* provider and deliveries stay: records only go forward.
Grows ==
    \A m \in Command :
        /\ Started(dispatch[m]) => Started(dispatch'[m])
        /\ dispatch[m].state \in Dispositions =>
               \/ dispatch'[m].state = dispatch[m].state
               \/ progress' # NoAbandon /\ dispatch'[m].state = "AMBIGUOUS"

StoreStep ==
    /\ authority' \in AuthorityType /\ intent' \in Command \cup {NoCommand}
    /\ dispatch' \in [Command -> DispatchType] /\ released' \in BOOLEAN
    /\ progress' \in AbandonType \cup {NoAbandon}
    /\ progress # NoAbandon => progress' # NoAbandon
    /\ RecordsOK' /\ FenceOK' /\ ReleaseSawStable'
    /\ Grows

FreePcs == {"trusted", "chain", "refresh", "readopt", "append", "intent", "read",
            "reserve", "resolve"}
PreparedPcs == {"attest", "confirm", "issue", "prepare", "seal", "begin"}

-----------------------------------------------------------------------------
\* The initial values have their types.
LEMMA NothingTyped ==
    /\ NoDispatch \in DispatchType /\ NoReceipt \in ReceiptType
    /\ NoAuthority \in AuthorityType /\ Idle \in CallState
    /\ AbIdle \in AbState /\ Waiting \in DlState
    /\ NoSnapshot \in SnapshotType
<1>1. NoDispatch \in DispatchType /\ NoReceipt \in ReceiptType /\ NoAuthority \in AuthorityType
    BY DEF NoDispatch, DispatchType, NoReceipt, ReceiptType, NoAuthority, AuthorityType,
           Outcomes, Reasons
<1>2. Idle \in CallState BY <1>1 DEF Idle, CallState, CallPcs, CallCodes
<1>3. NoSnapshot \in SnapshotType BY <1>1 DEF NoSnapshot, SnapshotType
<1>4. AbIdle \in AbState BY <1>3 DEF AbIdle, AbState, AbPcs, AbCodes
<1>5. Waiting \in DlState BY <1>1 DEF Waiting, DlState, DlPcs
<1> QED BY <1>1, <1>2, <1>3, <1>4, <1>5

\* The fenced command is a command.
LEMMA AbandonIsNot == ASSUME NEW m \in AbandonType PROVE m # NoAbandon /\ m.of \in Command
BY RecoveryConstants DEF AbandonType, NoAbandon

LEMMA InitInv == Init => IInv
<1> SUFFICES ASSUME Init PROVE IInv OBVIOUS
<1>1. Typed
    <2>1. [epoch |-> 1, claim |-> "ACTIVE"] \in AuthorityType BY DEF AuthorityType
    <2> QED BY <2>1, NothingTyped DEF Init, Typed
<1>2. RecordsOK BY DEF Init, RecordsOK, NoDispatch, Created
<1>3. CallsOK
    <2> SUFFICES ASSUME NEW c \in Call
                 PROVE  Local(call[c]) /\ Truthful(call[c], dispatch, queue, progress) /\ Wired(c)
        BY DEF CallsOK
    <2>1. call[c] = Idle /\ wire[c] = "none" BY DEF Init
    <2>2. Local(Idle) BY DEF Local, Idle
    <2>3. Truthful(Idle, dispatch, queue, progress)
        BY DEF Truthful, Idle, CallTxOK, Agrees, Dispositions
    <2> QED BY <2>1, <2>2, <2>3 DEF Wired
<1>4. OneHolder BY DEF Init, OneHolder, Holds, Idle
<1>5. LateOK BY DEF Init, LateOK
<1>6. AbsOK BY DEF Init, AbsOK, AbLocal, AbIdle
<1>7. GateOK BY DEF Init, GateOK, Gated, Waiting
<1>8. FenceOK /\ ReleaseSawStable
    BY DEF Init, FenceOK, ReleaseSawStable, Progressed
<1> QED BY <1>1, <1>2, <1>3, <1>4, <1>5, <1>6, <1>7, <1>8 DEF IInv

-----------------------------------------------------------------------------
\* Calls.

\* A call that stays where it is stays true while records go forward.
LEMMA StaysTrue ==
    ASSUME IInv, Grows, progress # NoAbandon => progress' # NoAbandon,
           UNCHANGED <<wire, queue>>, NEW d \in Call, call'[d] = call[d]
    PROVE  Local(call'[d]) /\ Truthful(call'[d], dispatch', queue', progress') /\ Wired(d)'
<1>1. Local(call[d]) /\ Truthful(call[d], dispatch, queue, progress) /\ Wired(d)
    BY DEF IInv, CallsOK
<1>2. call[d] \in CallState BY DEF IInv, Typed
<1>3. CASE call[d].pc = "idle"
    <2>1. call[d] = Idle BY <1>1, <1>3 DEF Local
    <2>2. wire[d] = "none" BY <1>1, <1>3 DEF Wired, Placed
    <2>3. Truthful(Idle, dispatch', queue', progress')
        BY DEF Truthful, Idle, CallTxOK, Agrees, Dispositions
    <2> QED BY <1>1, <2>1, <2>2, <2>3 DEF Wired
<1>4. CASE call[d].pc # "idle"
    <2>1. Cmd(d) \in Command BY <1>1, <1>4 DEF Local, Idle, Cmd
    <2>2. Agrees(call[d], dispatch', progress')
        BY <1>1, <2>1 DEF Truthful, Agrees, Grows, Cmd, Dispositions
    <2>3. call[d].pc = "enqueue" => Started(dispatch'[call[d].cmd])
        BY <1>1, <2>1 DEF Truthful, Grows, Cmd
    <2>4. Truthful(call'[d], dispatch', queue', progress')
        BY <1>1, <2>2, <2>3 DEF Truthful
    <2>5. Wired(d)' BY <1>1, <2>1 DEF Wired, Grows, Cmd
    <2> QED BY <1>1, <2>4, <2>5
<1> QED BY <1>3, <1>4

\* A step of one call, with whatever it does to the store.
LEMMA CallMoves ==
    ASSUME IInv, StoreStep, LateOK', UNCHANGED <<now, world, ab, dl>>, faults' \in Nat,
           NEW c \in Call, NEW s, NextOK(c, s, dispatch', progress'), Go(c, s)
    PROVE  IInv'
<1>1. call \in [Call -> CallState] /\ wire' = wire /\ queue' = queue /\ s \in CallState
    BY DEF IInv, Typed, world, NextOK
<1>2. call' = [call EXCEPT ![c] = s] BY DEF Go
<1>3. call'[c] = s /\ \A d \in Call : d # c => call'[d] = call[d] BY <1>1, <1>2
<1>4. Typed' BY <1>1, <1>2 DEF IInv, Typed, StoreStep, world
<1>5. CallsOK'
    <2> SUFFICES ASSUME NEW d \in Call
                 PROVE  Local(call'[d]) /\ Truthful(call'[d], dispatch', queue', progress')
                        /\ Wired(d)'
        BY DEF CallsOK
    <2>1. CASE d # c BY <1>1, <1>3, <2>1, StaysTrue DEF StoreStep
    <2>2. CASE d = c
        <3>1. Local(s) /\ Truthful(s, dispatch', queue', progress') BY <1>1 DEF NextOK
        <3>2. ASSUME wire[c] # "none"
              PROVE  /\ Placed(s) /\ Started(dispatch'[s.cmd])
                     /\ wire[c] # "sent" => s.cmd \in queue
            <4>1. s.cmd = Cmd(c) /\ Placed(s) BY <3>2 DEF NextOK
            <4>2. Wired(c) /\ Local(call[c]) BY DEF IInv, CallsOK
            <4>3. Cmd(c) \in Command BY <3>2, <4>2 DEF Wired, Placed, Local, Idle, Cmd
            <4> QED BY <3>2, <4>1, <4>2, <4>3 DEF Wired, StoreStep, Grows
        <3>3. Wired(c)' BY <1>1, <1>3, <3>2 DEF Wired, Cmd
        <3> QED BY <1>3, <2>2, <3>1, <3>3
    <2> QED BY <2>1, <2>2
<1>6. OneHolder'
    <2> SUFFICES ASSUME NEW d \in Call, NEW e \in Call, Holds(d)', Holds(e)', d # e
                 PROVE  FALSE
        BY DEF OneHolder
    <2>1. ASSUME NEW f \in Call, Holds(f)', f # c PROVE Holds(f)
        BY <1>1, <1>3, <2>1 DEF Holds
    <2>2. Holds(c)' => Holds(c) \/ \A f \in Call \ {c} : ~Holds(f)
        BY <1>1, <1>3 DEF Holds, NextOK
    <2> QED BY <2>1, <2>2 DEF IInv, OneHolder
<1>7. AbsOK' BY DEF IInv, AbsOK, AbLocal, world
<1>8. GateOK' BY DEF IInv, GateOK, Gated, world
<1> QED BY <1>4, <1>5, <1>6, <1>7, <1>8 DEF IInv, StoreStep

\* A store that stays is a step of it.
LEMMA StoreStays ==
    ASSUME IInv, UNCHANGED <<ledger, receipt, service, effect, dl>>, queue' = queue
    PROVE  StoreStep
<1>1. UNCHANGED <<authority, intent, dispatch, progress, released>> BY DEF ledger
<1>2. RecordsOK' BY <1>1 DEF IInv, RecordsOK
<1>3. FenceOK' BY <1>1 DEF IInv, FenceOK, Progressed, Fenced
<1>4. ReleaseSawStable'
    BY <1>1 DEF IInv, ReleaseSawStable, Progressed
<1> QED BY <1>1, <1>2, <1>3, <1>4 DEF IInv, Typed, StoreStep, Grows

\* A step of one call that changes nothing else.
LEMMA CallThinks ==
    ASSUME IInv, CallOnly, faults' \in Nat,
           NEW c \in Call, NEW s, NextOK(c, s, dispatch, progress), Go(c, s)
    PROVE  IInv'
<1>1. UNCHANGED <<ledger, receipt, service, effect, dl>> /\ queue' = queue
    BY DEF CallOnly, world
<1>2. StoreStep BY <1>1, StoreStays
<1>3. LateOK' BY DEF IInv, LateOK, TxOK, CallOnly, world
<1>4. dispatch' = dispatch /\ progress' = progress BY <1>1 DEF ledger
<1>5. UNCHANGED <<now, world, ab, dl>> BY DEF CallOnly
<1> QED BY <1>2, <1>3, <1>4, <1>5, CallMoves

\* A call with nothing on the wire may go to any state without a record, and
\* with a PREPARED record to any state on the way to its start.
LEMMA PlainOK ==
    ASSUME IInv, NEW c \in Call, call[c].pc # "idle", ~Placed(call[c]),
           NEW s \in CallState, s.cmd \in Command, s.code = "none",
           s.pc \in FreePcs \/ (s.pc \in PreparedPcs /\ Prepared(s.rec)),
           NEW D, NEW P
    PROVE  NextOK(c, s, D, P)
<1>1. wire[c] = "none" BY DEF IInv, CallsOK, Wired
<1>2. Local(s) BY DEF Local, FreePcs, PreparedPcs
<1>3. Truthful(s, D, queue, P)
    BY DEF Truthful, CallTxOK, Agrees, FreePcs, PreparedPcs, Dispositions
<1>4. s.pc # "enqueue" BY DEF FreePcs, PreparedPcs
<1> QED BY <1>1, <1>2, <1>3, <1>4 DEF NextOK

\* What is known of a call that has begun and not ended.
LEMMA UnderWay ==
    ASSUME IInv, NEW c \in Call, call[c].pc \notin {"idle", "done"}
    PROVE  call[c] \in CallState /\ Cmd(c) \in Command /\ call[c].code = "none"
BY DEF IInv, Typed, CallsOK, Local, Cmd, Idle

\* An answer that is no disposition is always possible, one that is when the
\* record says so.
LEMMA AnswerOK ==
    ASSUME IInv, NEW c \in Call, call[c].pc # "idle", Cmd(c) \in Command,
           NEW code \in CallCodes, NEW D, NEW P,
           code \in Dispositions => D[Cmd(c)].state = code
    PROVE  NextOK(c, Answered(c, code), D, P)
<1> DEFINE s == Answered(c, code)
<1>1. s \in CallState BY NothingTyped DEF Answered, CallState, Idle, CallPcs
<1>2. s.pc = "done" /\ s.cmd = Cmd(c) /\ s.code = code BY DEF Answered, Idle
<1> HIDE DEF s
<1>3. Local(s) BY <1>2 DEF Local
<1>4. Truthful(s, D, queue, P) BY <1>2 DEF Truthful, CallTxOK, Agrees
<1>5. NextOK(c, s, D, P) BY <1>1, <1>2, <1>3, <1>4 DEF NextOK, Placed
<1> QED BY <1>5 DEF s

\* A call that goes on as it is.
LEMMA ToOK ==
    ASSUME IInv, NEW c \in Call, call[c].pc \notin {"idle", "done"}, ~Placed(call[c]),
           NEW pc, pc \in FreePcs \/ (pc \in PreparedPcs /\ Prepared(call[c].rec)),
           NEW D, NEW P
    PROVE  NextOK(c, To(c, pc), D, P)
<1> DEFINE s == To(c, pc)
<1>1. call[c] \in CallState /\ Cmd(c) \in Command /\ call[c].code = "none" BY UnderWay
<1>2. pc \in CallPcs BY DEF FreePcs, PreparedPcs, CallPcs
<1>3. s \in CallState BY <1>1, <1>2 DEF To, CallState
<1>4. s.pc = pc /\ s.cmd = Cmd(c) /\ s.code = "none" /\ s.rec = call[c].rec
    BY <1>1 DEF To, CallState, Cmd
<1> HIDE DEF s
<1>5. NextOK(c, s, D, P) BY <1>1, <1>3, <1>4, PlainOK
<1> QED BY <1>5 DEF s

\* The same with another command or another PREPARED record.
LEMMA ToCommandOK ==
    ASSUME IInv, NEW c \in Call, call[c].pc \notin {"idle", "done"}, ~Placed(call[c]),
           NEW m \in Command, NEW D, NEW P
    PROVE  NextOK(c, [To(c, "readopt") EXCEPT !.cmd = m], D, P)
<1> DEFINE s == [To(c, "readopt") EXCEPT !.cmd = m]
<1>1. call[c] \in CallState /\ call[c].code = "none" BY UnderWay
<1>2. s \in CallState BY <1>1 DEF To, CallState, CallPcs
<1>3. s.pc = "readopt" /\ s.cmd = m /\ s.code = "none" BY <1>1 DEF To, CallState
<1> HIDE DEF s
<1>4. NextOK(c, s, D, P) BY <1>2, <1>3, PlainOK DEF FreePcs
<1> QED BY <1>4 DEF s

LEMMA ToRecordOK ==
    ASSUME IInv, NEW c \in Call, call[c].pc \notin {"idle", "done"}, ~Placed(call[c]),
           NEW pc \in PreparedPcs, NEW r \in DispatchType, Prepared(r), NEW D, NEW P
    PROVE  NextOK(c, [To(c, pc) EXCEPT !.rec = r], D, P)
<1> DEFINE s == [To(c, pc) EXCEPT !.rec = r]
<1>1. call[c] \in CallState /\ Cmd(c) \in Command /\ call[c].code = "none" BY UnderWay
<1>2. pc \in CallPcs BY DEF PreparedPcs, CallPcs
<1>3. s \in CallState BY <1>1, <1>2 DEF To, CallState
<1>4. s.pc = pc /\ s.cmd = Cmd(c) /\ s.code = "none" /\ s.rec = r
    BY <1>1 DEF To, CallState, Cmd
<1> HIDE DEF s
<1>5. NextOK(c, s, D, P) BY <1>1, <1>3, <1>4, PlainOK
<1> QED BY <1>5 DEF s

-----------------------------------------------------------------------------
\* Transactions.

\* A record that is written over one without a disposition.
LEMMA RecordWritten ==
    ASSUME IInv, UNCHANGED <<authority, intent, progress, released>>,
           UNCHANGED <<receipt, service, effect, dl>>, queue' = queue,
           NEW m \in Command, intent = m, NEW r \in DispatchType, Regular(r),
           Created(r) => m \in queue, Started(dispatch[m]) => Started(r),
           dispatch[m].state \notin Dispositions,
           dispatch' = [dispatch EXCEPT ![m] = r]
    PROVE  StoreStep
<1>1. dispatch \in [Command -> DispatchType] BY DEF IInv, Typed
<1>2. dispatch'[m] = r /\ \A n \in Command : n # m => dispatch'[n] = dispatch[n] BY <1>1
<1>3. dispatch' \in [Command -> DispatchType] BY <1>1
<1>4. progress = NoAbandon
    BY DEF IInv, FenceOK, Progressed, Dispositions
<1>5. RecordsOK'
    <2> SUFFICES ASSUME NEW n \in Command
                 PROVE  /\ dispatch'[n] = NoDispatch \/ (intent' = n /\ Regular(dispatch'[n]))
                        /\ Created(dispatch'[n]) => n \in queue'
                        /\ n \in queue' => Started(dispatch'[n])
        BY DEF RecordsOK
    <2>1. /\ dispatch[n] = NoDispatch \/ (intent = n /\ Regular(dispatch[n]))
          /\ Created(dispatch[n]) => n \in queue
          /\ n \in queue => Started(dispatch[n])
        BY DEF IInv, RecordsOK
    <2> QED BY <1>2, <2>1
<1>6. Grows
    <2> SUFFICES ASSUME NEW n \in Command
                 PROVE  /\ Started(dispatch[n]) => Started(dispatch'[n])
                        /\ dispatch[n].state \in Dispositions =>
                               dispatch'[n].state = dispatch[n].state
        BY DEF Grows
    <2> QED BY <1>2
<1>7. FenceOK' /\ ReleaseSawStable'
    BY <1>4 DEF IInv, FenceOK, ReleaseSawStable, Progressed
<1> QED BY <1>3, <1>4, <1>5, <1>6, <1>7 DEF IInv, Typed, StoreStep

\* The intent is reserved only while there is none, hence no record.
LEMMA IntentWritten ==
    ASSUME IInv, UNCHANGED <<receipt, service, effect, dl>>, queue' = queue,
           NEW o \in CallTx, IntentMatches(o), WriteIntent(o)
    PROVE  StoreStep
<1>1. intent = NoCommand /\ intent' = o.cmd /\ o.cmd \in Command
      /\ UNCHANGED <<authority, dispatch, progress, released>>
    BY DEF IntentMatches, WriteIntent, CallTx
<1>2. \A m \in Command : dispatch[m] = NoDispatch
    BY <1>1, RecoveryConstants DEF IInv, RecordsOK
<1>3. progress = NoAbandon
    BY <1>1, RecoveryConstants, AbandonIsNot DEF IInv, FenceOK, Progressed
<1>4. RecordsOK' BY <1>1, <1>2 DEF IInv, RecordsOK
<1>5. FenceOK' /\ ReleaseSawStable'
    BY <1>1, <1>3 DEF IInv, FenceOK, ReleaseSawStable, Progressed
<1> QED BY <1>1, <1>3, <1>4, <1>5 DEF IInv, Typed, StoreStep, Grows

\* A record is prepared where there is none.
LEMMA PrepareWritten ==
    ASSUME IInv, UNCHANGED <<receipt, service, effect, dl>>, queue' = queue,
           NEW o \in CallTx, CallTxOK(o.op, o.cmd, o.rec, queue),
           PrepareMatches(o), WriteRecord(o)
    PROVE  StoreStep
<1>1. /\ o.op = "prepare" /\ o.cmd \in Command /\ o.rec \in DispatchType
      /\ intent = o.cmd /\ dispatch[o.cmd] = NoDispatch
    BY DEF PrepareMatches, CallTx
<1>2. dispatch' = [dispatch EXCEPT ![o.cmd] = o.rec]
    BY <1>1 DEF WriteRecord
<1>3. Prepared(o.rec) BY <1>1 DEF CallTxOK
<1>4. Regular(o.rec) /\ ~Created(o.rec) BY <1>3 DEF Regular, Prepared, Created
<1>5. ~Started(dispatch[o.cmd]) /\ dispatch[o.cmd].state \notin Dispositions
    BY <1>1 DEF Started, NoDispatch, Dispositions
<1>6. UNCHANGED <<authority, intent, progress, released>> BY DEF WriteRecord
<1> QED BY <1>1, <1>2, <1>4, <1>5, <1>6, RecordWritten

\* The intent names the command of any record.
LEMMA RecordOwned ==
    ASSUME IInv, NEW m \in Command, dispatch[m].state # "ABSENT"
    PROVE  intent = m /\ Regular(dispatch[m])
BY DEF IInv, RecordsOK, NoDispatch

\* A PREPARED record is started.
LEMMA BeginWritten ==
    ASSUME IInv, UNCHANGED <<receipt, service, effect, dl>>, queue' = queue,
           NEW o \in CallTx, CallTxOK(o.op, o.cmd, o.rec, queue),
           BeginMatches(o), WriteRecord(o)
    PROVE  /\ StoreStep /\ Started(dispatch'[o.cmd]) /\ intent = o.cmd
           /\ ~Started(dispatch[o.cmd])
<1> DEFINE r == [o.rec EXCEPT !.state = "ENQUEUE_STARTED", !.rev = 1]
<1>1. /\ o.op = "begin" /\ o.cmd \in Command /\ o.rec \in DispatchType
      /\ dispatch[o.cmd] = o.rec
    BY DEF BeginMatches, CallTx
<1>2. Prepared(o.rec) BY <1>1 DEF CallTxOK
<1>3. intent = o.cmd BY <1>1, <1>2, RecordOwned DEF Prepared
<1>4. dispatch' = [dispatch EXCEPT ![o.cmd] = r] BY <1>1 DEF WriteRecord
<1>5. r \in DispatchType BY <1>1 DEF DispatchType
<1>6. r.state = "ENQUEUE_STARTED" /\ r.rev = 1 BY <1>1 DEF DispatchType
<1> HIDE DEF r
<1>7. Regular(r) /\ ~Created(r) /\ Started(r) BY <1>6 DEF Regular, Created, Started
<1>8. dispatch[o.cmd].state \notin Dispositions /\ ~Started(dispatch[o.cmd])
    BY <1>1, <1>2 DEF Prepared, Dispositions, Started
<1>9. UNCHANGED <<authority, intent, progress, released>> BY DEF WriteRecord
<1>10. StoreStep BY <1>1, <1>3, <1>4, <1>5, <1>7, <1>8, <1>9, RecordWritten
<1>11. dispatch'[o.cmd] = r BY <1>1, <1>4 DEF IInv, Typed
<1> QED BY <1>3, <1>7, <1>8, <1>10, <1>11

\* A started record is finished.
LEMMA FinishWritten ==
    ASSUME IInv, UNCHANGED <<receipt, service, effect, dl>>, queue' = queue,
           NEW o \in CallTx, CallTxOK(o.op, o.cmd, o.rec, queue),
           FinishMatches(o), WriteRecord(o)
    PROVE  StoreStep /\ dispatch'[o.cmd] = o.rec
<1>1. /\ o.op = "finish" /\ o.cmd \in Command /\ o.rec \in DispatchType
      /\ dispatch[o.cmd] = [o.rec EXCEPT !.state = "ENQUEUE_STARTED", !.rev = 1]
    BY DEF FinishMatches, CallTx
<1>2. Finished(o.rec) /\ (Created(o.rec) => o.cmd \in queue) BY <1>1 DEF CallTxOK
<1>3. dispatch[o.cmd].state = "ENQUEUE_STARTED" BY <1>1 DEF DispatchType
<1>4. intent = o.cmd BY <1>1, <1>3, RecordOwned
<1>5. dispatch' = [dispatch EXCEPT ![o.cmd] = o.rec] BY <1>1 DEF WriteRecord
<1>6. Regular(o.rec) /\ Started(o.rec) BY <1>1, <1>2 DEF Finished, Regular, Started
<1>7. dispatch[o.cmd].state \notin Dispositions BY <1>3 DEF Dispositions
<1>8. UNCHANGED <<authority, intent, progress, released>> BY DEF WriteRecord
<1>9. StoreStep BY <1>1, <1>2, <1>4, <1>5, <1>6, <1>7, <1>8, RecordWritten
<1>10. dispatch'[o.cmd] = o.rec BY <1>1, <1>5 DEF IInv, Typed
<1> QED BY <1>9, <1>10

\* A fence that the store takes is of the intent, the record and the epoch that
\* are there, and finds no receipt.
LEMMA FenceIsOf ==
    ASSUME NEW o \in AbandonTx, FenceMatches(o), WriteFence(o)
    PROVE  /\ progress = NoAbandon /\ intent = o.cmd.of
           /\ dispatch[o.cmd.of] = o.cmd.rec /\ receipt = NoReceipt
           /\ EpochAbandonable(o.cmd)
           /\ authority' = [epoch |-> o.cmd.epoch + 1, claim |-> "RELEASING"]
           /\ dispatch' = [dispatch EXCEPT ![o.cmd.of] = Ambiguous(o.cmd.rec)]
           /\ progress' = o.cmd /\ intent' = intent /\ released' = released
<1> DEFINE m == o.cmd
           s == o.rec
           d == FenceCommit(m, s)
<1>1. /\ FencePristine(s) /\ DispatchEnds(m, s, d) /\ progress = NoAbandon
      /\ Snapshot(m) = s
    BY DEF FenceMatches, FenceValid, Progressed
<1>2. /\ s.intent = m.of /\ s.rec = m.rec /\ s.authority.epoch = m.epoch
      /\ EpochAbandonable(m) /\ s.receipt = NoReceipt
    BY <1>1 DEF DispatchEnds, FencePristine
<1>3. s.intent = intent /\ s.rec = RecoveryRead.rec /\ s.receipt = RecoveryRead.receipt
    BY <1>1 DEF Snapshot
<1>4. m.of \in Command /\ m.of # NoCommand
    BY RecoveryConstants DEF AbandonTx, AbandonType
<1>5. dispatch[m.of] = m.rec /\ receipt = NoReceipt
    BY <1>2, <1>3, <1>4 DEF RecoveryRead
<1>6. /\ authority' = d.fence.left /\ dispatch' = [dispatch EXCEPT ![m.of] = d.subject.left]
      /\ progress' = d.progress /\ intent' = intent /\ released' = released
    BY DEF WriteFence
<1>7. /\ d.fence.left = [epoch |-> m.epoch + 1, claim |-> "RELEASING"]
      /\ d.subject.left = Ambiguous(m.rec) /\ d.progress = m
    BY <1>2 DEF FenceCommit, FenceSubject, AbandonmentSubject, FencedAuthority
<1> QED BY <1>1, <1>2, <1>3, <1>5, <1>6, <1>7

\* A release that the store takes changes the status of the claim.
LEMMA ReleaseIsOf ==
    ASSUME NEW o, ReleaseMatches(o), WriteRelease(o)
    PROVE  /\ authority' = [authority EXCEPT !.claim = "RELEASED"] /\ released' = TRUE
           /\ UNCHANGED <<intent, dispatch, progress>>
<1>1. o.rec.authority = authority BY DEF ReleaseMatches, Snapshot
<1> QED BY <1>1 DEF WriteRelease, ReleaseCommit

\* The fence: there is no receipt, hence nobody is past the claim.
LEMMA FenceWritten ==
    ASSUME IInv, UNCHANGED <<receipt, service, effect, dl>>, queue' = queue,
           NEW o \in AbandonTx, AbTxOK(o.op, o.cmd, service),
           FenceMatches(o), WriteFence(o)
    PROVE  StoreStep
<1> DEFINE m == o.cmd.of
           r == Ambiguous(o.cmd.rec)
<1>1. o.cmd \in AbandonType /\ m \in Command /\ o.cmd # NoAbandon
    BY AbandonIsNot DEF AbandonTx
<1>2. o.cmd.epoch \in Nat /\ o.cmd.rec \in DispatchType BY <1>1 DEF AbandonType
<1>3. /\ progress = NoAbandon /\ intent = m /\ dispatch[m] = o.cmd.rec
      /\ receipt = NoReceipt /\ EpochAbandonable(o.cmd)
    BY FenceIsOf
<1>4. /\ authority' = [epoch |-> o.cmd.epoch + 1, claim |-> "RELEASING"]
      /\ dispatch' = [dispatch EXCEPT ![m] = r]
      /\ progress' = o.cmd /\ intent' = intent /\ released' = released
    BY FenceIsOf
<1>5. o.cmd.rec.rev \in Nat /\ o.cmd.rec.rev + 1 \in Nat /\ o.cmd.epoch + 1 \in Nat
    BY <1>2 DEF DispatchType
<1>6. r \in DispatchType BY <1>2, <1>5 DEF Ambiguous, DispatchType, Dispositions
<1>7. r.state = "AMBIGUOUS" /\ r.rev = o.cmd.rec.rev + 1
    BY <1>2 DEF Ambiguous, DispatchType
<1>8. authority' \in AuthorityType /\ authority'.claim = "RELEASING"
      /\ authority'.epoch = o.cmd.epoch + 1
    BY <1>4, <1>5 DEF AuthorityType
<1> HIDE DEF r, m
<1>9. Regular(r) /\ ~Created(r) BY <1>5, <1>7 DEF Regular, Created, Dispositions
<1>10. dispatch \in [Command -> DispatchType] BY DEF IInv, Typed
<1>11. /\ dispatch' \in [Command -> DispatchType] /\ dispatch'[m] = r
       /\ \A n \in Command : n # m => dispatch'[n] = dispatch[n]
    BY <1>1, <1>4, <1>6, <1>10
<1>12. Started(dispatch[m]) => Started(r)
    <2>1. dispatch[m] = NoDispatch \/ Regular(dispatch[m]) BY <1>1 DEF IInv, RecordsOK
    <2>2. Started(dispatch[m]) => dispatch[m].rev >= 1
        BY <2>1, <1>3, <1>5 DEF Regular, Started, Prepared, NoDispatch, Dispositions
    <2> QED BY <1>3, <1>5, <1>7, <2>2 DEF Started
<1>13. RecordsOK'
    <2> SUFFICES ASSUME NEW n \in Command
                 PROVE  /\ dispatch'[n] = NoDispatch \/ (intent' = n /\ Regular(dispatch'[n]))
                        /\ Created(dispatch'[n]) => n \in queue'
                        /\ n \in queue' => Started(dispatch'[n])
        BY DEF RecordsOK
    <2>1. /\ dispatch[n] = NoDispatch \/ (intent = n /\ Regular(dispatch[n]))
          /\ Created(dispatch[n]) => n \in queue
          /\ n \in queue => Started(dispatch[n])
        BY DEF IInv, RecordsOK
    <2> QED BY <1>3, <1>4, <1>9, <1>11, <1>12, <2>1
<1>14. Grows
    <2> SUFFICES ASSUME NEW n \in Command
                 PROVE  /\ Started(dispatch[n]) => Started(dispatch'[n])
                        /\ dispatch[n].state \in Dispositions =>
                               \/ dispatch'[n].state = dispatch[n].state
                               \/ progress' # NoAbandon /\ dispatch'[n].state = "AMBIGUOUS"
        BY DEF Grows
    <2> QED BY <1>1, <1>4, <1>7, <1>11, <1>12
<1>15. receipt.outcome = "ABSENT" BY <1>3 DEF NoReceipt
<1>16. effect = {} /\ \A d \in Delivery : dl[d].pc # "decide"
    BY <1>15 DEF IInv, GateOK, Gated
<1>17. FenceOK'
    <2>1. \A d \in Delivery : Fenced(dl[d])' BY <1>16 DEF Fenced
    <2> QED BY <1>1, <1>3, <1>4, <1>7, <1>8, <1>11, <1>16, <2>1
            DEF FenceOK, m, EpochAbandonable
<1>18. ReleaseSawStable'
    BY <1>4, <1>15 DEF IInv, ReleaseSawStable
<1> QED BY <1>1, <1>3, <1>4, <1>8, <1>11, <1>13, <1>14, <1>17, <1>18
        DEF IInv, Typed, StoreStep

\* The release keeps all of it.
LEMMA ReleaseWritten ==
    ASSUME IInv, UNCHANGED <<receipt, service, effect, dl>>, queue' = queue,
           NEW o \in AbandonTx, AbTxOK(o.op, o.cmd, service),
           ReleaseMatches(o), WriteRelease(o)
    PROVE  StoreStep
<1>1. /\ authority' = [authority EXCEPT !.claim = "RELEASED"] /\ released' = TRUE
      /\ UNCHANGED <<intent, dispatch, progress>> /\ service = "STABLE"
    BY ReleaseIsOf DEF ReleaseMatches, AbTxOK
<1>2. authority \in AuthorityType BY DEF IInv, Typed
<1>3. authority' \in AuthorityType /\ authority'.epoch = authority.epoch
      /\ authority'.claim = "RELEASED"
    BY <1>1, <1>2 DEF AuthorityType
<1>4. RecordsOK' BY <1>1 DEF IInv, RecordsOK
<1>5. FenceOK'
    <2>1. Progressed' = Progressed BY <1>1 DEF Progressed
    <2>2. \A d \in Delivery : Fenced(dl[d])' = Fenced(dl[d]) BY <1>1 DEF Fenced
    <2> QED BY <1>1, <1>3, <2>1, <2>2 DEF IInv, FenceOK
<1>6. ReleaseSawStable'
    BY <1>1 DEF IInv, ReleaseSawStable, Progressed
<1> QED BY <1>1, <1>3, <1>4, <1>5, <1>6 DEF IInv, Typed, StoreStep, Grows

\* Every transaction, under way or late, is a step of the store.
LEMMA CommitIsStep ==
    ASSUME IInv, UNCHANGED <<receipt, service, effect, dl>>, queue' = queue,
           NEW o, TxOK(o), Commit(o)
    PROVE  StoreStep
<1>1. CASE o \in CallTx /\ CallTxOK(o.op, o.cmd, o.rec, queue)
    <2>1. o.op \in Ops BY <1>1 DEF CallTx
    <2>2. \/ IntentMatches(o) /\ WriteIntent(o)
          \/ PrepareMatches(o) /\ WriteRecord(o)
          \/ BeginMatches(o) /\ WriteRecord(o)
          \/ FinishMatches(o) /\ WriteRecord(o)
        BY <2>1 DEF Commit, Matches, Ops, IntentMatches, PrepareMatches, BeginMatches,
                    FinishMatches, FenceMatches, ReleaseMatches, WriteIntent, WriteRecord,
                    WriteFence, WriteRelease
    <2> QED BY <1>1, <2>2, IntentWritten, PrepareWritten, BeginWritten, FinishWritten
<1>2. CASE o \in AbandonTx /\ AbTxOK(o.op, o.cmd, service)
    <2>1. o.op \in AbOps BY <1>2 DEF AbandonTx
    <2>2. \/ FenceMatches(o) /\ WriteFence(o)
          \/ ReleaseMatches(o) /\ WriteRelease(o)
        BY <2>1 DEF Commit, Matches, AbOps, IntentMatches, PrepareMatches, BeginMatches,
                    FinishMatches, FenceMatches, ReleaseMatches, WriteIntent, WriteRecord,
                    WriteFence, WriteRelease
    <2> QED BY <1>2, <2>2, FenceWritten, ReleaseWritten
<1> QED BY <1>1, <1>2 DEF TxOK

\* So is one whose answer is lost.
LEMMA LostIsStep ==
    ASSUME IInv, UNCHANGED <<receipt, service, effect, dl>>, queue' = queue,
           NEW o, TxOK(o), Lost(o)
    PROVE  StoreStep /\ LateOK'
<1>1. late' = late \/ late' = late \cup {o} BY DEF Lost
<1>2. LateOK' BY <1>1 DEF IInv, LateOK, TxOK
<1>3. Commit(o) \/ UNCHANGED ledger BY DEF Lost
<1> QED BY <1>2, <1>3, CommitIsStep, StoreStays

-----------------------------------------------------------------------------
\* The actions of calls.

LEMMA FaultTyped == ASSUME IInv, Fault \/ NoFault PROVE faults' \in Nat
BY DEF IInv, Typed, Fault, NoFault

\* A denial is always possible.
LEMMA DenialOK ==
    ASSUME IInv, NEW c \in Call, call[c].pc \notin {"idle", "done"},
           NEW code \in CallCodes \ Dispositions, NEW D, NEW P
    PROVE  NextOK(c, Answered(c, code), D, P)
BY UnderWay, AnswerOK

LEMMA Begins == ASSUME IInv, NEW c \in Call, NEW m \in Command, Begin(c, m) PROVE IInv'
<1> DEFINE s == [Idle EXCEPT !.cmd = m,
                             !.pc = IF m.source = "REVOKED" THEN "intent" ELSE "trusted"]
<1>1. Go(c, s) /\ CallOnly /\ call[c] = Idle BY DEF Begin
<1>2. s \in CallState BY NothingTyped DEF Idle, CallState, CallPcs
<1>3. s.pc \in {"intent", "trusted"} /\ s.cmd = m /\ s.code = "none" BY DEF Idle
<1>4. wire[c] = "none" BY <1>1 DEF IInv, CallsOK, Wired, Placed, Idle
<1> HIDE DEF s
<1>5. Local(s) /\ Truthful(s, dispatch, queue, progress)
    BY <1>3 DEF Local, Truthful, CallTxOK, Agrees, Dispositions
<1>6. NextOK(c, s, dispatch, progress) BY <1>2, <1>3, <1>4, <1>5 DEF NextOK
<1>7. faults' \in Nat BY FaultTyped DEF Begin
<1> QED BY <1>1, <1>6, <1>7, CallThinks

\* The reads of the evaluation.
LEMMA Evaluates ==
    ASSUME IInv, NEW c \in Call, ReadTrusted(c) \/ ReadChain(c) \/ Refresh(c)
    PROVE  IInv'
<1> DEFINE N(s) == NextOK(c, s, dispatch, progress)
<1>1. /\ call[c].pc \in {"trusted", "chain", "refresh", "readopt"}
      /\ CallOnly /\ faults' \in Nat
    BY FaultTyped DEF ReadTrusted, ReadChain, Refresh
<1>2. call[c].pc \notin {"idle", "done"} /\ ~Placed(call[c]) BY <1>1 DEF Placed
<1>3. call[c] \in CallState /\ Cmd(c) \in Command /\ call[c].code = "none" BY <1>2, UnderWay
<1>4. N(Answered(c, "AUTHORITY_STALE"))
    BY <1>2, DenialOK DEF CallCodes, Dispositions
<1>5. N(To(c, "refresh")) /\ N(To(c, "append")) /\ N(To(c, "intent"))
    BY <1>2, ToOK DEF FreePcs
<1>6. CASE ReadTrusted(c)
    <2> DEFINE s == [To(c, "chain") EXCEPT !.seen = authority]
    <2>1. authority \in AuthorityType BY DEF IInv, Typed
    <2>2. s \in CallState BY <1>3, <2>1 DEF To, CallState, CallPcs
    <2>3. s.pc = "chain" /\ s.cmd = Cmd(c) /\ s.code = "none"
        BY <1>3 DEF To, CallState, Cmd
    <2>4. Go(c, s) \/ Go(c, Answered(c, "AUTHORITY_STALE")) BY <1>6, Zenon DEF ReadTrusted
    <2> HIDE DEF s
    <2>5. N(s) BY <1>2, <1>3, <2>2, <2>3, PlainOK DEF FreePcs
    <2> QED BY <1>1, <1>4, <2>4, <2>5, CallThinks
<1>7. CASE ReadChain(c)
    <2> DEFINE s == [To(c, "readopt") EXCEPT !.cmd = intent]
    <2>1. Go(c, To(c, "refresh")) \/ (ChainEnded /\ Go(c, s)) BY <1>7, Zenon DEF ReadChain
    <2>2. ChainEnded => N(s)
        BY <1>2, ToCommandOK DEF ChainEnded, IInv, Typed
    <2> HIDE DEF s
    <2> QED BY <1>1, <1>5, <2>1, <2>2, CallThinks
<1>8. CASE Refresh(c)
    <2>1. \/ Go(c, Answered(c, "AUTHORITY_STALE"))
          \/ Go(c, To(c, "append")) \/ Go(c, To(c, "intent"))
        BY <1>8 DEF Refresh
    <2> QED BY <1>1, <1>4, <1>5, <2>1, CallThinks
<1> QED BY <1>6, <1>7, <1>8

\* A record that was read is answered or continued.
LEMMA AdoptedOK ==
    ASSUME IInv, NEW c \in Call, call[c].pc \notin {"idle", "done"}, NEW P
    PROVE  NextOK(c, Answered(c, Adopted(dispatch[Cmd(c)])), dispatch, P)
<1> DEFINE code == Adopted(dispatch[Cmd(c)])
<1>1. Cmd(c) \in Command BY UnderWay
<1>2. code \in CallCodes /\ (code \in Dispositions => dispatch[Cmd(c)].state = code)
    BY DEF Adopted, CallCodes, Dispositions
<1> HIDE DEF code
<1>3. NextOK(c, Answered(c, code), dispatch, P) BY <1>1, <1>2, AnswerOK
<1> QED BY <1>3 DEF code

\* The coordinator up to the start.
LEMMA Reads ==
    ASSUME IInv, NEW c \in Call, ReadIntent(c) \/ ReadDispatch(c)
    PROVE  IInv'
<1> DEFINE N(s) == NextOK(c, s, dispatch, progress)
<1>1. call[c].pc \in {"intent", "read"} /\ CallOnly /\ faults' \in Nat
    BY FaultTyped DEF ReadIntent, ReadDispatch
<1>2. call[c].pc \notin {"idle", "done"} /\ ~Placed(call[c]) BY <1>1 DEF Placed
<1>3. call[c] \in CallState /\ Cmd(c) \in Command BY <1>2, UnderWay
<1>4. N(Answered(c, "IDENTITY_CONFLICT")) /\ N(Answered(c, "TRUSTED_STATE_INVALID"))
    BY <1>2, DenialOK DEF CallCodes, Dispositions
<1>5. N(To(c, "read")) /\ N(To(c, "reserve")) /\ N(To(c, "resolve"))
    BY <1>2, ToOK DEF FreePcs
<1>6. CASE ReadIntent(c)
    <2>1. \/ Go(c, To(c, "read")) \/ Go(c, To(c, "reserve"))
          \/ Go(c, Answered(c, "IDENTITY_CONFLICT"))
          \/ Go(c, Answered(c, "TRUSTED_STATE_INVALID"))
        BY <1>6 DEF ReadIntent
    <2> QED BY <1>1, <1>4, <1>5, <2>1, CallThinks
<1>7. CASE ReadDispatch(c)
    <2> DEFINE r == dispatch[Cmd(c)]
               s == [To(c, "seal") EXCEPT !.rec = r]
    <2>1. \/ Go(c, To(c, "resolve")) \/ (r.state = "PREPARED" /\ Go(c, s))
          \/ Go(c, Answered(c, Adopted(r)))
        BY <1>7, Zenon DEF ReadDispatch
    <2>2. r \in DispatchType BY <1>3 DEF IInv, Typed
    <2>3. r.state = "PREPARED" => Prepared(r)
        BY <1>3, RecordOwned DEF Regular, Prepared, Dispositions
    <2>4. r.state = "PREPARED" => N(s)
        BY <1>2, <2>2, <2>3, ToRecordOK DEF PreparedPcs
    <2>5. N(Answered(c, Adopted(r))) BY <1>2, AdoptedOK
    <2> HIDE DEF r, s
    <2> QED BY <1>1, <1>5, <2>1, <2>4, <2>5, CallThinks
<1> QED BY <1>6, <1>7

LEMMA Resolves ==
    ASSUME IInv, NEW c \in Call, Resolve(c) \/ Attest(c) \/ Confirm(c) \/ Seal(c)
    PROVE  IInv'
<1> DEFINE N(s) == NextOK(c, s, dispatch, progress)
<1>1. /\ call[c].pc \in {"resolve", "attest", "confirm", "issue", "seal"}
      /\ CallOnly /\ faults' \in Nat
    BY FaultTyped DEF Resolve, Attest, Confirm, Seal
<1>2. call[c].pc \notin {"idle", "done"} /\ ~Placed(call[c]) BY <1>1 DEF Placed
<1>3. /\ N(Answered(c, "ATTESTATION_INVALID")) /\ N(Answered(c, "TRUSTED_STATE_INVALID"))
      /\ N(Answered(c, "ISSUANCE_DENIED"))
    BY <1>2, DenialOK DEF CallCodes, Dispositions
<1>4. call[c].pc # "resolve" => Prepared(call[c].rec)
    BY <1>1 DEF IInv, CallsOK, Local
<1>5. call[c].pc # "resolve" =>
          N(To(c, "confirm")) /\ N(To(c, "issue")) /\ N(To(c, "prepare")) /\ N(To(c, "begin"))
    BY <1>2, <1>4, ToOK DEF PreparedPcs
<1>6. CASE Resolve(c)
    <2> DEFINE r == [state |-> "PREPARED", rev |-> 0, expires |-> now + Lifetime]
               s == [To(c, "attest") EXCEPT !.rec = r]
    <2>1. Go(c, s) \/ Go(c, Answered(c, "TRUSTED_STATE_INVALID")) BY <1>6, Zenon DEF Resolve
    <2>2. now + Lifetime \in Nat BY RecoveryConstants DEF IInv, Typed
    <2>3. r \in DispatchType /\ Prepared(r) BY <2>2 DEF DispatchType, Prepared
    <2> HIDE DEF r
    <2>4. N(s) BY <1>2, <2>3, ToRecordOK DEF PreparedPcs
    <2> HIDE DEF s
    <2> QED BY <1>1, <1>3, <2>1, <2>4, CallThinks
<1>7. CASE Attest(c)
    <2>1. /\ call[c].pc # "resolve"
          /\ Go(c, To(c, "confirm")) \/ Go(c, Answered(c, "ATTESTATION_INVALID"))
        BY <1>7 DEF Attest
    <2> QED BY <1>1, <1>3, <1>5, <2>1, CallThinks
<1>8. CASE Confirm(c)
    <2>1. /\ call[c].pc # "resolve"
          /\ \/ Go(c, To(c, "issue")) \/ Go(c, To(c, "prepare"))
             \/ Go(c, Answered(c, "ISSUANCE_DENIED"))
             \/ Go(c, Answered(c, "TRUSTED_STATE_INVALID"))
        BY <1>8 DEF Confirm
    <2> QED BY <1>1, <1>3, <1>5, <2>1, CallThinks
<1>9. CASE Seal(c)
    <2>1. /\ call[c].pc # "resolve"
          /\ Go(c, To(c, "begin")) \/ Go(c, Answered(c, "TRUSTED_STATE_INVALID"))
        BY <1>9 DEF Seal
    <2> QED BY <1>1, <1>3, <1>5, <2>1, CallThinks
<1> QED BY <1>6, <1>7, <1>8, <1>9

LEMMA Fails == ASSUME IInv, NEW c \in Call, Unavailable(c) PROVE IInv'
<1>1. call[c].pc \notin {"idle", "done"} /\ CallOnly /\ Go(c, Answered(c, "UNAVAILABLE"))
    BY DEF Unavailable
<1>2. NextOK(c, Answered(c, "UNAVAILABLE"), dispatch, progress)
    BY <1>1, DenialOK DEF CallCodes, Dispositions
<1>3. faults' \in Nat BY FaultTyped DEF Unavailable
<1> QED BY <1>1, <1>2, <1>3, CallThinks

-----------------------------------------------------------------------------
\* The queue.

\* A step of the wire and the queue: only call c and its request move.
LEMMA WireMoves ==
    ASSUME IInv, NEW c \in Call, NEW s \in CallState, NEW w \in {"sent", "created", "exists"},
           call' = [call EXCEPT ![c] = s], wire' = [wire EXCEPT ![c] = w],
           queue \subseteq queue', queue' \subseteq Command,
           \A m \in queue' : Started(dispatch[m]),
           Local(s), Truthful(s, dispatch, queue', progress), Holds(c),
           s.pc # "idle", s.cmd = Cmd(c), Placed(s), Started(dispatch[s.cmd]),
           w # "sent" => s.cmd \in queue',
           UNCHANGED <<now, ledger, receipt, service, effect, ab, dl, late>>, faults' \in Nat
    PROVE  IInv'
<1>1. /\ call \in [Call -> CallState]
      /\ wire \in [Call -> {"none", "sent", "created", "exists"}]
    BY DEF IInv, Typed
<1>2. /\ call'[c] = s /\ wire'[c] = w
      /\ \A d \in Call : d # c => call'[d] = call[d] /\ wire'[d] = wire[d]
    BY <1>1
<1>3. UNCHANGED <<authority, intent, dispatch, progress, released>> BY DEF ledger
<1>4. Typed'
    <2>1. call' \in [Call -> CallState] BY <1>1
    <2>2. wire' \in [Call -> {"none", "sent", "created", "exists"}] BY <1>1
    <2> QED BY <1>3, <2>1, <2>2 DEF IInv, Typed
<1>5. RecordsOK' BY <1>3 DEF IInv, RecordsOK
<1>6. LateOK' BY DEF IInv, LateOK, TxOK, CallTxOK
<1>7. CallsOK'
    <2> SUFFICES ASSUME NEW d \in Call
                 PROVE  Local(call'[d]) /\ Truthful(call'[d], dispatch', queue', progress')
                        /\ Wired(d)'
        BY DEF CallsOK
    <2>1. CASE d = c
        <3>1. Wired(c)' BY <1>2, <1>3 DEF Wired, Cmd
        <3> QED BY <1>2, <1>3, <2>1, <3>1
    <2>2. CASE d # c
        <3>1. Local(call[d]) /\ Truthful(call[d], dispatch, queue, progress) /\ Wired(d)
            BY DEF IInv, CallsOK
        <3>2. Truthful(call[d], dispatch, queue', progress)
            BY <3>1 DEF Truthful, CallTxOK
        <3>3. Wired(d)' BY <1>2, <1>3, <2>2, <3>1 DEF Wired, Cmd
        <3> QED BY <1>2, <1>3, <2>2, <3>1, <3>2, <3>3
    <2> QED BY <2>1, <2>2
<1>8. OneHolder'
    <2>1. \A d \in Call : Holds(d)' => Holds(d) BY <1>2 DEF Holds
    <2> QED BY <2>1 DEF IInv, OneHolder
<1>9. AbsOK' BY DEF IInv, AbsOK, AbLocal
<1>10. GateOK' BY DEF IInv, GateOK, Gated
<1>11. FenceOK' BY <1>3 DEF IInv, FenceOK, Progressed, Fenced
<1>12. ReleaseSawStable'
    BY <1>3 DEF IInv, ReleaseSawStable, Progressed
<1> QED BY <1>4, <1>5, <1>6, <1>7, <1>8, <1>9, <1>10, <1>11, <1>12 DEF IInv

LEMMA Enqueues == ASSUME IInv, NEW c \in Call, Enqueue(c) PROVE IInv'
<1> DEFINE s == To(c, "await")
<1>1. call[c].pc = "enqueue" BY DEF Enqueue
<1>2. call[c] \in CallState /\ Cmd(c) \in Command /\ call[c].code = "none" BY <1>1, UnderWay
<1>3. s \in CallState BY <1>2 DEF To, CallState, CallPcs
<1>4. s.pc = "await" /\ s.cmd = Cmd(c) /\ s.code = "none" BY <1>2 DEF To, CallState, Cmd
<1>5. Started(dispatch[Cmd(c)]) BY <1>1 DEF IInv, CallsOK, Truthful, Cmd
<1>6. call' = [call EXCEPT ![c] = s] /\ wire' = [wire EXCEPT ![c] = "sent"]
    BY DEF Enqueue, Go
<1>7. UNCHANGED <<now, ledger, queue, receipt, service, effect, ab, dl, late>>
      /\ faults' \in Nat
    BY FaultTyped DEF Enqueue
<1> HIDE DEF s
<1>8. Local(s) /\ Truthful(s, dispatch, queue', progress) /\ Placed(s)
    BY <1>2, <1>4 DEF Local, Truthful, CallTxOK, Agrees, Placed, Dispositions
<1>9. Holds(c) BY <1>1 DEF Holds
<1>10. queue' \subseteq Command /\ \A m \in queue' : Started(dispatch[m])
    BY <1>7 DEF IInv, Typed, RecordsOK
<1> QED BY <1>3, <1>4, <1>5, <1>6, <1>7, <1>8, <1>9, <1>10, WireMoves

\* A call whose request is on the wire.
LEMMA OnTheWire ==
    ASSUME IInv, NEW c \in Call, wire[c] # "none"
    PROVE  /\ call[c] \in CallState /\ Cmd(c) \in Command /\ call[c].pc # "idle"
           /\ Placed(call[c]) /\ Started(dispatch[Cmd(c)]) /\ Local(call[c])
           /\ Truthful(call[c], dispatch, queue, progress) /\ Holds(c)
           /\ wire[c] # "sent" => Cmd(c) \in queue
<1>1. /\ Wired(c) /\ Local(call[c]) /\ Truthful(call[c], dispatch, queue, progress)
      /\ call[c] \in CallState
    BY DEF IInv, CallsOK, Typed
<1>2. Placed(call[c]) BY <1>1 DEF Wired
<1>3. call[c].pc # "idle" BY <1>2 DEF Placed
<1>4. Cmd(c) \in Command BY <1>1, <1>3 DEF Local, Idle, Cmd
<1> QED BY <1>1, <1>2, <1>3, <1>4 DEF Wired, Holds

LEMMA Creates ==
    ASSUME IInv, NEW c \in Call, CreateTask(c) \/ CreateTaskTwice(c)
    PROVE  IInv'
<1>1. wire[c] # "none" BY DEF CreateTask, CreateTaskTwice
<1>2. /\ call[c] \in CallState /\ Cmd(c) \in Command /\ call[c].pc # "idle"
      /\ Placed(call[c]) /\ Started(dispatch[Cmd(c)]) /\ Local(call[c])
      /\ Truthful(call[c], dispatch, queue, progress) /\ Holds(c)
      /\ wire[c] # "sent" => Cmd(c) \in queue
    BY <1>1, OnTheWire
<1>3. /\ UNCHANGED <<now, ledger, receipt, service, effect, ab, dl, late>> /\ call' = call
      /\ faults' \in Nat
    BY FaultTyped DEF CreateTask, CreateTaskTwice, procs
<1>4. queue' = queue \cup {Cmd(c)}
    BY <1>2 DEF CreateTask, CreateTaskTwice
<1>5. PICK w \in {"created", "exists"} : wire' = [wire EXCEPT ![c] = w]
    BY DEF CreateTask, CreateTaskTwice
<1>6. call' = [call EXCEPT ![c] = call[c]] BY <1>3 DEF IInv, Typed
<1>7. queue' \subseteq Command /\ \A m \in queue' : Started(dispatch[m])
    BY <1>2, <1>4 DEF IInv, Typed, RecordsOK
<1>8. Truthful(call[c], dispatch, queue', progress)
    BY <1>2, <1>4 DEF Truthful, CallTxOK
<1>9. call[c].cmd = Cmd(c) BY DEF Cmd
<1> QED BY <1>2, <1>3, <1>4, <1>5, <1>6, <1>7, <1>8, <1>9, WireMoves

\* The record with which a call goes on to finish.
LEMMA FinishingOK ==
    ASSUME IInv, NEW c \in Call, call[c].pc = "await", NEW code \in Dispositions,
           code # "AMBIGUOUS" => wire[c] \in {"created", "exists"}
    PROVE  NextOK(c, Finishing(c, code), dispatch, progress)
<1> DEFINE s == Finishing(c, code)
<1>1. call[c] \in CallState /\ Cmd(c) \in Command /\ call[c].code = "none" BY UnderWay
<1>2. s \in CallState
    BY <1>1 DEF Finishing, To, CallState, CallPcs, DispatchType
<1>3. /\ s.pc = "finish" /\ s.cmd = Cmd(c) /\ s.code = "none"
      /\ s.rec.state = code /\ s.rec.rev = 2
    BY <1>1 DEF Finishing, To, CallState, Cmd, DispatchType
<1> HIDE DEF s
<1>4. Created(s.rec) => Cmd(c) \in queue
    BY <1>3, OnTheWire DEF Created
<1>5. Local(s) /\ Truthful(s, dispatch, queue, progress)
    BY <1>1, <1>3, <1>4 DEF Local, Truthful, CallTxOK, Agrees, Finished, Dispositions
<1>6. NextOK(c, s, dispatch, progress) BY <1>2, <1>3, <1>5 DEF NextOK, Placed
<1> QED BY <1>6 DEF s

LEMMA EnqueueAnswers == ASSUME IInv, NEW c \in Call, EnqueueReturns(c) PROVE IInv'
<1>1. call[c].pc = "await" /\ CallOnly /\ faults' \in Nat BY FaultTyped DEF EnqueueReturns
<1>2. PICK code \in Dispositions :
          /\ Go(c, Finishing(c, code))
          /\ code # "AMBIGUOUS" => wire[c] \in {"created", "exists"}
    BY DEF EnqueueReturns, Dispositions
<1>3. NextOK(c, Finishing(c, code), dispatch, progress) BY <1>1, <1>2, FinishingOK
<1> QED BY <1>1, <1>2, <1>3, CallThinks

-----------------------------------------------------------------------------
\* The transactions of calls.

\* What a call is committing, as a transaction.
LEMMA CallTxTyped ==
    ASSUME IInv, NEW c \in Call, call[c].pc \in Ops
    PROVE  /\ Tx(c) \in CallTx /\ TxOK(Tx(c))
           /\ CallTxOK(Tx(c).op, Tx(c).cmd, Tx(c).rec, queue)
           /\ Tx(c).op = call[c].pc /\ Tx(c).cmd = Cmd(c) /\ Tx(c).rec = call[c].rec
           /\ call[c].pc \notin {"idle", "done"}
<1>1. call[c].pc \notin {"idle", "done"} BY DEF Ops
<1>2. call[c] \in CallState /\ Cmd(c) \in Command BY <1>1, UnderWay
<1>3. Tx(c).op = call[c].pc /\ Tx(c).cmd = Cmd(c) /\ Tx(c).rec = call[c].rec BY DEF Tx
<1>4. Tx(c) \in CallTx BY <1>2 DEF Tx, CallTx, CallState
<1>5. CallTxOK(call[c].pc, call[c].cmd, call[c].rec, queue) BY DEF IInv, CallsOK, Truthful
<1>6. CallTxOK(Tx(c).op, Tx(c).cmd, Tx(c).rec, queue) BY <1>3, <1>5 DEF Cmd
<1> QED BY <1>1, <1>3, <1>4, <1>6 DEF TxOK

\* What a call may do with what it finds.
LEMMA FoundOK ==
    ASSUME IInv, NEW c \in Call, NEW op \in Ops,
           call[c].pc = op \/ (call[c].pc = "readback" /\ call[c].op = op),
           NEW s \in Found(c, op)
    PROVE  NextOK(c, s, dispatch, progress)
<1> DEFINE N(t) == NextOK(c, t, dispatch, progress)
<1>1. call[c].pc \notin {"idle", "done"} BY DEF Ops
<1>2. /\ N(Answered(c, "STORE_UNAVAILABLE")) /\ N(Answered(c, "OUTCOME_UNKNOWN"))
      /\ N(Answered(c, "IDENTITY_CONFLICT"))
    BY <1>1, DenialOK DEF CallCodes, Dispositions
<1>3. op # "finish" => ~Placed(call[c]) BY DEF Placed, Ops
<1>4. op # "finish" => N(To(c, "intent")) /\ N(To(c, "read")) BY <1>1, <1>3, ToOK DEF FreePcs
<1>5. CASE op = "append"
    <2> DEFINE t == [To(c, "readopt") EXCEPT !.cmd = intent]
    <2>1. \/ s = To(c, "intent") \/ (ChainEnded /\ s = t)
          \/ s = Answered(c, "STORE_UNAVAILABLE")
        BY <1>5, Zenon DEF Found
    <2>2. ChainEnded => N(t)
        BY <1>1, <1>3, <1>5, ToCommandOK DEF ChainEnded, IInv, Typed
    <2> HIDE DEF t
    <2> QED BY <1>2, <1>4, <1>5, <2>1, <2>2
<1>6. CASE op = "reserve"
    <2>1. \/ s = To(c, "read") \/ s = Answered(c, "OUTCOME_UNKNOWN")
          \/ s = Answered(c, "IDENTITY_CONFLICT")
        BY <1>6 DEF Found
    <2> QED BY <1>2, <1>4, <1>6, <2>1
<1>7. CASE op = "prepare"
    <2>1. \/ s = To(c, "seal") \/ s = Answered(c, "OUTCOME_UNKNOWN")
          \/ s = Answered(c, "IDENTITY_CONFLICT")
        BY <1>7 DEF Found
    <2>2. Prepared(call[c].rec) BY <1>7 DEF IInv, CallsOK, Local, Truthful, CallTxOK
    <2>3. N(To(c, "seal")) BY <1>1, <1>3, <1>7, <2>2, ToOK DEF PreparedPcs
    <2> QED BY <1>2, <2>1, <2>3
<1>8. CASE op \in {"begin", "finish"}
    <2>1. s = Answered(c, Adopted(dispatch[Cmd(c)])) BY <1>8 DEF Found
    <2> QED BY <1>1, <2>1, AdoptedOK
<1> QED BY <1>5, <1>6, <1>7, <1>8 DEF Ops

LEMMA Finds == ASSUME IInv, NEW c \in Call, CommitRefused(c) \/ ReadBack(c) PROVE IInv'
<1>1. CallOnly /\ faults' \in Nat BY FaultTyped DEF CommitRefused, ReadBack
<1>2. CASE CommitRefused(c)
    <2>1. call[c].pc \in Ops BY <1>2 DEF CommitRefused
    <2>2. PICK s \in Found(c, call[c].pc) : Go(c, s) BY <1>2 DEF CommitRefused
    <2> QED BY <1>1, <2>1, <2>2, FoundOK, CallThinks
<1>3. CASE ReadBack(c)
    <2>1. call[c].pc = "readback" BY <1>3 DEF ReadBack
    <2>2. PICK s \in Found(c, call[c].op) : Go(c, s) BY <1>3 DEF ReadBack
    <2>3. call[c].op \in Ops BY <2>1 DEF IInv, CallsOK, Local
    <2> QED BY <1>1, <2>1, <2>2, <2>3, FoundOK, CallThinks
<1> QED BY <1>2, <1>3

\* A call that starts a record is the only one that may call CreateTask.
LEMMA StartsAlone ==
    ASSUME IInv, NEW c \in Call, NEW m \in Command, intent = m, ~Started(dispatch[m])
    PROVE  \A d \in Call : ~Holds(d)
<1> SUFFICES ASSUME NEW d \in Call, Holds(d) PROVE FALSE OBVIOUS
<1>1. Cmd(d) \in Command /\ Started(dispatch[Cmd(d)])
    BY UnderWay, OnTheWire DEF Holds, IInv, CallsOK, Truthful, Cmd
<1>2. dispatch[Cmd(d)] \in DispatchType BY <1>1 DEF IInv, Typed
<1>3. dispatch[Cmd(d)] # NoDispatch BY <1>1 DEF Started, NoDispatch
<1>4. intent = Cmd(d) BY <1>1, <1>3 DEF IInv, RecordsOK
<1> QED BY <1>1, <1>4

LEMMA Commits == ASSUME IInv, NEW c \in Call, CommitConfirmed(c) PROVE IInv'
<1> DEFINE N(s) == NextOK(c, s, dispatch', progress')
           o == Tx(c)
<1>1. call[c].pc \in Ops /\ Commit(o) /\ Go(c, Committed(c)) BY DEF CommitConfirmed
<1>2. UNCHANGED <<now, world, ab, dl, late>> /\ faults' \in Nat
    BY FaultTyped DEF CommitConfirmed
<1>3. UNCHANGED <<receipt, service, effect, dl>> /\ queue' = queue /\ wire' = wire
    BY <1>2 DEF world
<1>4. /\ o \in CallTx /\ TxOK(o) /\ CallTxOK(o.op, o.cmd, o.rec, queue)
      /\ o.op = call[c].pc /\ o.cmd = Cmd(c) /\ o.rec = call[c].rec
      /\ call[c].pc \notin {"idle", "done"}
    BY <1>1, CallTxTyped
<1>5. call[c] \in CallState /\ Cmd(c) \in Command /\ call[c].code = "none" BY <1>4, UnderWay
<1> HIDE DEF o
<1>6. StoreStep BY <1>1, <1>3, <1>4, CommitIsStep
<1>7. LateOK' BY <1>2, <1>3 DEF IInv, LateOK, TxOK
<1>8. call[c].pc # "finish" => ~Placed(call[c]) BY <1>1 DEF Placed, Ops
<1>9. N(Committed(c))
    <2>1. CASE call[c].pc = "append"
        <3>1. Committed(c) = To(c, "intent") BY <2>1 DEF Committed
        <3>2. N(To(c, "intent")) BY <1>4, <1>8, <2>1, ToOK DEF FreePcs
        <3> QED BY <3>1, <3>2
    <2>2. CASE call[c].pc = "reserve"
        <3>1. Committed(c) = To(c, "read") BY <2>2 DEF Committed
        <3>2. N(To(c, "read")) BY <1>4, <1>8, <2>2, ToOK DEF FreePcs
        <3> QED BY <3>1, <3>2
    <2>3. CASE call[c].pc = "prepare"
        <3>1. Committed(c) = To(c, "seal") BY <2>3 DEF Committed
        <3>2. Prepared(call[c].rec) BY <1>4, <2>3 DEF CallTxOK
        <3>3. N(To(c, "seal")) BY <1>4, <1>8, <2>3, <3>2, ToOK DEF PreparedPcs
        <3> QED BY <3>1, <3>3
    <2>4. CASE call[c].pc = "begin"
        <3> DEFINE s == [To(c, "enqueue") EXCEPT
                           !.rec = [@ EXCEPT !.state = "ENQUEUE_STARTED", !.rev = 1]]
        <3>1. Committed(c) = s BY <2>4 DEF Committed
        <3>2. s \in CallState BY <1>5 DEF To, CallState, CallPcs, DispatchType
        <3>3. s.pc = "enqueue" /\ s.cmd = Cmd(c) /\ s.code = "none"
            BY <1>5 DEF To, CallState, Cmd
        <3> HIDE DEF s
        <3>4. BeginMatches(o) /\ WriteRecord(o)
            BY <1>1, <1>4, <2>4 DEF Commit, Matches, IntentMatches, PrepareMatches,
                   FinishMatches, FenceMatches, ReleaseMatches, WriteIntent, WriteFence,
                   WriteRelease
        <3>5. Started(dispatch'[Cmd(c)]) /\ intent = Cmd(c) /\ ~Started(dispatch[Cmd(c)])
            BY <1>3, <1>4, <3>4, BeginWritten
        <3>6. \A d \in Call : ~Holds(d) BY <1>5, <3>5, StartsAlone
        <3>7. Local(s) /\ Truthful(s, dispatch', queue, progress')
            BY <1>5, <3>3, <3>5 DEF Local, Truthful, CallTxOK, Agrees, Dispositions
        <3>8. wire[c] = "none" BY <3>6 DEF Holds
        <3>9. N(s) BY <3>2, <3>6, <3>7, <3>8 DEF NextOK
        <3> QED BY <3>1, <3>9
    <2>5. CASE call[c].pc = "finish"
        <3>1. Committed(c) = Answered(c, call[c].rec.state) BY <2>5 DEF Committed
        <3>2. FinishMatches(o) /\ WriteRecord(o)
            BY <1>1, <1>4, <2>5 DEF Commit, Matches, IntentMatches, PrepareMatches,
                   BeginMatches, FenceMatches, ReleaseMatches, WriteIntent, WriteFence,
                   WriteRelease
        <3>3. dispatch'[Cmd(c)] = call[c].rec BY <1>3, <1>4, <3>2, FinishWritten
        <3>4. call[c].rec.state \in Dispositions BY <1>4, <2>5 DEF CallTxOK, Finished
        <3>5. N(Answered(c, call[c].rec.state))
            BY <1>4, <1>5, <3>3, <3>4, AnswerOK DEF CallCodes
        <3> QED BY <3>1, <3>5
    <2> QED BY <1>1, <2>1, <2>2, <2>3, <2>4, <2>5 DEF Ops
<1> QED BY <1>1, <1>2, <1>6, <1>7, <1>9, CallMoves

\* A call whose answer is lost, or that dies.
LEMMA Loses == ASSUME IInv, NEW c \in Call, CommitLost(c) \/ Crash(c) PROVE IInv'
<1> DEFINE N(s) == NextOK(c, s, dispatch', progress')
<1>1. UNCHANGED <<now, world, ab, dl>> /\ faults' \in Nat
    BY FaultTyped DEF CommitLost, Crash
<1>2. UNCHANGED <<receipt, service, effect, dl>> /\ queue' = queue BY <1>1 DEF world
<1>3. call[c].pc \in Ops /\ Lost(Tx(c)) => StoreStep /\ LateOK'
    BY <1>2, CallTxTyped, LostIsStep
<1>4. UNCHANGED <<ledger, late>> => StoreStep /\ LateOK'
    BY <1>2, StoreStays DEF IInv, LateOK, TxOK
<1>5. CASE CommitLost(c)
    <2> DEFINE s == [To(c, "readback") EXCEPT !.op = call[c].pc]
    <2>1. call[c].pc \in Ops /\ Lost(Tx(c)) /\ Go(c, s) BY <1>5 DEF CommitLost
    <2>2. call[c].pc \notin {"idle", "done"} BY <2>1 DEF Ops
    <2>3. call[c] \in CallState /\ Cmd(c) \in Command /\ call[c].code = "none"
        BY <2>2, UnderWay
    <2>4. s \in CallState BY <2>1, <2>3 DEF To, CallState, CallPcs
    <2>5. /\ s.pc = "readback" /\ s.cmd = Cmd(c) /\ s.code = "none"
          /\ s.op = call[c].pc /\ s.rec = call[c].rec
        BY <2>3 DEF To, CallState, Cmd
    <2> HIDE DEF s
    <2>6. s.op = "prepare" => Prepared(s.rec)
        BY <2>5 DEF IInv, CallsOK, Truthful, CallTxOK
    <2>7. Local(s) /\ Truthful(s, dispatch', queue, progress')
        BY <2>1, <2>3, <2>5, <2>6 DEF Local, Truthful, CallTxOK, Agrees, Dispositions
    <2>8. wire[c] # "none" => Placed(s)
        BY <2>1, <2>5, OnTheWire DEF Placed, Ops
    <2>9. N(s) BY <2>4, <2>5, <2>7, <2>8 DEF NextOK
    <2> QED BY <1>1, <1>3, <2>1, <2>9, CallMoves
<1>6. CASE Crash(c)
    <2>1. call[c].pc \notin {"idle", "done"} /\ Go(c, Answered(c, "CRASHED"))
        BY <1>6 DEF Crash
    <2>2. StoreStep /\ LateOK' BY <1>3, <1>4, <1>6 DEF Crash
    <2>3. N(Answered(c, "CRASHED")) BY <2>1, DenialOK DEF CallCodes, Dispositions
    <2> QED BY <1>1, <2>1, <2>2, <2>3, CallMoves
<1> QED BY <1>5, <1>6

-----------------------------------------------------------------------------
\* Abandonments, late transactions and the operator's other doors.

\* Records move on and no call does.
LEMMA StoreMoves ==
    ASSUME IInv, StoreStep, LateOK', UNCHANGED <<world, call, dl>>,
           now' \in Nat, faults' \in Nat, ab' \in [Abandon -> AbState], AbsOK'
    PROVE  IInv'
<1>1. UNCHANGED <<wire, queue, receipt, service, effect>> BY DEF world
<1>2. Typed' BY <1>1 DEF IInv, Typed, StoreStep
<1>3. CallsOK'
    <2> SUFFICES ASSUME NEW d \in Call
                 PROVE  Local(call'[d]) /\ Truthful(call'[d], dispatch', queue', progress')
                        /\ Wired(d)'
        BY DEF CallsOK
    <2> QED BY <1>1, StaysTrue DEF StoreStep
<1>4. OneHolder' BY <1>1 DEF IInv, OneHolder, Holds
<1>5. GateOK' BY <1>1 DEF IInv, GateOK, Gated
<1> QED BY <1>2, <1>3, <1>4, <1>5 DEF IInv, StoreStep

LEMMA AbMoves ==
    ASSUME IInv, StoreStep, LateOK', UNCHANGED <<now, world, call, dl>>, faults' \in Nat,
           NEW a \in Abandon, NEW s \in AbState, AbLocal(s), AbGo(a, s)
    PROVE  IInv'
<1>1. ab \in [Abandon -> AbState] BY DEF IInv, Typed
<1>2. ab' = [ab EXCEPT ![a] = s] BY DEF AbGo
<1>3. ab' \in [Abandon -> AbState] BY <1>1, <1>2
<1>4. AbsOK'
    <2> SUFFICES ASSUME NEW b \in Abandon PROVE AbLocal(ab[b])' BY DEF AbsOK
    <2>1. ab'[b] = s \/ ab'[b] = ab[b] BY <1>1, <1>2
    <2>2. AbLocal(ab[b]) BY DEF IInv, AbsOK
    <2>3. service' = service BY DEF world
    <2> QED BY <2>1, <2>2, <2>3 DEF AbLocal
<1>5. now' \in Nat BY DEF IInv, Typed
<1> QED BY <1>3, <1>4, <1>5, StoreMoves

LEMMA AbThinks ==
    ASSUME IInv, AbOnly, faults' \in Nat,
           NEW a \in Abandon, NEW s \in AbState, AbLocal(s), AbGo(a, s)
    PROVE  IInv'
<1>1. UNCHANGED <<ledger, receipt, service, effect, dl>> /\ queue' = queue
    BY DEF AbOnly, world
<1>2. StoreStep BY <1>1, StoreStays
<1>3. LateOK' BY DEF IInv, LateOK, TxOK, AbOnly, world
<1>4. UNCHANGED <<now, world, call, dl>> BY DEF AbOnly
<1> QED BY <1>2, <1>3, <1>4, AbMoves

LEMMA AbAnswerOK ==
    ASSUME NEW code \in AbCodes
    PROVE  AbAnswered(code) \in AbState /\ AbLocal(AbAnswered(code))
<1>1. AbAnswered(code) \in AbState BY NothingTyped DEF AbAnswered, AbIdle, AbState, AbPcs
<1>2. AbAnswered(code).pc = "done" BY DEF AbAnswered, AbIdle
<1> QED BY <1>1, <1>2 DEF AbLocal

LEMMA AbToOK ==
    ASSUME IInv, NEW a \in Abandon, ab[a].pc \notin {"idle", "done"},
           NEW pc \in {"read", "fence", "classify", "release", "readback"},
           AbTxOK(pc, ab[a].cmd, service)
    PROVE  AbTo(a, pc) \in AbState /\ AbLocal(AbTo(a, pc))
<1>1. ab[a] \in AbState /\ ab[a].cmd \in AbandonType BY DEF IInv, Typed, AbsOK, AbLocal
<1>2. AbTo(a, pc) \in AbState BY <1>1 DEF AbTo, AbState, AbPcs
<1>3. AbTo(a, pc).pc = pc /\ AbTo(a, pc).cmd = ab[a].cmd BY <1>1 DEF AbTo, AbState
<1> QED BY <1>1, <1>2, <1>3 DEF AbLocal

LEMMA AbBegins ==
    ASSUME IInv, NEW a \in Abandon, NEW m \in AbandonCommands, BeginAbandon(a, m)
    PROVE  IInv'
<1> DEFINE s == [AbIdle EXCEPT !.pc = "read", !.cmd = m, !.born = now]
<1>1. AbGo(a, s) /\ AbOnly /\ faults' \in Nat BY FaultTyped DEF BeginAbandon
<1>2. now \in Nat BY DEF IInv, Typed
<1>3. m \in AbandonType
    <2>1. CASE Progressed /\ m = progress BY <2>1 DEF IInv, Typed, Progressed
    <2>2. CASE /\ intent # NoCommand
               /\ m = [of |-> intent, epoch |-> authority.epoch, rec |-> dispatch[intent]]
        <3>1. intent \in Command /\ dispatch[intent] \in DispatchType /\ authority.epoch \in Nat
            BY <2>2 DEF IInv, Typed, AuthorityType
        <3> QED BY <2>2, <3>1 DEF AbandonType
    <2> QED BY <2>1, <2>2 DEF AbandonCommands
<1>4. s \in AbState BY <1>2, <1>3, NothingTyped DEF AbIdle, AbState, AbPcs
<1>5. s.pc = "read" /\ s.cmd = m BY DEF AbIdle
<1> HIDE DEF s
<1>6. AbLocal(s) BY <1>3, <1>5 DEF AbLocal, AbTxOK
<1> QED BY <1>1, <1>4, <1>6, AbThinks

\* What the read transaction returns.
LEMMA SnapshotTyped ==
    ASSUME IInv, NEW m PROVE Snapshot(m) \in SnapshotType
<1>1. /\ authority \in AuthorityType /\ intent \in Command \cup {NoCommand}
      /\ dispatch \in [Command -> DispatchType] /\ receipt \in ReceiptType
    BY DEF IInv, Typed
<1>2. RecoveryRead.rec \in DispatchType /\ RecoveryRead.receipt \in ReceiptType
    BY <1>1, NothingTyped DEF RecoveryRead
<1>3. StagesStored(m) \in SUBSET (FenceStages \cup ReleaseStages)
    BY DEF StagesStored, FenceStages, ReleaseStages
<1> QED BY <1>1, <1>2, <1>3 DEF Snapshot, SnapshotType

LEMMA AbReads == ASSUME IInv, NEW a \in Abandon, ReadAbandonment(a) PROVE IInv'
<1> DEFINE m == ab[a].cmd
           s == Snapshot(m)
           denial == StateDenial(m, s, ab[a].born)
           pc == IF HasProgress(s) THEN "classify" ELSE "fence"
           t == AbTo(a, pc)
           n == [t EXCEPT !.seen = s]
           ok(x) == x \in AbState /\ AbLocal(x)
<1>1. ab[a].pc = "read" /\ AbOnly /\ faults' \in Nat BY FaultTyped DEF ReadAbandonment
<1>2. denial \in AbCodes BY DEF StateDenial, FenceDenial, ReleaseDenial, AbCodes
<1>3. /\ ok(AbAnswered("OUTCOME_UNKNOWN")) /\ ok(AbAnswered("TRUSTED_STATE_INVALID"))
      /\ ok(AbAnswered("RELEASED")) /\ ok(AbAnswered(denial))
    BY <1>2, AbAnswerOK DEF AbCodes
<1>4. denial = "none" => ok(n)
    <2> SUFFICES ASSUME denial = "none" PROVE ok(n) OBVIOUS
    <2>1. pc = "fence" => EpochAbandonable(m) BY DEF StateDenial, FenceDenial
    <2>2. AbTxOK(pc, m, service) BY <2>1 DEF AbTxOK
    <2>3. ok(t) BY <1>1, <2>2, AbToOK
    <2>4. s \in SnapshotType BY SnapshotTyped
    <2> HIDE DEF t, s
    <2>5. n \in AbState /\ n.pc = t.pc /\ n.cmd = t.cmd BY <2>3, <2>4 DEF AbState
    <2> QED BY <2>3, <2>5 DEF AbLocal
<1>5. \/ AbGo(a, AbAnswered("OUTCOME_UNKNOWN")) \/ AbGo(a, AbAnswered("TRUSTED_STATE_INVALID"))
      \/ AbGo(a, AbAnswered("RELEASED")) \/ AbGo(a, AbAnswered(denial))
      \/ denial = "none" /\ AbGo(a, n)
    BY Zenon DEF ReadAbandonment
<1> HIDE DEF n, t, denial
<1> QED BY <1>1, <1>3, <1>4, <1>5, AbThinks

LEMMA AbThinking ==
    ASSUME IInv, NEW a \in Abandon,
           ClassifyTarget(a) \/ AbUnavailable(a) \/ AbRefused(a) \/ AbReadBack(a)
    PROVE  IInv'
<1>1. ab[a].pc \notin {"idle", "done"} /\ AbOnly /\ faults' \in Nat
    BY FaultTyped DEF ClassifyTarget, AbUnavailable, AbRefused, AbReadBack, AbOps
<1>2. CASE ClassifyTarget(a)
    <2>1. \/ service = "STABLE" /\ AbGo(a, AbTo(a, "release"))
          \/ AbGo(a, AbAnswered("CLASSIFICATION_DENIED"))
        BY <1>2 DEF ClassifyTarget, Accepts, ResultBound, Attestation, ClassificationRequest
    <2>2. AbAnswered("CLASSIFICATION_DENIED") \in AbState
          /\ AbLocal(AbAnswered("CLASSIFICATION_DENIED"))
        BY AbAnswerOK DEF AbCodes
    <2>3. service = "STABLE" => AbTo(a, "release") \in AbState /\ AbLocal(AbTo(a, "release"))
        BY <1>1, AbToOK DEF AbTxOK
    <2> QED BY <1>1, <2>1, <2>2, <2>3, AbThinks
<1>3. CASE AbUnavailable(a)
    <2>1. AbGo(a, AbAnswered("UNAVAILABLE")) BY <1>3 DEF AbUnavailable
    <2> QED BY <1>1, <2>1, AbAnswerOK, AbThinks DEF AbCodes
<1>4. CASE AbRefused(a)
    <2> DEFINE t == AbTo(a, "read")
               s == [t EXCEPT !.tries = @ + 1, !.seen = NoSnapshot]
    <2>1. AbGo(a, s) BY <1>4 DEF AbRefused
    <2>2. t \in AbState /\ AbLocal(t) BY <1>1, AbToOK DEF AbTxOK
    <2> HIDE DEF t
    <2>3. t.tries + 1 \in Nat BY <2>2 DEF AbState
    <2>4. s \in AbState /\ s.pc = t.pc /\ s.cmd = t.cmd
        BY <2>2, <2>3, NothingTyped DEF AbState
    <2> HIDE DEF s
    <2>5. AbLocal(s) BY <2>2, <2>4 DEF AbLocal
    <2> QED BY <1>1, <2>1, <2>4, <2>5, AbThinks
<1>5. CASE AbReadBack(a)
    <2>1. PICK code \in AbCodes : AbGo(a, AbAnswered(code))
        BY <1>5 DEF AbReadBack, Resolved, AbCodes
    <2> QED BY <1>1, <2>1, AbAnswerOK, AbThinks
<1> QED BY <1>2, <1>3, <1>4, <1>5

\* What an abandonment is committing, as a transaction.
LEMMA AbTxTyped ==
    ASSUME IInv, NEW a \in Abandon, ab[a].pc \in AbOps
    PROVE  TxOK(AbTx(a))
<1>1. ab[a].pc \notin {"idle", "done"} BY DEF AbOps
<1>2. /\ ab[a] \in AbState /\ ab[a].cmd \in AbandonType
      /\ AbTxOK(ab[a].pc, ab[a].cmd, service)
    BY <1>1 DEF IInv, Typed, AbsOK, AbLocal
<1>3. AbTx(a).op = ab[a].pc /\ AbTx(a).cmd = ab[a].cmd BY DEF AbTx
<1>4. AbTx(a) \in AbandonTx BY <1>2 DEF AbTx, AbandonTx, AbState
<1> QED BY <1>2, <1>3, <1>4 DEF TxOK

LEMMA AbCommits ==
    ASSUME IInv, NEW a \in Abandon, AbConfirmed(a) \/ AbLost(a) PROVE IInv'
<1> DEFINE o == AbTx(a)
<1>1. ab[a].pc \in AbOps /\ UNCHANGED <<now, world, call, dl>> /\ faults' \in Nat
    BY FaultTyped DEF AbConfirmed, AbLost
<1>2. ab[a].pc \notin {"idle", "done"} BY <1>1 DEF AbOps
<1>3. ab[a] \in AbState BY DEF IInv, Typed
<1>4. TxOK(o) BY <1>1, AbTxTyped
<1> HIDE DEF o
<1>5. UNCHANGED <<receipt, service, effect, dl>> /\ queue' = queue BY <1>1 DEF world
<1>6. CASE AbConfirmed(a)
    <2>1. Commit(o) /\ late' = late BY <1>6 DEF AbConfirmed, o
    <2>2. StoreStep BY <1>4, <1>5, <2>1, CommitIsStep
    <2>3. LateOK' BY <1>5, <2>1 DEF IInv, LateOK, TxOK
    <2>4. PICK code \in AbCodes : AbGo(a, AbAnswered(code))
        BY <1>6 DEF AbConfirmed, AbCodes
    <2> QED BY <1>1, <2>2, <2>3, <2>4, AbAnswerOK, AbMoves
<1>7. CASE AbLost(a)
    <2> DEFINE t == AbTo(a, "readback")
               s == [t EXCEPT !.op = ab[a].pc]
    <2>1. Lost(o) /\ AbGo(a, s) BY <1>7 DEF AbLost, o
    <2>2. StoreStep /\ LateOK' BY <1>4, <1>5, <2>1, LostIsStep
    <2>3. t \in AbState /\ AbLocal(t) BY <1>2, AbToOK DEF AbTxOK
    <2> HIDE DEF t
    <2>4. s \in AbState /\ s.pc = t.pc /\ s.cmd = t.cmd BY <1>1, <2>3 DEF AbState
    <2> HIDE DEF s
    <2>5. AbLocal(s) BY <2>3, <2>4 DEF AbLocal
    <2> QED BY <1>1, <2>1, <2>2, <2>4, <2>5, AbMoves
<1> QED BY <1>6, <1>7

\* Nobody's local state moves.
LEMMA Others ==
    ASSUME IInv, (\E o \in late : LandLate(o)) \/ Revoke \/ FenceClaim \/ Tick
    PROVE  IInv'
<1>1. UNCHANGED <<world, procs>> /\ faults' \in Nat
    BY FaultTyped DEF LandLate, Revoke, FenceClaim, Tick
<1>2. /\ UNCHANGED <<receipt, service, effect, dl>> /\ queue' = queue
      /\ UNCHANGED <<world, call, dl>> /\ ab' = ab
    BY <1>1 DEF world, procs
<1>3. now' \in Nat BY DEF LandLate, Revoke, FenceClaim, Tick, IInv, Typed
<1>4. ab' \in [Abandon -> AbState] /\ AbsOK'
    BY <1>2 DEF IInv, Typed, AbsOK, AbLocal
<1>5. late' \subseteq late BY DEF LandLate, Revoke, FenceClaim, Tick
<1>6. LateOK' BY <1>2, <1>5 DEF IInv, LateOK, TxOK
<1>7. StoreStep
    <2>1. CASE \E o \in late : LandLate(o)
        <3>1. PICK o \in late : LandLate(o) BY <2>1
        <3>2. TxOK(o) BY DEF IInv, LateOK
        <3>3. Commit(o) \/ UNCHANGED ledger BY <3>1 DEF LandLate
        <3> QED BY <1>2, <3>2, <3>3, CommitIsStep, StoreStays
    <2>2. CASE Tick BY <1>2, <2>2, StoreStays DEF Tick
    <2>3. CASE Revoke \/ FenceClaim
        <3>1. /\ UNCHANGED <<intent, dispatch, progress, released>>
              /\ authority.claim = "ACTIVE"
            BY <2>3 DEF Revoke, FenceClaim
        <3>2. authority \in AuthorityType BY DEF IInv, Typed
        <3>3. authority.epoch + 1 \in Nat BY <3>2 DEF AuthorityType
        <3>4. authority' \in AuthorityType
            BY <2>3, <3>2, <3>3 DEF Revoke, FenceClaim, AuthorityType
        <3>5. progress = NoAbandon BY <3>1 DEF IInv, FenceOK, Progressed
        <3>6. RecordsOK' BY <1>2, <3>1 DEF IInv, RecordsOK
        <3>7. FenceOK' /\ ReleaseSawStable'
            BY <1>2, <3>1, <3>5
               DEF IInv, FenceOK, ReleaseSawStable, Progressed
        <3> QED BY <3>1, <3>4, <3>6, <3>7 DEF IInv, Typed, StoreStep, Grows
    <2> QED BY <2>1, <2>2, <2>3
<1> QED BY <1>1, <1>2, <1>3, <1>4, <1>6, <1>7, StoreMoves

-----------------------------------------------------------------------------
\* Deliveries.

\* A receipt is never taken back.
ReceiptStep(r) == r \in ReceiptType /\ (receipt.outcome # "ABSENT" => r.outcome # "ABSENT")

\* A step of one delivery.
LEMMA DlMoves ==
    ASSUME IInv, NEW d \in Delivery, NEW s \in DlState, Gated(s, receipt'), Step(d, s),
           progress # NoAbandon => Fenced(s) /\ effect' = {},
           ReceiptStep(receipt'), service' \in {"CANARY", "STABLE"},
           service = "STABLE" => service' = "STABLE",
           effect' \subseteq Delivery, effect' # {} => receipt'.outcome # "ABSENT",
           UNCHANGED <<now, ledger, wire, queue, call, ab, late>>, faults' \in Nat
    PROVE  IInv'
<1>1. UNCHANGED <<authority, intent, dispatch, progress, released>> BY DEF ledger
<1>2. dl \in [Delivery -> DlState] /\ dl' = [dl EXCEPT ![d] = s] BY DEF IInv, Typed, Step
<1>3. \A e \in Delivery : dl'[e] = s \/ dl'[e] = dl[e] BY <1>2
<1>4. dl' \in [Delivery -> DlState] BY <1>2
<1>5. Typed' BY <1>1, <1>4 DEF IInv, Typed, ReceiptStep
<1>6. RecordsOK' BY <1>1 DEF IInv, RecordsOK
<1>7. CallsOK' BY <1>1 DEF IInv, CallsOK, Wired, Cmd
<1>8. OneHolder' BY DEF IInv, OneHolder, Holds
<1>9. LateOK' BY DEF IInv, LateOK, TxOK, AbTxOK
<1>10. AbsOK' BY DEF IInv, AbsOK, AbLocal, AbTxOK
<1>11. GateOK'
    <2>1. ASSUME NEW e \in Delivery PROVE Gated(dl[e], receipt)'
        <3>1. Gated(dl[e], receipt) BY DEF IInv, GateOK
        <3>2. Gated(dl[e], receipt') BY <3>1 DEF Gated, ReceiptStep
        <3> QED BY <1>3, <3>2 DEF Gated
    <2> QED BY <2>1 DEF GateOK
<1>12. FenceOK'
    <2> SUFFICES ASSUME progress # NoAbandon PROVE FenceOK'
        BY <1>1 DEF FenceOK, Progressed
    <2>1. \A e \in Delivery : Fenced(dl[e]) BY DEF IInv, FenceOK, Progressed
    <2>2. ASSUME NEW e \in Delivery PROVE Fenced(dl[e])' BY <1>1, <1>3, <2>1 DEF Fenced
    <2> QED BY <1>1, <2>2 DEF IInv, FenceOK, Progressed
<1>13. ReleaseSawStable' BY <1>1 DEF IInv, ReleaseSawStable
<1> QED BY <1>5, <1>6, <1>7, <1>8, <1>9, <1>10, <1>11, <1>12, <1>13 DEF IInv

LEMMA ReceiptStays == ASSUME IInv PROVE ReceiptStep(receipt)
BY DEF IInv, Typed, ReceiptStep

\* Record leaves such a receipt when its argument is one.
LEMMA Recorded ==
    ASSUME IInv, NEW r, ReceiptStep(r), Record(r)
    PROVE  ReceiptStep(receipt')
BY ReceiptStays DEF Record

\* A delivery under way has the recovery of the root, whose enqueue was started.
LEMMA DeliveryKnown ==
    ASSUME IInv, NEW d \in Delivery, dl[d].pc \notin {"waiting", "done"}
    PROVE  /\ dl[d] \in DlState /\ dl[d].cmd \in queue /\ dl[d].cmd \in Command
           /\ intent = dl[d].cmd
<1>1. dl[d] \in DlState /\ dl[d].cmd \in queue BY DEF IInv, Typed, GateOK, Gated
<1>2. dl[d].cmd \in Command /\ Started(dispatch[dl[d].cmd])
    BY <1>1 DEF IInv, Typed, RecordsOK
<1>3. dispatch[dl[d].cmd] # NoDispatch BY <1>2 DEF Started, NoDispatch
<1> QED BY <1>1, <1>2, <1>3 DEF IInv, RecordsOK

LEMMA EndedOK == ASSUME NEW r PROVE Ended \in DlState /\ Gated(Ended, r) /\ Fenced(Ended)
<1>1. Ended \in DlState BY NothingTyped DEF Ended, Waiting, DlState, DlPcs
<1>2. Ended.pc = "done" BY DEF Ended, Waiting
<1> QED BY <1>1, <1>2 DEF Gated, Fenced

\* A delivery that goes on past the claim.
LEMMA DlToOK ==
    ASSUME IInv, NEW d \in Delivery, dl[d].pc \notin {"waiting", "done"},
           NEW pc \in {"gate", "persist", "refused"}, NEW r, r.outcome # "ABSENT"
    PROVE  DlTo(d, pc) \in DlState /\ Gated(DlTo(d, pc), r) /\ Fenced(DlTo(d, pc))
<1>1. dl[d] \in DlState /\ dl[d].cmd \in queue BY DeliveryKnown
<1>2. DlTo(d, pc) \in DlState BY <1>1 DEF DlTo, DlState, DlPcs
<1>3. DlTo(d, pc).pc = pc /\ DlTo(d, pc).cmd = dl[d].cmd BY <1>1 DEF DlTo, DlState
<1> QED BY <1>1, <1>2, <1>3 DEF Gated, Fenced

\* After the fence the gate denies for the caller or for the epoch.
LEMMA FenceDenies ==
    ASSUME IInv, progress # NoAbandon, NEW d \in Delivery, dl[d].pc = "decide",
           NEW t, NEW until
    PROVE  /\ FinalDenial(dl[d].cmd, dl[d].seen, t, until) =
                  IF CallerDenied(t, until) THEN "CALLER_UNAUTHORIZED" ELSE "EPOCH_MISMATCH"
           /\ dl[d].seen.epoch = progress.epoch + 1
<1>1. dl[d].cmd \in Command /\ intent = dl[d].cmd BY DeliveryKnown
<1>2. /\ progress \in AbandonType /\ intent = progress.of /\ EpochAbandonable(progress)
      /\ dl[d].seen.epoch = progress.epoch + 1
    BY DEF IInv, FenceOK, Progressed, Fenced
<1>3. progress.epoch \in Nat BY <1>2 DEF AbandonType
<1>4. dl[d].cmd.epoch # dl[d].seen.epoch BY <1>1, <1>2, <1>3 DEF EpochAbandonable
<1> QED BY <1>2, <1>4 DEF FinalDenial

\* Deliveries that leave the receipt.
LEMMA DlReads ==
    ASSUME IInv, NEW d \in Delivery,
           \/ \E m \in queue : Deliver(d, m)
           \/ ReadAuthority(d) \/ Reject(d) \/ DlCrash(d)
    PROVE  IInv'
<1>1. /\ UNCHANGED <<now, ledger, world, call, ab, late>> /\ faults' \in Nat
    BY FaultTyped DEF Deliver, ReadAuthority, Reject, DlCrash
<1>2. UNCHANGED <<wire, queue, receipt, service, effect>> BY <1>1 DEF world
<1>3. /\ service' \in {"CANARY", "STABLE"} /\ effect' \subseteq Delivery
      /\ effect' # {} => receipt'.outcome # "ABSENT"
      /\ progress # NoAbandon => effect' = {}
      /\ ReceiptStep(receipt')
      /\ UNCHANGED <<now, ledger, wire, queue, call, ab, late>>
    BY <1>1, <1>2, ReceiptStays DEF IInv, Typed, GateOK, FenceOK, Progressed
<1>4. SUFFICES \E s \in DlState : /\ Gated(s, receipt) /\ Step(d, s)
                                  /\ progress # NoAbandon => Fenced(s)
    BY <1>1, <1>2, <1>3, DlMoves
<1>5. CASE \E m \in queue : Deliver(d, m)
    <2>1. PICK m \in queue : Deliver(d, m) BY <1>5
    <2>2. PICK pc \in {"adopt", "claim"}, t \in ExecutorNow :
              Step(d, [Waiting EXCEPT !.cmd = m, !.born = t, !.pc = pc])
        BY <2>1 DEF Deliver
    <2> DEFINE s == [Waiting EXCEPT !.cmd = m, !.born = t, !.pc = pc]
    <2>3. m \in Command /\ t \in Nat BY <2>1 DEF IInv, Typed, ExecutorNow
    <2>4. s \in DlState BY <2>3, NothingTyped DEF Waiting, DlState, DlPcs
    <2>5. s.pc = pc /\ s.cmd = m BY DEF Waiting
    <2>6. Step(d, s) BY <2>2
    <2> HIDE DEF s
    <2> QED BY <2>1, <2>4, <2>5, <2>6 DEF Gated, Fenced
<1>6. CASE ReadAuthority(d)
    <2> DEFINE s == [DlTo(d, "decide") EXCEPT !.seen = authority]
    <2>1. dl[d].pc = "gate" /\ Step(d, s) BY <1>6 DEF ReadAuthority
    <2>2. dl[d] \in DlState /\ dl[d].cmd \in queue BY <2>1, DeliveryKnown
    <2>3. authority \in AuthorityType BY DEF IInv, Typed
    <2>4. s \in DlState BY <2>2, <2>3 DEF DlTo, DlState, DlPcs
    <2>5. s.pc = "decide" /\ s.cmd = dl[d].cmd /\ s.seen = authority
        BY <2>2 DEF DlTo, DlState
    <2>6. receipt.outcome # "ABSENT" BY <2>1 DEF IInv, GateOK, Gated
    <2> HIDE DEF s
    <2>7. progress # NoAbandon => Fenced(s)
        BY <2>5 DEF IInv, FenceOK, Progressed, Fenced
    <2> QED BY <2>1, <2>2, <2>4, <2>5, <2>6, <2>7 DEF Gated
<1>7. CASE Reject(d)
    <2>1. dl[d].pc = "decide" /\ Step(d, DlTo(d, "refused")) BY <1>7 DEF Reject, Permitted
    <2>2. receipt.outcome # "ABSENT" BY <2>1 DEF IInv, GateOK, Gated
    <2> QED BY <2>1, <2>2, DlToOK
<1>8. CASE DlCrash(d)
    <2>1. Step(d, Ended) BY <1>8 DEF DlCrash
    <2> QED BY <2>1, EndedOK
<1> QED BY <1>5, <1>6, <1>7, <1>8

\* Deliveries that claim, adopt or settle the receipt.
LEMMA DlWrites ==
    ASSUME IInv, NEW d \in Delivery,
           \/ ClaimReceipt(d) \/ AdoptReceipt(d) \/ Deny(d) \/ GateUnavailable(d) \/ Persist(d)
    PROVE  IInv'
<1>1. /\ UNCHANGED <<now, ledger, wire, queue, service, effect, call, ab, late>>
      /\ faults' \in Nat
    BY FaultTyped DEF ClaimReceipt, AdoptReceipt, Deny, GateUnavailable, Persist
<1>2. SUFFICES ReceiptStep(receipt') /\ \E s \in DlState : /\ Gated(s, receipt') /\ Step(d, s)
                                                           /\ Fenced(s)
    <2>1. effect' # {} => receipt'.outcome # "ABSENT"
        BY <1>1, <1>2 DEF IInv, GateOK, ReceiptStep
    <2>2. progress # NoAbandon => effect' = {} BY <1>1 DEF IInv, FenceOK, Progressed
    <2>3. service' \in {"CANARY", "STABLE"} /\ effect' \subseteq Delivery
          /\ (service = "STABLE" => service' = "STABLE")
        BY <1>1 DEF IInv, Typed
    <2>4. UNCHANGED <<now, ledger, wire, queue, call, ab, late>> BY <1>1
    <2> QED BY <1>1, <1>2, <2>1, <2>2, <2>3, <2>4, DlMoves
<1>3. ASSUME NEW x \in Outcomes \ {"ABSENT", "DENIED"}
      PROVE  ReceiptStep([NoReceipt EXCEPT !.outcome = x])
    <2> DEFINE r == [NoReceipt EXCEPT !.outcome = x]
    <2>1. r \in ReceiptType /\ r.outcome = x BY NothingTyped DEF ReceiptType, NoReceipt
    <2> HIDE DEF r
    <2>2. ReceiptStep(r) BY <2>1 DEF ReceiptStep
    <2> QED BY <2>2 DEF r
<1>4. CASE ClaimReceipt(d)
    <2>1. /\ dl[d].pc = "claim" /\ receipt' = [NoReceipt EXCEPT !.outcome = "CLAIMED"]
          /\ Step(d, DlTo(d, "gate")) \/ Step(d, Ended)
        BY <1>4 DEF ClaimReceipt
    <2>2. ReceiptStep(receipt') BY <1>3, <2>1 DEF Outcomes
    <2>3. receipt'.outcome # "ABSENT" BY <2>1 DEF NoReceipt
    <2> QED BY <2>1, <2>2, <2>3, DlToOK, EndedOK
<1>5. CASE AdoptReceipt(d)
    <2>1. Step(d, Ended) BY <1>5 DEF AdoptReceipt
    <2>2. \/ receipt' = receipt \/ receipt' = [NoReceipt EXCEPT !.outcome = "VERIFIED"]
          \/ receipt' = [NoReceipt EXCEPT !.outcome = "AMBIGUOUS"]
        BY <1>5 DEF AdoptReceipt
    <2>3. ReceiptStep(receipt') BY <1>3, <2>2, ReceiptStays DEF Outcomes
    <2> QED BY <2>1, <2>3, EndedOK
<1>6. CASE Deny(d)
    <2>1. dl[d].pc = "decide" /\ Step(d, Ended) BY <1>6 DEF Deny
    <2>2. PICK t \in ExecutorNow, until \in TokenEnds(d) :
              Record([outcome |-> "DENIED",
                      reason |-> FinalDenial(dl[d].cmd, dl[d].seen, t, until),
                      seen |-> dl[d].seen.epoch])
        BY <1>6 DEF Deny
    <2> DEFINE why == FinalDenial(dl[d].cmd, dl[d].seen, t, until)
               r == [outcome |-> "DENIED", reason |-> why, seen |-> dl[d].seen.epoch]
    <2>3. why \in Reasons BY DEF FinalDenial, Reasons
    <2>4. dl[d].seen.epoch \in Nat BY <2>1, DeliveryKnown DEF DlState, AuthorityType
    <2> HIDE DEF why
    <2>5. r \in ReceiptType BY <2>3, <2>4 DEF ReceiptType, Outcomes
    <2>6. ReceiptStep(r) BY <2>5 DEF ReceiptStep
    <2>7. Record(r) BY <2>2 DEF why
    <2> QED BY <2>1, <2>6, <2>7, Recorded, EndedOK
<1>7. CASE GateUnavailable(d)
    <2> DEFINE r == [outcome |-> "DENIED", reason |-> "AUTHORITY_UNAVAILABLE", seen |-> 0]
    <2>1. Step(d, Ended) /\ Record(r) BY <1>7 DEF GateUnavailable
    <2>2. ReceiptStep(r) BY DEF ReceiptStep, ReceiptType, Outcomes, Reasons
    <2> QED BY <2>1, <2>2, Recorded, EndedOK
<1>8. CASE Persist(d)
    <2>1. Step(d, Ended) BY <1>8 DEF Persist
    <2>2. PICK x \in {"FAILED_SAFE", "AMBIGUOUS", "VERIFIED"} :
              Record([NoReceipt EXCEPT !.outcome = x])
        BY <1>8 DEF Persist
    <2>3. ReceiptStep([NoReceipt EXCEPT !.outcome = x]) BY <1>3 DEF Outcomes
    <2> QED BY <2>1, <2>2, <2>3, Recorded, EndedOK
<1> QED BY <1>4, <1>5, <1>6, <1>7, <1>8

\* The call of the provider: only without a fence.
LEMMA DlActs == ASSUME IInv, NEW d \in Delivery, Act(d) PROVE IInv'
<1>1. /\ dl[d].pc = "decide" /\ effect' = effect \cup {d}
      /\ UNCHANGED <<now, ledger, wire, queue, receipt, call, ab, late>> /\ faults' \in Nat
      /\ service' \in {service, "STABLE"}
      /\ Step(d, DlTo(d, "persist")) \/ Step(d, DlTo(d, "refused"))
    BY FaultTyped DEF Act, Permitted
<1>2. progress = NoAbandon
    <2>1. PICK t \in ExecutorNow, until \in TokenEnds(d) :
              FinalDenial(dl[d].cmd, dl[d].seen, t, until) = "NONE"
        BY DEF Act, Permitted
    <2> QED BY <1>1, <2>1, FenceDenies
<1>3. receipt.outcome # "ABSENT" BY <1>1 DEF IInv, GateOK, Gated
<1>4. /\ effect' \subseteq Delivery /\ service' \in {"CANARY", "STABLE"}
      /\ (service = "STABLE" => service' = "STABLE") /\ ReceiptStep(receipt')
    BY <1>1, ReceiptStays DEF IInv, Typed
<1>5. PICK pc \in {"persist", "refused"} : Step(d, DlTo(d, pc)) BY <1>1
<1>6. DlTo(d, pc) \in DlState /\ Gated(DlTo(d, pc), receipt') BY <1>1, <1>3, DlToOK
<1>7. receipt'.outcome # "ABSENT"
      /\ UNCHANGED <<now, ledger, wire, queue, call, ab, late>>
    BY <1>1, <1>3
<1> QED BY <1>1, <1>2, <1>4, <1>5, <1>6, <1>7, DlMoves

LEMMA Resets == ASSUME IInv, ResetTarget PROVE IInv'
<1>1. /\ service' = "STABLE" /\ faults' \in Nat
      /\ UNCHANGED <<now, ledger, wire, queue, receipt, effect, procs, late>>
    BY FaultTyped DEF ResetTarget
<1>2. UNCHANGED <<authority, intent, dispatch, progress, released, call, ab, dl>>
    BY <1>1 DEF ledger, procs
<1>3. Typed' BY <1>1, <1>2 DEF IInv, Typed
<1>4. RecordsOK' BY <1>1, <1>2 DEF IInv, RecordsOK
<1>5. CallsOK' /\ OneHolder' BY <1>1, <1>2 DEF IInv, CallsOK, Wired, Cmd, OneHolder, Holds
<1>6. LateOK' /\ AbsOK' BY <1>1, <1>2 DEF IInv, LateOK, TxOK, AbTxOK, AbsOK, AbLocal
<1>7. GateOK' BY <1>1, <1>2 DEF IInv, GateOK, Gated
<1>8. FenceOK' BY <1>1, <1>2 DEF IInv, FenceOK, Progressed, Fenced
<1>9. ReleaseSawStable'
    BY <1>1, <1>2 DEF IInv, ReleaseSawStable, Progressed
<1> QED BY <1>3, <1>4, <1>5, <1>6, <1>7, <1>8, <1>9 DEF IInv

-----------------------------------------------------------------------------
\* The theorems.

LEMMA Inductive == IInv /\ [Next]_vars => IInv'
<1> SUFFICES ASSUME IInv, [Next]_vars PROVE IInv' OBVIOUS
<1>1. CASE UNCHANGED vars
    <2>1. UNCHANGED <<ledger, world, call, dl>> /\ UNCHANGED <<receipt, service, effect, dl>>
        BY <1>1 DEF vars, ledger, world
    <2>2. StoreStep BY <1>1, <2>1, StoreStays DEF vars
    <2>3. LateOK' BY <1>1 DEF vars, IInv, LateOK, TxOK
    <2>4. AbsOK' /\ ab' \in [Abandon -> AbState] /\ now' \in Nat /\ faults' \in Nat
        BY <1>1 DEF vars, IInv, Typed, AbsOK, AbLocal
    <2> QED BY <2>1, <2>2, <2>3, <2>4, StoreMoves
<1>2. CASE \E c \in Call, m \in Command : Begin(c, m) BY <1>2, Begins
<1>3. CASE \E c \in Call : CallStep(c)
    <2>1. PICK c \in Call : CallStep(c) BY <1>3
    <2> QED BY <2>1, Evaluates, Reads, Resolves, Enqueues, EnqueueAnswers, Fails, Commits,
               Finds, Loses, Creates
            DEF CallStep
<1>4. CASE \E a \in Abandon : (\E m \in AbandonCommands : BeginAbandon(a, m)) \/ AbandonStep(a)
    <2>1. PICK a \in Abandon : (\E m \in AbandonCommands : BeginAbandon(a, m)) \/ AbandonStep(a)
        BY <1>4
    <2> QED BY <2>1, AbBegins, AbReads, AbThinking, AbCommits DEF AbandonStep
<1>5. CASE \E d \in Delivery : (\E m \in queue : Deliver(d, m)) \/ DeliveryStep(d)
    <2>1. PICK d \in Delivery : (\E m \in queue : Deliver(d, m)) \/ DeliveryStep(d) BY <1>5
    <2> QED BY <2>1, DlReads, DlWrites, DlActs DEF DeliveryStep
<1>6. CASE (\E o \in late : LandLate(o)) \/ Revoke \/ FenceClaim \/ Tick BY <1>6, Others
<1>7. CASE ResetTarget BY <1>7, Resets
<1> QED BY <1>1, <1>2, <1>3, <1>4, <1>5, <1>6, <1>7 DEF Next

\* Nobody but the gate records a denial.
LEMMA OnlyDeniers ==
    ASSUME Next, receipt' # receipt, receipt'.outcome = "DENIED"
    PROVE  \E d \in Delivery : Deny(d) \/ GateUnavailable(d)
<1>1. ASSUME NEW c \in Call, CallStep(c) PROVE receipt' = receipt
    BY <1>1 DEF CallStep, ReadTrusted, ReadChain, Refresh, ReadIntent, ReadDispatch, Resolve,
           Attest, Confirm, Seal, Enqueue, EnqueueReturns, Unavailable, CommitConfirmed,
           CommitRefused, CommitLost, ReadBack, Crash, CreateTask, CreateTaskTwice, CallOnly,
           world
<1>2. ASSUME NEW a \in Abandon, AbandonStep(a) PROVE receipt' = receipt
    BY <1>2 DEF AbandonStep, ReadAbandonment, ClassifyTarget, AbUnavailable, AbConfirmed,
           AbRefused, AbLost, AbReadBack, AbOnly, world
<1>3. ASSUME \/ \E c \in Call, m \in Command : Begin(c, m)
             \/ \E a \in Abandon, m \in AbandonCommands : BeginAbandon(a, m)
             \/ \E d \in Delivery, m \in queue : Deliver(d, m)
             \/ \E o \in late : LandLate(o)
             \/ Revoke \/ FenceClaim \/ ResetTarget \/ Tick
      PROVE  receipt' = receipt
    BY <1>3 DEF Begin, CallOnly, BeginAbandon, AbOnly, Deliver, LandLate, Revoke, FenceClaim,
           ResetTarget, Tick, world
<1>4. ASSUME NEW d \in Delivery, DeliveryStep(d) PROVE Deny(d) \/ GateUnavailable(d)
    <2>1. CASE ClaimReceipt(d) \/ AdoptReceipt(d)
        BY <2>1 DEF ClaimReceipt, AdoptReceipt, NoReceipt
    <2>2. CASE ReadAuthority(d) \/ Reject(d) \/ Act(d) \/ DlCrash(d)
        BY <2>2 DEF ReadAuthority, Reject, Act, DlCrash, world
    <2>3. CASE Persist(d)
        <3>1. PICK x \in {"FAILED_SAFE", "AMBIGUOUS", "VERIFIED"} :
                  Record([NoReceipt EXCEPT !.outcome = x])
            BY <2>3 DEF Persist
        <3> QED BY <3>1 DEF Record, NoReceipt
    <2> QED BY <1>4, <2>1, <2>2, <2>3 DEF DeliveryStep
<1> QED BY <1>1, <1>2, <1>3, <1>4 DEF Next

LEMMA Invariance == Spec => []IInv
BY InitInv, Inductive, PTL DEF Spec

\* Every stored document, call, abandonment and delivery of a recovery keeps the
\* shape that its contract gives it.
THEOREM TypeCorrect == Spec => []TypeOK
<1>1. IInv => TypeOK
    <2> SUFFICES ASSUME IInv PROVE TypeOK OBVIOUS
    <2>1. \A c \in Call : call[c] # Idle => Cmd(c) \in Command
        BY DEF IInv, CallsOK, Local, Cmd
    <2>2. \A a \in Abandon : ab[a].pc \notin {"idle", "done"} => ab[a].cmd \in AbandonType
        BY DEF IInv, AbsOK, AbLocal
    <2>3. \A d \in Delivery : dl[d].pc \notin {"waiting", "done"} => dl[d].cmd \in Command
        BY DeliveryKnown
    <2> QED BY <2>1, <2>2, <2>3 DEF IInv, Typed, TypeOK
<1> QED BY <1>1, Invariance, PTL

\* CreateTask is called at most once for a root, for any evaluations, operators,
\* lost answers and late transactions: begin_recovery_enqueue gives its permit
\* only to the call that started the record.
THEOREM EnqueuedOnce == Spec => []OneEnqueuePerRoot
<1>1. IInv => OneEnqueuePerRoot BY DEF IInv, OneHolder, Holds, OneEnqueuePerRoot
<1> QED BY <1>1, Invariance, PTL

\* A record that says CREATED or DUPLICATE has its task in the queue, and no task
\* is there whose enqueue the record does not know of.
THEOREM TrueRecords == Spec => []RecordsAreTrue
<1>1. IInv => RecordsAreTrue BY DEF IInv, RecordsOK, Created, RecordsAreTrue
<1> QED BY <1>1, Invariance, PTL

\* A disposition that some caller was answered stays the one of the record until
\* the recovery is abandoned.
THEOREM CallersAgree == Spec => []AnswersAgree
<1>1. IInv => AnswersAgree
    <2> SUFFICES ASSUME IInv, NEW c \in Call, call[c].code \in Dispositions
                 PROVE  \/ dispatch[Cmd(c)].state = call[c].code
                        \/ Progressed /\ dispatch[Cmd(c)].state = "AMBIGUOUS"
        BY DEF AnswersAgree
    <2>1. Agrees(call[c], dispatch, progress) BY DEF IInv, CallsOK, Truthful
    <2> QED BY <2>1 DEF Agrees, Progressed, Cmd
<1> QED BY <1>1, Invariance, PTL

\* An abandoned recovery never calls UpdateService.
THEOREM AbandonedIsInert == Spec => []AbandonedNeverActs
<1>1. IInv => AbandonedNeverActs BY DEF IInv, FenceOK, AbandonedNeverActs
<1> QED BY <1>1, Invariance, PTL

\* A delivery of an abandoned recovery that records a denial records the one that
\* the release of the claim accepts, unless it could not read the authority or
\* its token was no longer valid: no other check of the gate comes before the epoch.
THEOREM LateDenialsAreExact == Spec => LateDenialIsExact
<1> DEFINE Exact(r) ==
        \/ ReceiptTolerated(progress, r)
        \/ \E d \in Delivery : dl[d].pc = "gate" /\ r.reason = "AUTHORITY_UNAVAILABLE"
        \/ \E d \in Delivery : \E t \in ExecutorNow, until \in TokenEnds(d) :
             /\ dl[d].pc = "decide" /\ CallerDenied(t, until)
             /\ r.reason = "CALLER_UNAUTHORIZED"
<1>1. IInv /\ [Next]_vars =>
          [Progressed /\ receipt' # receipt /\ receipt'.outcome = "DENIED" => Exact(receipt')]_vars
    <2> SUFFICES ASSUME IInv, Next, Progressed, receipt' # receipt,
                        receipt'.outcome = "DENIED"
                 PROVE  Exact(receipt')
        BY DEF vars
    <2>1. PICK d \in Delivery : Deny(d) \/ GateUnavailable(d)
        BY OnlyDeniers
    <2>2. CASE GateUnavailable(d) BY <2>2 DEF GateUnavailable, Record
    <2>3. CASE Deny(d)
        <3>1. dl[d].pc = "decide" BY <2>3 DEF Deny
        <3>2. PICK t \in ExecutorNow, until \in TokenEnds(d) :
                  Record([outcome |-> "DENIED",
                          reason |-> FinalDenial(dl[d].cmd, dl[d].seen, t, until),
                          seen |-> dl[d].seen.epoch])
            BY <2>3 DEF Deny
        <3>3. /\ receipt'.reason = FinalDenial(dl[d].cmd, dl[d].seen, t, until)
              /\ receipt' = [outcome |-> "DENIED", reason |-> receipt'.reason,
                             seen |-> dl[d].seen.epoch]
            BY <3>2 DEF Record
        <3>4. CASE CallerDenied(t, until)
            BY <3>1, <3>3, <3>4, FenceDenies DEF Progressed
        <3>5. CASE ~CallerDenied(t, until)
            <4>1. receipt' = LateDenial(progress)
                BY <3>1, <3>3, <3>5, FenceDenies DEF Progressed, LateDenial
            <4>2. progress \in AbandonType /\ EpochAbandonable(progress)
                BY DEF IInv, FenceOK
            <4>3. progress.epoch \in Nat BY <4>2 DEF AbandonType
            <4>4. receipt'.seen = progress.epoch + 1 BY <4>1 DEF LateDenial
            <4>5. progress.epoch + 1 \in {progress.of.epoch + 1, progress.of.epoch + 2}
                BY <4>2, <4>3 DEF EpochAbandonable
            <4> QED BY <4>1, <4>4, <4>5 DEF ReceiptTolerated
        <3> QED BY <3>4, <3>5
    <2> QED BY <2>1, <2>2, <2>3
<1> QED BY <1>1, Invariance, PTL DEF Spec, LateDenialIsExact

\* No straggling dispatcher, late transaction or second abandonment changes the
\* dispatch record that the fence left behind.
THEOREM RecordStaysFrozen == Spec => AbandonedRecordFrozen
<1>1. IInv /\ [Next]_vars => [Progressed => dispatch' = dispatch]_vars
    <2> SUFFICES ASSUME IInv, Next, Progressed PROVE dispatch' = dispatch BY DEF vars
    <2>1. /\ progress.of \in Command /\ intent = progress.of
          /\ dispatch[progress.of].state = "AMBIGUOUS"
        BY AbandonIsNot DEF IInv, FenceOK
    <2>2. ASSUME NEW m \in Command, dispatch[m].state \in {"PREPARED", "ENQUEUE_STARTED"}
          PROVE  FALSE
        BY <2>1, <2>2, RecordOwned
    <2>3. ASSUME NEW o, TxOK(o), Commit(o) PROVE dispatch' = dispatch
        <3>1. CASE WriteIntent(o) \/ WriteRelease(o) BY <3>1 DEF WriteIntent, WriteRelease
        <3>2. CASE WriteFence(o)
            BY <2>3, <3>2 DEF Commit, Matches, WriteFence, IntentMatches, PrepareMatches,
                BeginMatches, FinishMatches, FenceMatches, ReleaseMatches
        <3>3. CASE WriteRecord(o)
            <4>1. /\ o.op \in {"prepare", "begin", "finish"} /\ o \in CallTx
                  /\ CallTxOK(o.op, o.cmd, o.rec, queue)
                BY <2>3, <3>3 DEF WriteRecord, TxOK, AbandonTx, AbOps
            <4>2. o.cmd \in Command /\ o.rec \in DispatchType BY <4>1 DEF CallTx
            <4>3. PrepareMatches(o) \/ BeginMatches(o) \/ FinishMatches(o)
                BY <2>3, <4>1 DEF Commit, Matches, IntentMatches, FenceMatches, ReleaseMatches
            <4>4. CASE PrepareMatches(o)
                BY <2>1, <4>4 DEF PrepareMatches, NoDispatch
            <4>5. CASE BeginMatches(o)
                BY <2>2, <4>1, <4>2, <4>5 DEF BeginMatches, CallTxOK, Prepared
            <4>6. CASE FinishMatches(o)
                <5>1. dispatch[o.cmd].state = "ENQUEUE_STARTED"
                    BY <4>2, <4>6 DEF FinishMatches, DispatchType
                <5> QED BY <2>2, <4>2, <5>1
            <4> QED BY <4>3, <4>4, <4>5, <4>6
        <3> QED BY <2>3, <3>1, <3>2, <3>3 DEF Commit
    <2>4. ASSUME NEW o, TxOK(o), Lost(o) PROVE dispatch' = dispatch
        BY <2>3, <2>4 DEF Lost, ledger
    <2>5. ASSUME NEW c \in Call, CallStep(c) PROVE dispatch' = dispatch
        <3>1. CASE CommitConfirmed(c) BY <2>3, <3>1, CallTxTyped DEF CommitConfirmed
        <3>2. CASE CommitLost(c) \/ Crash(c)
            BY <2>4, <3>2, CallTxTyped DEF CommitLost, Crash, ledger
        <3>3. CASE CallOnly BY <3>3 DEF CallOnly, ledger
        <3>4. CASE Enqueue(c) \/ CreateTask(c) \/ CreateTaskTwice(c)
            BY <3>4 DEF Enqueue, CreateTask, CreateTaskTwice, ledger
        <3> QED BY <2>5, <3>1, <3>2, <3>3, <3>4
                DEF CallStep, ReadTrusted, ReadChain, Refresh, ReadIntent, ReadDispatch,
                    Resolve, Attest, Confirm, Seal, EnqueueReturns, Unavailable,
                    CommitRefused, ReadBack
    <2>6. ASSUME NEW a \in Abandon, AbandonStep(a) PROVE dispatch' = dispatch
        <3>1. CASE AbOnly BY <3>1 DEF AbOnly, ledger
        <3>2. CASE AbConfirmed(a) \/ AbLost(a)
            <4>1. ab[a].pc \in AbOps BY <3>2 DEF AbConfirmed, AbLost
            <4>2. TxOK(AbTx(a)) BY <4>1, AbTxTyped
            <4> QED BY <2>3, <2>4, <3>2, <4>2 DEF AbConfirmed, AbLost
        <3> QED BY <2>6, <3>1, <3>2
                DEF AbandonStep, ReadAbandonment, ClassifyTarget, AbUnavailable, AbRefused,
                    AbReadBack
    <2>7. ASSUME NEW d \in Delivery, DeliveryStep(d) PROVE dispatch' = dispatch
        BY <2>7 DEF DeliveryStep, ClaimReceipt, AdoptReceipt, ReadAuthority, Deny,
               GateUnavailable, Reject, Act, Persist, DlCrash, ledger
    <2>8. ASSUME NEW o \in late, LandLate(o) PROVE dispatch' = dispatch
        BY <2>3, <2>8 DEF LandLate, ledger, IInv, LateOK
    <2>9. ASSUME \/ \E c \in Call, m \in Command : Begin(c, m)
                 \/ \E a \in Abandon, m \in AbandonCommands : BeginAbandon(a, m)
                 \/ \E d \in Delivery, m \in queue : Deliver(d, m)
                 \/ Revoke \/ FenceClaim \/ ResetTarget \/ Tick
          PROVE  dispatch' = dispatch
        BY <2>9 DEF Begin, CallOnly, BeginAbandon, AbOnly, Deliver, Revoke, FenceClaim,
               ResetTarget, Tick, ledger
    <2> QED BY <2>5, <2>6, <2>7, <2>8, <2>9 DEF Next
<1> QED BY <1>1, Invariance, PTL DEF Spec, AbandonedRecordFrozen

\* The claim of an abandoned recovery is released on the stable revision only,
\* which the service then keeps.
THEOREM ReleasedOnStable == Spec => []ReleaseSawStable
<1>1. IInv => ReleaseSawStable BY DEF IInv
<1> QED BY <1>1, Invariance, PTL
=============================================================================
