------------------------- MODULE TaskDispatchProofs -------------------------
(***************************************************************************)
(* For every set of calls and commands and any number of faults: the two   *)
(* identities and the record of a promotion are owned together, CreateTask *)
(* is called once for it, its answers are what is stored, and no           *)
(* capability of the current epoch is older than the epoch.                *)
(*                                                                         *)
(* The invariant adds what a call holds and what a transaction was built   *)
(* from, under way or late: a record that is started was PREPARED and its  *)
(* starter is the only one who may call CreateTask; a disposition is       *)
(* written over a start and over nothing else.                             *)
(*                                                                         *)
(* What the issuer signs the executor accepts: a capability with its       *)
(* lineage is the same claims again whatever digest it gets, a lineage     *)
(* only grows with the log of what was signed, and so every task that is   *)
(* stored, queued or on its way stays ALLOWED within its window.           *)
(***************************************************************************)
EXTENDS TaskDispatch, FiniteSetTheorems, WellFoundedInduction, TLAPS

ShapedCall(k) ==
    k = [pc |-> k.pc, cmd |-> k.cmd, par |-> k.par, prep |-> k.prep, at |-> k.at,
         seen |-> k.seen, auth |-> k.auth, cap |-> k.cap, rec |-> k.rec, op |-> k.op,
         code |-> k.code]
ShapedRecord(r) ==
    r = [state |-> r.state, rev |-> r.rev, task |-> r.task, prepared |-> r.prepared]

Started(r) == r.state \in {"ENQUEUE_STARTED"} \cup Dispositions
RecordOf(m, r) == ShapedRecord(r) /\ r.task.auth = CreateAuthorization(m)
InQueue(r, Q) == r.state \in {"CREATED", "DUPLICATE"} => r.task \in Q

-----------------------------------------------------------------------------
\* The store.

StoreTyped ==
    /\ identity = [REQUEST |-> identity.REQUEST, IDEMPOTENCY |-> identity.IDEMPOTENCY]
    /\ identity.REQUEST = [r \in {m.req : m \in Command} |-> identity.REQUEST[r]]
    /\ identity.IDEMPOTENCY = [k \in {m.key : m \in Command} |-> identity.IDEMPOTENCY[k]]
    /\ dispatch = [m \in Promotions \cup Recoveries |-> dispatch[m]]

RecordsOK ==
    \A m \in Promotions :
        \/ dispatch[m] = NoRecord
        \/ /\ RecordOf(m, dispatch[m]) /\ InQueue(dispatch[m], queue)
           /\ dispatch[m].state = "PREPARED" \/ Started(dispatch[m])

\* Both identities and the record have one owner.
OwnersOK ==
    \A m \in Promotions :
        /\ dispatch[m] # NoRecord <=> identity.REQUEST[m.req] = m
        /\ dispatch[m] # NoRecord <=> identity.IDEMPOTENCY[m.key] = m

StoreOK == StoreTyped /\ RecordsOK /\ OwnersOK

\* What a transaction was built from.
TxOK(op, m, r, Q) ==
    op \in Ops =>
        /\ m \in Promotions /\ RecordOf(m, r)
        /\ op \in {"prepare", "begin"} => r.state = "PREPARED"
        /\ op = "finish" => r.state \in Dispositions /\ InQueue(r, Q)

LateOK == \A o \in late : o.op \in Ops /\ TxOK(o.op, o.cmd, o.rec, queue)

-----------------------------------------------------------------------------
\* Calls.

PromotionPcs == {"read", "resolve", "seal", "enqueue", "readback"}
RecoveryPcs == {"own", "adopt", "inputs", "observe", "inputs2"}

\* The local state k of a call alone.
Local(k) ==
    /\ ShapedCall(k)
    /\ k = Idle \/ (k.pc # "idle" /\ k.cmd \in Command)
    /\ k.pc \in PromotionPcs => k.cmd \in Promotions
    /\ k.pc \in RecoveryPcs => k.cmd \in Recoveries
    /\ k.auth # None => k.cmd \in Recoveries
    /\ k.pc = "seal" => RecordOf(k.cmd, k.rec) /\ k.rec.state = "PREPARED"
    /\ k.pc = "enqueue" => RecordOf(k.cmd, k.rec)
    /\ k.pc = "readback" =>
         /\ k.op \in Ops
         /\ k.op = "prepare" => RecordOf(k.cmd, k.rec) /\ k.rec.state = "PREPARED"

\* What it tells of the records D and the queue Q.
Truthful(k, D, Q) ==
    /\ TxOK(k.pc, k.cmd, k.rec, Q)
    /\ k.pc = "enqueue" => Started(D[k.cmd])
    /\ k.pc = "done" /\ k.cmd \in Promotions /\ k.code \in Dispositions =>
         D[k.cmd].state = k.code

\* What its request w on the wire tells.
Wired(k, w, D, Q) ==
    /\ w # None =>
         /\ w = [state |-> w.state, task |-> w.task]
         /\ k.pc # "idle"
         /\ k.cmd \notin Promotions => w.task.auth = None
         /\ k.cmd \in Promotions =>
              w.task.auth = CreateAuthorization(k.cmd) /\ Started(D[k.cmd])
    /\ k.pc = "await" =>
         /\ w.state \in {"created", "exists"} => w.task \in Q
         /\ k.cmd \in Promotions => RecordOf(k.cmd, k.rec) /\ w.task = k.rec.task

CallOK(k, w, D, Q) == Local(k) /\ Truthful(k, D, Q) /\ Wired(k, w, D, Q)

CallsOK ==
    /\ call = [c \in Call |-> call[c]] /\ wire = [c \in Call |-> wire[c]]
    /\ \A c \in Call : CallOK(call[c], wire[c], dispatch, queue)

\* A call that may call CreateTask for promotion m, or did; there is one at most.
Holder(k, w, m) == m \in Promotions /\ k.cmd = m /\ (k.pc = "enqueue" \/ w # None)
OneHolder ==
    \A c, d \in Call : \A m \in Promotions :
        Holder(call[c], wire[c], m) /\ Holder(call[d], wire[d], m) => c = d

IInv == StoreOK /\ LateOK /\ CallsOK /\ OneHolder

-----------------------------------------------------------------------------
\* Records only go forward and tasks stay in the queue.
Grows(D, E) ==
    \A m \in Promotions :
        /\ Started(D[m]) => Started(E[m])
        /\ D[m].state \in Dispositions => E[m].state = D[m].state

Forward == StoreOK' /\ LateOK' /\ Grows(dispatch, dispatch') /\ queue \subseteq queue'

LEMMA IdleFields ==
    ShapedCall(Idle) /\ Idle.pc = "idle" /\ Idle.cmd = None /\ Idle.auth = None
BY DEF ShapedCall, Idle

LEMMA Disjoint ==
    ASSUME NEW m \in Promotions
    PROVE  m \in Command /\ m # None /\ m \notin Recoveries /\ m.action = "PROMOTE_CANDIDATE"
BY NoneIsNoValue DEF Promotions, Recoveries

LEMMA IdleOK == ASSUME NEW D, NEW Q PROVE CallOK(Idle, None, D, Q)
<1>1. Local(Idle)
    BY IdleFields DEF Local, PromotionPcs, RecoveryPcs
<1>2. Truthful(Idle, D, Q) BY IdleFields DEF Truthful, TxOK, Ops
<1> QED BY <1>1, <1>2, IdleFields DEF CallOK, Wired

LEMMA InitInv == Init => IInv
<1> SUFFICES ASSUME Init PROVE IInv OBVIOUS
<1>1. StoreTyped BY DEF Init, StoreTyped
<1>2. \A m \in Promotions :
        /\ dispatch[m] = NoRecord /\ m # None
        /\ identity.REQUEST[m.req] = None /\ identity.IDEMPOTENCY[m.key] = None
    BY Disjoint DEF Init
<1>3. StoreOK BY <1>1, <1>2 DEF StoreOK, RecordsOK, OwnersOK
<1>4. LateOK BY DEF Init, LateOK
<1>5. \A c \in Call : call[c] = Idle /\ wire[c] = None BY DEF Init
<1>6. call = [c \in Call |-> call[c]] /\ wire = [c \in Call |-> wire[c]] BY DEF Init
<1>7. CallsOK BY <1>5, <1>6, IdleOK DEF CallsOK
<1>8. OneHolder BY <1>5, IdleFields, Disjoint DEF OneHolder, Holder
<1> QED BY <1>3, <1>4, <1>7, <1>8 DEF IInv

\* A call that stays where it is stays true while the store goes forward.
LEMMA StaysTrue ==
    ASSUME NEW k, NEW w, NEW D, NEW E, NEW Q, NEW R, CallOK(k, w, D, Q),
           Grows(D, E), Q \subseteq R
    PROVE  CallOK(k, w, E, R)
<1>1. Local(k) BY DEF CallOK
<1>2. Truthful(k, E, R)
    <2>1. k.pc = "enqueue" => k.cmd \in Promotions BY <1>1 DEF Local, PromotionPcs
    <2> QED BY <2>1 DEF CallOK, Truthful, TxOK, InQueue, Grows
<1>3. Wired(k, w, E, R) BY DEF CallOK, Wired, Grows
<1> QED BY <1>1, <1>2, <1>3 DEF CallOK

\* Who holds a promotion has started its record.
LEMMA HolderStarted ==
    ASSUME IInv, NEW c \in Call, NEW m \in Promotions, Holder(call[c], wire[c], m)
    PROVE  Started(dispatch[m])
BY DEF IInv, CallsOK, CallOK, Truthful, Wired, Holder

\* A step of one call, with whatever it does to the store and on its wire.
LEMMA CallMoves ==
    ASSUME IInv, Forward, NEW c \in Call, NEW k, Go(c, k),
           NEW w, wire' = [wire EXCEPT ![c] = w],
           CallOK(k, w, dispatch', queue'),
           \A m \in Promotions :
              Holder(k, w, m) => \/ Holder(call[c], wire[c], m)
                                 \/ ~Started(dispatch[m])
    PROVE  IInv'
<1>1. call' = [call EXCEPT ![c] = k] BY DEF Go
<1>2. /\ call = [d \in Call |-> call[d]] /\ wire = [d \in Call |-> wire[d]]
      /\ \A d \in Call : CallOK(call[d], wire[d], dispatch, queue)
    BY DEF IInv, CallsOK
<1>3. /\ call'[c] = k /\ wire'[c] = w
      /\ \A d \in Call : d # c => call'[d] = call[d] /\ wire'[d] = wire[d]
    BY <1>1, <1>2
<1>4. call' = [d \in Call |-> call'[d]] /\ wire' = [d \in Call |-> wire'[d]]
    BY <1>1, <1>2
<1>5. ASSUME NEW d \in Call PROVE CallOK(call'[d], wire'[d], dispatch', queue')
    <2>1. CASE d = c BY <1>3, <2>1
    <2>2. CASE d # c BY <1>2, <1>3, <2>2, StaysTrue DEF Forward
    <2> QED BY <2>1, <2>2
<1>6. CallsOK' BY <1>4, <1>5 DEF CallsOK
<1>7. OneHolder'
    <2> SUFFICES ASSUME NEW d \in Call, NEW e \in Call, NEW m \in Promotions,
                        Holder(call'[d], wire'[d], m), Holder(call'[e], wire'[e], m), d # e
                 PROVE  FALSE
        BY DEF OneHolder
    <2>1. ASSUME NEW f \in Call, f # c, Holder(call'[f], wire'[f], m)
          PROVE  Holder(call[f], wire[f], m)
        BY <1>3, <2>1 DEF Holder
    <2>2. ASSUME NEW f \in Call, f # c, Holder(k, w, m), Holder(call[f], wire[f], m)
          PROVE  FALSE
        <3>1. Started(dispatch[m]) BY <2>2, HolderStarted
        <3>2. Holder(call[c], wire[c], m) BY <2>2, <3>1
        <3> QED BY <2>2, <3>2 DEF IInv, OneHolder
    <2>3. CASE d = c BY <1>3, <2>1, <2>2, <2>3
    <2>4. CASE e = c BY <1>3, <2>1, <2>2, <2>4
    <2>5. CASE d # c /\ e # c BY <2>1, <2>5 DEF IInv, OneHolder
    <2> QED BY <2>3, <2>4, <2>5
<1> QED BY <1>6, <1>7 DEF IInv, Forward

\* Records that stay while the queue grows.
LEMMA StoreStays ==
    ASSUME IInv, UNCHANGED <<ledger, late>>, queue \subseteq queue'
    PROVE  Forward
<1>1. UNCHANGED <<identity, dispatch>> BY DEF ledger
<1>2. StoreOK'
    BY <1>1 DEF IInv, StoreOK, StoreTyped, RecordsOK, OwnersOK, InQueue
<1>3. LateOK' BY DEF IInv, LateOK, TxOK, InQueue
<1> QED BY <1>1, <1>2, <1>3 DEF Forward, Grows

\* A step of one call that changes no record, request or task.
StoreKept == UNCHANGED <<ledger, wire, queue, late>>

LEMMA CallThinks ==
    ASSUME IInv, StoreKept, NEW c \in Call, NEW k, Go(c, k),
           CallOK(k, wire[c], dispatch, queue),
           k.cmd = Cmd(c), k.pc # "enqueue"
    PROVE  IInv'
<1>1. Forward BY StoreStays DEF StoreKept
<1>2. wire' = [wire EXCEPT ![c] = wire[c]]
    BY DEF StoreKept, IInv, CallsOK
<1>3. dispatch' = dispatch /\ queue' = queue BY DEF StoreKept, ledger
<1>4. \A m \in Promotions : Holder(k, wire[c], m) => Holder(call[c], wire[c], m)
    BY DEF Holder, Cmd
<1> QED BY <1>1, <1>2, <1>3, <1>4, CallMoves

-----------------------------------------------------------------------------
\* What a call becomes, whatever it does to the store.

\* A next state k of call c that says nothing of the store.
Plain(c, k) ==
    /\ ShapedCall(k) /\ k.cmd = Cmd(c)
    /\ k.pc \notin {"idle", "await", "seal", "enqueue", "readback"} \cup Ops
    /\ k.pc \in {"read", "resolve"} => Cmd(c) \in Promotions
    /\ k.pc \in RecoveryPcs => Cmd(c) \in Recoveries
    /\ k.auth # None => Cmd(c) \in Recoveries
    /\ k.pc = "done" => k.code \notin Dispositions

LEMMA AtWork ==
    ASSUME IInv, NEW c \in Call, call[c].pc # "idle"
    PROVE  /\ CallOK(call[c], wire[c], dispatch, queue)
           /\ ShapedCall(call[c]) /\ Cmd(c) \in Command
           /\ Promotes(c) <=> Cmd(c) \in Promotions
           /\ Recovers(c) <=> Cmd(c) \in Recoveries
           /\ call[c].auth # None => Cmd(c) \in Recoveries
BY IdleFields
   DEF IInv, CallsOK, CallOK, Local, Cmd, Promotes, Recovers, Promotions, Recoveries

\* The wire of a call that stays with its command.
LEMMA WiredStays ==
    ASSUME NEW k, NEW l, NEW w, NEW D, NEW E, NEW Q, NEW R, CallOK(k, w, D, Q),
           Grows(D, E), Q \subseteq R, l.cmd = k.cmd, l.pc \notin {"idle", "await"}
    PROVE  Wired(l, w, E, R)
BY DEF CallOK, Wired, Grows

LEMMA PlainOK ==
    ASSUME IInv, NEW c \in Call, call[c].pc # "idle", NEW k, Plain(c, k),
           NEW E, NEW R, Grows(dispatch, E), queue \subseteq R
    PROVE  CallOK(k, wire[c], E, R) /\ k.cmd = Cmd(c) /\ k.pc # "enqueue"
<1>1. CallOK(call[c], wire[c], dispatch, queue) /\ Cmd(c) \in Command BY AtWork
<1>2. Local(k) BY <1>1 DEF Local, Plain, PromotionPcs
<1>3. Truthful(k, E, R) BY DEF Truthful, TxOK, Plain
<1>4. Wired(k, wire[c], E, R) BY <1>1, WiredStays DEF Plain, Cmd
<1> QED BY <1>2, <1>3, <1>4 DEF CallOK, Plain

LEMMA AnsweredFields ==
    ASSUME NEW c \in Call, NEW code
    PROVE  /\ ShapedCall(Answered(c, code)) /\ Answered(c, code).pc = "done"
           /\ Answered(c, code).cmd = Cmd(c) /\ Answered(c, code).code = code
           /\ Answered(c, code).auth = None
<1>1. ASSUME NEW k, k = [Idle EXCEPT !.pc = "done", !.cmd = Cmd(c), !.code = code]
      PROVE  /\ ShapedCall(k) /\ k.pc = "done" /\ k.cmd = Cmd(c) /\ k.code = code
             /\ k.auth = None
    BY <1>1, IdleFields DEF ShapedCall
<1> QED BY <1>1 DEF Answered

LEMMA AnsweredPlain ==
    ASSUME NEW c \in Call, NEW code, code \notin Dispositions
    PROVE  Plain(c, Answered(c, code))
BY AnsweredFields DEF Plain, Ops, RecoveryPcs

\* A disposition is answered when it is what is stored.
LEMMA AnsweredOK ==
    ASSUME IInv, NEW c \in Call, call[c].pc # "idle", NEW code,
           NEW E, NEW R, Grows(dispatch, E), queue \subseteq R,
           Cmd(c) \in Promotions /\ code \in Dispositions => E[Cmd(c)].state = code
    PROVE  /\ CallOK(Answered(c, code), wire[c], E, R)
           /\ Answered(c, code).cmd = Cmd(c) /\ Answered(c, code).pc # "enqueue"
<1>1. CallOK(call[c], wire[c], dispatch, queue) /\ Cmd(c) \in Command BY AtWork
<1>2. Local(Answered(c, code))
    BY <1>1, AnsweredFields DEF Local, PromotionPcs, RecoveryPcs
<1>3. Truthful(Answered(c, code), E, R) BY AnsweredFields DEF Truthful, TxOK, Ops
<1>4. Wired(Answered(c, code), wire[c], E, R)
    BY <1>1, AnsweredFields, WiredStays DEF Cmd
<1> QED BY <1>2, <1>3, <1>4, AnsweredFields DEF CallOK

LEMMA ToFields ==
    ASSUME IInv, NEW c \in Call, call[c].pc # "idle", NEW pc
    PROVE  /\ ShapedCall(To(c, pc)) /\ To(c, pc).pc = pc /\ To(c, pc).cmd = Cmd(c)
           /\ To(c, pc).auth = call[c].auth /\ To(c, pc).rec = call[c].rec
           /\ To(c, pc).cap = call[c].cap /\ To(c, pc).at = call[c].at
           /\ To(c, pc).prep = call[c].prep
<1> SUFFICES ASSUME NEW k, k = To(c, pc)
             PROVE  /\ ShapedCall(k) /\ k.pc = pc /\ k.cmd = Cmd(c)
                    /\ k.auth = call[c].auth /\ k.rec = call[c].rec
                    /\ k.cap = call[c].cap /\ k.at = call[c].at
                    /\ k.prep = call[c].prep
    OBVIOUS
<1>1. ShapedCall(call[c]) BY AtWork
<1>2. k = [call[c] EXCEPT !.pc = pc, !.op = "none"] BY DEF To
<1> QED BY <1>1, <1>2 DEF ShapedCall, Cmd

\* A step to a plain state, or with a plain refusal.
LEMMA PlainStep ==
    ASSUME IInv, StoreKept, NEW c \in Call, call[c].pc # "idle", NEW k, Go(c, k), Plain(c, k)
    PROVE  IInv'
<1>1. Grows(dispatch, dispatch) BY DEF Grows
<1>2. CallOK(k, wire[c], dispatch, queue) /\ k.cmd = Cmd(c) /\ k.pc # "enqueue"
    BY <1>1, PlainOK
<1> QED BY <1>2, CallThinks

\* A call whose store is read for a promotion.
LEMMA AdoptOK ==
    ASSUME IInv, NEW c \in Call, call[c].pc # "idle", Cmd(c) \in Promotions,
           dispatch[Cmd(c)] # NoRecord
    PROVE  LET k == AdoptExisting(c, dispatch[Cmd(c)])
           IN CallOK(k, wire[c], dispatch, queue) /\ k.cmd = Cmd(c) /\ k.pc # "enqueue"
<1> DEFINE r == dispatch[Cmd(c)]
<1>1. Grows(dispatch, dispatch) BY DEF Grows
<1>2. CASE r.state # "PREPARED"
    <2> DEFINE code == IF r.state \in Dispositions THEN r.state ELSE "OUTCOME_UNKNOWN"
    <2>1. AdoptExisting(c, r) = Answered(c, code) BY <1>2 DEF AdoptExisting
    <2>2. code \in Dispositions => r.state = code BY DEF Dispositions
    <2> QED BY <1>1, <2>1, <2>2, AnsweredOK
<1>3. CASE r.state = "PREPARED"
    <2>1. PICK k : k = [To(c, "seal") EXCEPT !.rec = r] OBVIOUS
    <2>2. /\ ShapedCall(k) /\ k.pc = "seal" /\ k.cmd = Cmd(c) /\ k.rec = r
          /\ k.auth = call[c].auth
        BY <2>1, ToFields DEF ShapedCall
    <2>3. RecordOf(Cmd(c), r) BY DEF IInv, StoreOK, RecordsOK
    <2>4. Local(k)
        BY <1>3, <2>2, <2>3, AtWork, Disjoint DEF Local, PromotionPcs, RecoveryPcs
    <2>5. Truthful(k, dispatch, queue) BY <2>2 DEF Truthful, TxOK, Ops
    <2>6. Wired(k, wire[c], dispatch, queue)
        BY <1>1, <2>2, AtWork, WiredStays DEF Cmd
    <2> QED BY <1>3, <2>1, <2>2, <2>4, <2>5, <2>6 DEF CallOK, AdoptExisting
<1> QED BY <1>2, <1>3

\* A call that reads the record with its owners answers plainly, or finds it.
LEMMA FoundRecord ==
    ASSUME NEW m \in Promotions, ReadDenial(m) = "none", Found(m) # "NONE"
    PROVE  dispatch[m] # NoRecord
BY DEF ReadDenial, Found

LEMMA DenialPlain ==
    ASSUME NEW m PROVE ReadDenial(m) \notin Dispositions
BY DEF ReadDenial, Dispositions

-----------------------------------------------------------------------------
\* Steps that change nothing but their call, the intent and the log.

LEMMA CallOnlyKeeps == CallOnly => StoreKept
BY DEF CallOnly, StoreKept, world

LEMMA PlainTo ==
    ASSUME IInv, NEW c \in Call, call[c].pc # "idle", NEW pc,
           pc \notin {"idle", "done", "await", "seal", "enqueue", "readback"} \cup Ops,
           pc \in {"read", "resolve"} => Cmd(c) \in Promotions,
           pc \in RecoveryPcs => Cmd(c) \in Recoveries
    PROVE  Plain(c, To(c, pc))
BY AtWork, ToFields DEF Plain

\* A step to a plain state, or a refusal.
LEMMA ThinkInv ==
    ASSUME IInv, StoreKept, NEW c \in Call, call[c].pc # "idle", NEW k, Plain(c, k),
           Go(c, k) \/ \E code : code \notin Dispositions /\ Go(c, Answered(c, code))
    PROVE  IInv'
BY AnsweredPlain, PlainStep

LEMMA ReadDispatchInv == ASSUME IInv, NEW c \in Call, ReadDispatch(c) PROVE IInv'
<1> DEFINE m == Cmd(c)
<1>1. call[c].pc = "read" /\ StoreKept BY CallOnlyKeeps DEF ReadDispatch
<1>2. call[c].pc # "idle" /\ m \in Promotions
    BY <1>1, AtWork DEF CallOK, Local, PromotionPcs, Cmd
<1>3. CASE ReadDenial(m) # "none"
    <2>1. Go(c, Answered(c, ReadDenial(m))) BY <1>3 DEF ReadDispatch
    <2> QED BY <1>1, <1>2, <2>1, DenialPlain, AnsweredPlain, PlainStep
<1>4. CASE ReadDenial(m) = "none" /\ Found(m) = "NONE"
    <2>1. Go(c, To(c, "resolve")) BY <1>4 DEF ReadDispatch
    <2>2. Plain(c, To(c, "resolve")) BY <1>2, PlainTo DEF Ops, RecoveryPcs
    <2> QED BY <1>1, <1>2, <2>1, <2>2, PlainStep
<1>5. CASE ReadDenial(m) = "none" /\ Found(m) # "NONE"
    <2>1. Go(c, AdoptExisting(c, dispatch[m])) BY <1>5 DEF ReadDispatch
    <2> QED BY <1>1, <1>2, <1>5, <2>1, FoundRecord, AdoptOK, CallThinks
<1> QED BY <1>3, <1>4, <1>5

LEMMA ResolveInv == ASSUME IInv, NEW c \in Call, Resolve(c) PROVE IInv'
<1>1. call[c].pc = "resolve" /\ StoreKept BY CallOnlyKeeps DEF Resolve
<1>2. call[c].pc # "idle" BY <1>1
<1>3. PICK k : k = [To(c, "issue") EXCEPT !.prep = now] OBVIOUS
<1>4. Plain(c, To(c, "issue")) BY <1>2, PlainTo DEF Ops, RecoveryPcs
<1>5. Plain(c, k) BY <1>3, <1>4 DEF Plain, ShapedCall
<1>6. Go(c, k) \/ \E code : code \notin Dispositions /\ Go(c, Answered(c, code))
    BY <1>3 DEF Resolve, Dispositions
<1> QED BY <1>1, <1>2, <1>5, <1>6, ThinkInv

LEMMA ReadRecoveryInv == ASSUME IInv, NEW c \in Call, ReadRecovery(c) PROVE IInv'
<1>1. call[c].pc = "adopt" /\ StoreKept BY CallOnlyKeeps DEF ReadRecovery
<1>2. call[c].pc # "idle" /\ Cmd(c) \in Recoveries
    BY <1>1, AtWork DEF CallOK, Local, RecoveryPcs, Cmd
<1>3. PICK k : k = [To(c, "inputs") EXCEPT !.prep = now] OBVIOUS
<1>4. Plain(c, To(c, "inputs")) BY <1>2, PlainTo DEF Ops, RecoveryPcs
<1>5. Plain(c, k) BY <1>3, <1>4 DEF Plain, ShapedCall
<1>6. Go(c, k) \/ \E code : code \notin Dispositions /\ Go(c, Answered(c, code))
    BY <1>3 DEF ReadRecovery, Dispositions
<1> QED BY <1>1, <1>2, <1>5, <1>6, ThinkInv

LEMMA ReadInputsInv == ASSUME IInv, NEW c \in Call, ReadInputs(c) PROVE IInv'
<1>1. call[c].pc = "inputs" /\ StoreKept BY CallOnlyKeeps DEF ReadInputs
<1>2. call[c].pc # "idle" /\ Cmd(c) \in Recoveries
    BY <1>1, AtWork DEF CallOK, Local, RecoveryPcs, Cmd
<1>3. PICK k : k = [To(c, "observe") EXCEPT !.seen = authority] OBVIOUS
<1>4. Plain(c, To(c, "observe")) BY <1>2, PlainTo DEF Ops, RecoveryPcs
<1>5. Plain(c, k) BY <1>3, <1>4 DEF Plain, ShapedCall
<1>6. Go(c, k) \/ \E code : code \notin Dispositions /\ Go(c, Answered(c, code))
    BY <1>3 DEF ReadInputs, Dispositions
<1> QED BY <1>1, <1>2, <1>5, <1>6, ThinkInv

LEMMA IssueInv == ASSUME IInv, NEW c \in Call, Issue(c) PROVE IInv'
<1>1. call[c].pc = "issue" /\ StoreKept BY CallOnlyKeeps DEF Issue
<1>2. call[c].pc # "idle" BY <1>1
<1>3. PICK k : k = [To(c, "trusted") EXCEPT !.at = now] OBVIOUS
<1>4. Plain(c, To(c, "trusted")) BY <1>2, PlainTo DEF Ops, RecoveryPcs
<1>5. Plain(c, k) BY <1>3, <1>4 DEF Plain, ShapedCall
<1>6. Go(c, k) \/ \E code : code \notin Dispositions /\ Go(c, Answered(c, code))
    BY <1>3 DEF Issue, Dispositions
<1> QED BY <1>1, <1>2, <1>5, <1>6, ThinkInv

LEMMA SignInv == ASSUME IInv, NEW c \in Call, Sign(c) PROVE IInv'
<1>1. call[c].pc = "trusted" /\ StoreKept BY CallOnlyKeeps DEF Sign
<1>2. call[c].pc # "idle" BY <1>1
<1>3. PICK k : k = [To(c, "confirm") EXCEPT !.seen = authority, !.cap = Claims(c)] OBVIOUS
<1>4. Plain(c, To(c, "confirm")) BY <1>2, PlainTo DEF Ops, RecoveryPcs
<1>5. Plain(c, k) BY <1>3, <1>4 DEF Plain, ShapedCall
<1>6. Go(c, k) \/ \E code : code \notin Dispositions /\ Go(c, Answered(c, code))
    BY <1>3 DEF Sign, Dispositions
<1> QED BY <1>1, <1>2, <1>5, <1>6, ThinkInv

LEMMA ConfirmInv == ASSUME IInv, NEW c \in Call, Confirm(c) PROVE IInv'
<1>1. call[c].pc = "confirm" /\ StoreKept BY DEF Confirm, StoreKept
<1>2. call[c].pc # "idle" BY <1>1
<1>3. PICK k : k = [To(c, "record") EXCEPT !.seen = None] OBVIOUS
<1>4. Plain(c, To(c, "record")) BY <1>2, PlainTo DEF Ops, RecoveryPcs
<1>5. Plain(c, k) BY <1>3, <1>4 DEF Plain, ShapedCall
<1>6. Go(c, k) \/ \E code : code \notin Dispositions /\ Go(c, Answered(c, code))
    BY <1>3 DEF Confirm, Dispositions
<1> QED BY <1>1, <1>2, <1>5, <1>6, ThinkInv

LEMMA OwnIntentInv == ASSUME IInv, NEW c \in Call, OwnIntent(c) PROVE IInv'
<1>1. call[c].pc = "own" /\ StoreKept BY DEF OwnIntent, StoreKept
<1>2. call[c].pc # "idle" /\ Cmd(c) \in Recoveries
    BY <1>1, AtWork DEF CallOK, Local, RecoveryPcs, Cmd
<1>3. Plain(c, To(c, "adopt")) BY <1>2, PlainTo DEF Ops, RecoveryPcs
<1>4. \/ Go(c, To(c, "adopt"))
      \/ \E code : code \notin Dispositions /\ Go(c, Answered(c, code))
    BY DEF OwnIntent, Dispositions
<1> QED BY <1>1, <1>2, <1>3, <1>4, ThinkInv

LEMMA ObserveInv == ASSUME IInv, NEW c \in Call, Observe(c) PROVE IInv'
<1>1. call[c].pc = "observe" /\ StoreKept BY CallOnlyKeeps DEF Observe
<1>2. call[c].pc # "idle" /\ Cmd(c) \in Recoveries
    BY <1>1, AtWork DEF CallOK, Local, RecoveryPcs, Cmd
<1>3. \/ \E a : Go(c, [To(c, "inputs2") EXCEPT !.auth = a])
      \/ Go(c, Answered(c, "TRANSPORT_UNAVAILABLE"))
    BY DEF Observe
<1>4. Plain(c, To(c, "inputs2")) BY <1>2, PlainTo DEF Ops, RecoveryPcs
<1>5. ASSUME NEW a, NEW k, k = [To(c, "inputs2") EXCEPT !.auth = a]
      PROVE  Plain(c, k)
    BY <1>2, <1>4, <1>5 DEF Plain, ShapedCall
<1>6. CASE Go(c, Answered(c, "TRANSPORT_UNAVAILABLE"))
    BY <1>1, <1>2, <1>6, AnsweredPlain, PlainStep DEF Dispositions
<1>7. CASE \E a : Go(c, [To(c, "inputs2") EXCEPT !.auth = a])
    <2>1. PICK k : Plain(c, k) /\ Go(c, k) BY <1>5, <1>7
    <2> QED BY <1>1, <1>2, <2>1, PlainStep
<1> QED BY <1>3, <1>6, <1>7

LEMMA AuthorizeInv == ASSUME IInv, NEW c \in Call, Authorize(c) PROVE IInv'
<1>1. call[c].pc = "inputs2" /\ StoreKept BY CallOnlyKeeps DEF Authorize
<1>2. call[c].pc # "idle" /\ Cmd(c) \in Recoveries
    BY <1>1, AtWork DEF CallOK, Local, RecoveryPcs, Cmd
<1> DEFINE z == RecoveryAuthorizationOf(Cmd(c), call[c].auth)
<1>3. PICK k : k = [To(c, "issue") EXCEPT !.seen = None, !.auth = z] OBVIOUS
<1>4. Plain(c, To(c, "issue")) BY <1>2, PlainTo DEF Ops, RecoveryPcs
<1>5. Plain(c, k) BY <1>2, <1>3, <1>4 DEF Plain, ShapedCall
<1>6. Go(c, k) \/ \E code : code \notin Dispositions /\ Go(c, Answered(c, code))
    BY <1>3 DEF Authorize, Dispositions
<1> QED BY <1>1, <1>2, <1>5, <1>6, ThinkInv

LEMMA UnavailableInv == ASSUME IInv, NEW c \in Call, Unavailable(c) PROVE IInv'
<1>1. /\ call[c].pc # "idle" /\ StoreKept /\ Go(c, Answered(c, "UNAVAILABLE"))
    BY CallOnlyKeeps DEF Unavailable
<1> QED BY <1>1, AnsweredPlain, PlainStep DEF Dispositions

\* An idle call has no request on the wire.
LEMMA BeginInv ==
    ASSUME IInv, NEW c \in Call, NEW m \in Command, NEW par, Begin(c, m, par)
    PROVE  IInv'
<1>1. call[c] = Idle /\ StoreKept BY CallOnlyKeeps DEF Begin
<1>2. wire[c] = None
    BY <1>1, IdleFields DEF IInv, CallsOK, CallOK, Wired
<1>3. PICK k : k = [Idle EXCEPT !.cmd = m, !.par = par, !.pc = FirstStep[m.action]] OBVIOUS
<1>4. /\ ShapedCall(k) /\ k.cmd = m /\ k.pc = FirstStep[m.action] /\ k.auth = None
    BY <1>3, IdleFields DEF ShapedCall
<1>5. \/ m \in Promotions /\ k.pc = "read"
      \/ m \in Recoveries /\ k.pc = "own"
      \/ m \notin Promotions \cup Recoveries /\ k.pc = "issue"
    BY <1>4, DispatchConstants DEF FirstStep, Promotions, Recoveries, Actions
<1>6. CallOK(k, wire[c], dispatch, queue)
    BY <1>2, <1>4, <1>5 DEF CallOK, Local, Truthful, Wired, TxOK, Ops, PromotionPcs,
                            RecoveryPcs
<1>7. Forward BY <1>1, StoreStays DEF StoreKept
<1>8. /\ wire' = [wire EXCEPT ![c] = wire[c]]
      /\ dispatch' = dispatch /\ queue' = queue
    BY <1>1 DEF StoreKept, ledger, IInv, CallsOK
<1>9. \A n \in Promotions : ~Holder(k, wire[c], n) BY <1>2, <1>5 DEF Holder
<1> QED BY <1>3, <1>6, <1>7, <1>8, <1>9, CallMoves DEF Begin

\* The task of an authorization carries it.
LEMMA TaskAuth ==
    ASSUME NEW c \in Call PROVE TaskFor(c).auth = Authorization(c)
BY DEF TaskFor, TaskOf

LEMMA RecordPromotionInv == ASSUME IInv, NEW c \in Call, RecordPromotion(c) PROVE IInv'
<1>1. call[c].pc = "record" /\ Promotes(c) /\ StoreKept
    BY CallOnlyKeeps DEF RecordPromotion
<1>2. call[c].pc # "idle" /\ Cmd(c) \in Promotions BY <1>1, AtWork
<1> DEFINE r == [state |-> "PREPARED", rev |-> 0, task |-> TaskFor(c),
                 prepared |-> call[c].prep]
<1>3. PICK k : k = [To(c, "prepare") EXCEPT !.rec = r, !.cap = None, !.prep = 0, !.at = 0]
    OBVIOUS
<1>4. ShapedCall(k) /\ k.pc = "prepare" /\ k.cmd = Cmd(c) /\ k.rec = r
      /\ k.auth = call[c].auth
    <2>1. PICK l : l = To(c, "prepare") OBVIOUS
    <2>2. ShapedCall(l) /\ l.pc = "prepare" /\ l.cmd = Cmd(c) /\ l.auth = call[c].auth
        BY <1>2, <2>1, ToFields
    <2>3. k = [l EXCEPT !.rec = r, !.cap = None, !.prep = 0, !.at = 0] BY <1>3, <2>1
    <2> QED BY <2>2, <2>3 DEF ShapedCall
<1>5. RecordOf(k.cmd, k.rec) /\ k.rec.state = "PREPARED"
    BY <1>1, <1>4, TaskAuth DEF RecordOf, ShapedRecord, Authorization
<1>6. Local(k)
    BY <1>2, <1>4, <1>5, AtWork DEF Local, PromotionPcs, RecoveryPcs
<1>7. Truthful(k, dispatch, queue) BY <1>2, <1>4, <1>5 DEF Truthful, TxOK, Ops
<1>8. Wired(k, wire[c], dispatch, queue) BY <1>2, <1>4, AtWork, WiredStays DEF Cmd, Grows
<1>9. \/ Go(c, k) \/ Go(c, Answered(c, "ISSUANCE_DENIED"))
    BY <1>3 DEF RecordPromotion
<1>10. CASE Go(c, k)
    BY <1>1, <1>4, <1>6, <1>7, <1>8, <1>10, CallThinks DEF CallOK
<1>11. CASE Go(c, Answered(c, "ISSUANCE_DENIED"))
    BY <1>1, <1>2, <1>11, AnsweredPlain, PlainStep DEF Dispositions
<1> QED BY <1>9, <1>10, <1>11

LEMMA SealInv == ASSUME IInv, NEW c \in Call, Seal(c) PROVE IInv'
<1>1. call[c].pc = "seal" /\ StoreKept BY CallOnlyKeeps DEF Seal
<1>2. /\ call[c].pc # "idle" /\ Cmd(c) \in Promotions
      /\ RecordOf(Cmd(c), call[c].rec) /\ call[c].rec.state = "PREPARED"
    BY <1>1, AtWork DEF CallOK, Local, PromotionPcs, Cmd
<1>3. PICK k : k = To(c, "begin") OBVIOUS
<1>4. ShapedCall(k) /\ k.pc = "begin" /\ k.cmd = Cmd(c) /\ k.rec = call[c].rec
      /\ k.auth = call[c].auth
    BY <1>2, <1>3, ToFields
<1>5. Local(k)
    BY <1>2, <1>4, AtWork DEF Local, PromotionPcs, RecoveryPcs
<1>6. Truthful(k, dispatch, queue) BY <1>2, <1>4 DEF Truthful, TxOK, Ops
<1>7. Wired(k, wire[c], dispatch, queue) BY <1>2, <1>4, AtWork, WiredStays DEF Cmd, Grows
<1>8. \/ Go(c, k) \/ Go(c, Answered(c, "TRUSTED_STATE_INVALID")) BY <1>3 DEF Seal
<1>9. CASE Go(c, k)
    BY <1>1, <1>4, <1>5, <1>6, <1>7, <1>9, CallThinks DEF CallOK
<1>10. CASE Go(c, Answered(c, "TRUSTED_STATE_INVALID"))
    BY <1>1, <1>2, <1>10, AnsweredPlain, PlainStep DEF Dispositions
<1> QED BY <1>8, <1>9, <1>10

-----------------------------------------------------------------------------
\* The wire and the queue.

\* CreateTask leaves for a canary.
LEMMA RecordCanaryInv == ASSUME IInv, NEW c \in Call, RecordCanary(c) PROVE IInv'
<1>1. call[c].pc = "record" /\ Applies(c) /\ UNCHANGED <<ledger, queue, late>>
    BY DEF RecordCanary
<1>2. /\ call[c].pc # "idle" /\ Cmd(c) \notin Promotions /\ Cmd(c) \notin Recoveries
    BY <1>1 DEF Applies, Promotions, Recoveries
<1>3. CASE UNCHANGED wire /\ Go(c, Answered(c, "DISPATCH_UNAVAILABLE"))
    BY <1>1, <1>2, <1>3, AnsweredPlain, PlainStep DEF Dispositions, StoreKept
<1> DEFINE w == [state |-> "sent", task |-> TaskFor(c)]
<1>4. CASE /\ wire' = [wire EXCEPT ![c] = w]
           /\ Go(c, [To(c, "await") EXCEPT !.cap = None, !.at = 0])
    <2>1. PICK k : k = [To(c, "await") EXCEPT !.cap = None, !.at = 0] OBVIOUS
    <2>2. ShapedCall(k) /\ k.pc = "await" /\ k.cmd = Cmd(c) /\ k.auth = call[c].auth
        <3>1. PICK l : l = To(c, "await") OBVIOUS
        <3>2. ShapedCall(l) /\ l.pc = "await" /\ l.cmd = Cmd(c) /\ l.auth = call[c].auth
            BY <1>2, <3>1, ToFields
        <3>3. k = [l EXCEPT !.cap = None, !.at = 0] BY <2>1, <3>1
        <3> QED BY <3>2, <3>3 DEF ShapedCall
    <2>3. w.task.auth = None
        BY <1>2, AtWork, TaskAuth DEF Authorization
    <2>4. Local(k) BY <1>2, <2>2, AtWork DEF Local, PromotionPcs, RecoveryPcs
    <2>5. Truthful(k, dispatch, queue) BY <2>2 DEF Truthful, TxOK, Ops
    <2>6. Wired(k, w, dispatch, queue) BY <1>2, <2>2, <2>3 DEF Wired
    <2>7. Forward BY <1>1, StoreStays
    <2>8. \A n \in Promotions : ~Holder(k, w, n) BY <1>2, <2>2 DEF Holder
    <2>9. dispatch' = dispatch /\ queue' = queue BY <1>1 DEF ledger
    <2> QED BY <1>4, <2>1, <2>4, <2>5, <2>6, <2>7, <2>8, <2>9, CallMoves DEF CallOK
<1> QED BY <1>3, <1>4 DEF RecordCanary

\* The record of a recovery is no promotion's.
LEMMA RecordRecoveryInv == ASSUME IInv, NEW c \in Call, RecordRecovery(c) PROVE IInv'
<1>1. /\ call[c].pc = "record" /\ Recovers(c)
      /\ UNCHANGED <<identity, wire, late>> /\ queue \subseteq queue'
    BY DEF RecordRecovery
<1>2. call[c].pc # "idle" /\ Cmd(c) \in Recoveries BY <1>1, AtWork
<1>3. \E r : dispatch' = [dispatch EXCEPT ![Cmd(c)] = r] \/ dispatch' = dispatch
    BY DEF RecordRecovery
<1>4. /\ dispatch = [m \in Promotions \cup Recoveries |-> dispatch[m]]
      /\ dispatch' = [m \in Promotions \cup Recoveries |-> dispatch'[m]]
      /\ \A m \in Promotions : dispatch'[m] = dispatch[m]
    BY <1>2, <1>3, Disjoint DEF IInv, StoreOK, StoreTyped
<1>5. StoreOK'
    BY <1>1, <1>4 DEF IInv, StoreOK, StoreTyped, RecordsOK, OwnersOK, InQueue
<1>6. LateOK' BY <1>1 DEF IInv, LateOK, TxOK, InQueue
<1>7. Grows(dispatch, dispatch') BY <1>4 DEF Grows
<1>8. Forward BY <1>1, <1>5, <1>6, <1>7 DEF Forward
<1>9. PICK k : k.pc = "done" /\ k.cmd = Cmd(c) /\ Plain(c, k) /\ Go(c, k)
    <2>1. \E code : code \notin Dispositions /\ Go(c, Answered(c, code))
        BY DEF RecordRecovery, Dispositions
    <2> QED BY <2>1, AnsweredPlain, AnsweredFields
<1>10. CallOK(k, wire[c], dispatch', queue') BY <1>1, <1>2, <1>7, <1>9, PlainOK
<1>11. wire' = [wire EXCEPT ![c] = wire[c]] BY <1>1 DEF IInv, CallsOK
<1>12. \A n \in Promotions : Holder(k, wire[c], n) => Holder(call[c], wire[c], n)
    BY <1>9 DEF Holder, Cmd
<1> QED BY <1>8, <1>9, <1>10, <1>11, <1>12, CallMoves

\* A confirmed start is the permit.
LEMMA EnqueueInv == ASSUME IInv, NEW c \in Call, Enqueue(c) PROVE IInv'
<1>1. call[c].pc = "enqueue" /\ UNCHANGED <<ledger, queue, late>> BY DEF Enqueue
<1>2. /\ call[c].pc # "idle" /\ Cmd(c) \in Promotions
      /\ RecordOf(Cmd(c), call[c].rec) /\ Started(dispatch[Cmd(c)])
    BY <1>1, AtWork DEF CallOK, Local, Truthful, PromotionPcs, Cmd
<1> DEFINE w == [state |-> "sent", task |-> call[c].rec.task]
<1>3. PICK k : k = To(c, "await") OBVIOUS
<1>4. ShapedCall(k) /\ k.pc = "await" /\ k.cmd = Cmd(c) /\ k.rec = call[c].rec
      /\ k.auth = call[c].auth
    BY <1>2, <1>3, ToFields
<1>5. Local(k) BY <1>2, <1>4, AtWork DEF Local, PromotionPcs, RecoveryPcs
<1>6. Truthful(k, dispatch, queue) BY <1>4 DEF Truthful, TxOK, Ops
<1>7. Wired(k, w, dispatch, queue) BY <1>2, <1>4 DEF Wired, RecordOf
<1>8. Forward BY <1>1, StoreStays
<1>9. \A n \in Promotions : Holder(k, w, n) => Holder(call[c], wire[c], n)
    BY <1>1, <1>4 DEF Holder, Cmd
<1>10. dispatch' = dispatch /\ queue' = queue BY <1>1 DEF ledger
<1> QED BY <1>3, <1>5, <1>6, <1>7, <1>8, <1>9, <1>10, CallMoves DEF CallOK, Enqueue

LEMMA EnqueueReturnsInv == ASSUME IInv, NEW c \in Call, EnqueueReturns(c) PROVE IInv'
<1>1. call[c].pc = "await" /\ StoreKept BY CallOnlyKeeps DEF EnqueueReturns
<1>2. call[c].pc # "idle" /\ Wired(call[c], wire[c], dispatch, queue)
    BY <1>1, AtWork DEF CallOK
<1>3. PICK d \in Dispositions :
        /\ Go(c, Dispatched(c, d))
        /\ d \in {"CREATED", "DUPLICATE"} => wire[c].state \in {"created", "exists"}
    BY DEF EnqueueReturns, Dispositions
<1>4. CASE ~Promotes(c)
    <2>1. Go(c, Answered(c, d)) /\ Cmd(c) \notin Promotions
        BY <1>2, <1>3, <1>4, AtWork DEF Dispatched
    <2>2. Grows(dispatch, dispatch) BY DEF Grows
    <2> QED BY <1>1, <1>2, <2>1, <2>2, AnsweredOK, CallThinks
<1>5. CASE Promotes(c)
    <2>1. PICK l : l = To(c, "finish") OBVIOUS
    <2>2. ShapedCall(l) /\ l.pc = "finish" /\ l.cmd = Cmd(c) /\ l.rec = call[c].rec
          /\ l.auth = call[c].auth
        BY <1>2, <2>1, ToFields
    <2>3. PICK k : k = [l EXCEPT !.rec = [@ EXCEPT !.state = d, !.rev = 2]] OBVIOUS
    <2>4. PICK r : r = [call[c].rec EXCEPT !.state = d, !.rev = 2] OBVIOUS
    <2>5. ShapedCall(k) /\ k.pc = "finish" /\ k.cmd = Cmd(c) /\ k.rec = r
          /\ k.auth = call[c].auth
        BY <2>2, <2>3, <2>4 DEF ShapedCall
    <2>6. /\ Cmd(c) \in Promotions /\ RecordOf(Cmd(c), call[c].rec)
          /\ wire[c].task = call[c].rec.task
          /\ wire[c].state \in {"created", "exists"} => wire[c].task \in queue
        BY <1>1, <1>2, <1>5, AtWork DEF Wired, Cmd
    <2>7. ShapedRecord(r) /\ r.state = d /\ r.task = call[c].rec.task
        BY <2>4, <2>6 DEF RecordOf, ShapedRecord
    <2>8. RecordOf(Cmd(c), r) /\ InQueue(r, queue)
        BY <1>3, <2>6, <2>7 DEF RecordOf, InQueue
    <2>9. Local(k) BY <1>2, <2>5, <2>6, AtWork DEF Local, PromotionPcs, RecoveryPcs
    <2>10. Truthful(k, dispatch, queue)
        BY <2>5, <2>6, <2>7, <2>8 DEF Truthful, TxOK
    <2>11. Wired(k, wire[c], dispatch, queue)
        BY <1>2, <2>5, AtWork, WiredStays DEF Cmd, Grows
    <2>12. Go(c, k) BY <1>3, <1>5, <2>1, <2>3 DEF Dispatched
    <2> QED BY <1>1, <2>5, <2>9, <2>10, <2>11, <2>12, CallThinks DEF CallOK
<1> QED BY <1>4, <1>5

\* A request that Cloud Tasks processes, with its call as it is.
LEMMA RequestMoves ==
    ASSUME IInv, NEW c \in Call, wire[c] # None, NEW s,
           wire' = [wire EXCEPT ![c].state = s],
           UNCHANGED <<ledger, call, late>>, queue \subseteq queue',
           call[c].pc = "await" => wire[c].task \in queue'
    PROVE  IInv'
<1>1. CallOK(call[c], wire[c], dispatch, queue) BY DEF IInv, CallsOK
<1>2. Forward BY StoreStays
<1>3. PICK w : w = [wire[c] EXCEPT !.state = s] OBVIOUS
<1>4. w.task = wire[c].task /\ w.state = s /\ w = [state |-> w.state, task |-> w.task]
    BY <1>1, <1>3 DEF CallOK, Wired
<1>5. wire' = [wire EXCEPT ![c] = w] BY <1>3
<1>6. Go(c, call[c])
    <2>1. call = [d \in Call |-> call[d]] BY DEF IInv, CallsOK
    <2> QED BY <2>1 DEF Go
<1>7. CallOK(call[c], wire[c], dispatch', queue')
    BY <1>1, <1>2, StaysTrue DEF Forward
<1>8. Wired(call[c], w, dispatch', queue') BY <1>4, <1>7 DEF CallOK, Wired
<1>9. CallOK(call[c], w, dispatch', queue') BY <1>7, <1>8 DEF CallOK
<1>10. \A m \in Promotions : Holder(call[c], w, m) => Holder(call[c], wire[c], m)
    BY DEF Holder
<1> QED BY <1>2, <1>5, <1>6, <1>9, <1>10, CallMoves

LEMMA CreateTaskInv == ASSUME IInv, NEW c \in Call, CreateTask(c) PROVE IInv'
<1> DEFINE s == IF wire[c].task \in queue THEN "exists" ELSE "created"
<1>1. wire[c] # None /\ wire' = [wire EXCEPT ![c].state = s] BY DEF CreateTask
<1>2. /\ UNCHANGED <<ledger, call, late>> /\ queue \subseteq queue'
      /\ wire[c].task \in queue'
    BY DEF CreateTask
<1> HIDE DEF s
<1> QED BY <1>1, <1>2, RequestMoves

LEMMA CreateTaskTwiceInv == ASSUME IInv, NEW c \in Call, CreateTaskTwice(c) PROVE IInv'
<1>1. /\ wire[c] # None /\ wire' = [wire EXCEPT ![c].state = "exists"]
      /\ UNCHANGED <<ledger, call, late, queue>> /\ wire[c].state = "created"
    BY DEF CreateTaskTwice
<1>2. call[c].pc = "await" => wire[c].task \in queue
    BY <1>1 DEF IInv, CallsOK, CallOK, Wired
<1> QED BY <1>1, <1>2, RequestMoves

-----------------------------------------------------------------------------
\* Transactions.

\* What a transaction that commits leaves.
LEMMA CommitForward ==
    ASSUME IInv, NEW o, o.op \in Ops, TxOK(o.op, o.cmd, o.rec, queue), Commit(o),
           UNCHANGED queue, late' \subseteq late
    PROVE  /\ Forward /\ dispatch'[o.cmd] = Written(o)
           /\ o.op = "begin" => /\ RecordOf(o.cmd, Written(o)) /\ Started(Written(o))
                                /\ ~Started(dispatch[o.cmd])
<1> DEFINE m == o.cmd
<1>1. m \in Promotions /\ RecordOf(m, o.rec) BY DEF TxOK
<1>2. /\ dispatch' = [dispatch EXCEPT ![m] = Written(o)]
      /\ Matches(o)
    BY DEF Commit
<1>3. /\ dispatch = [n \in Promotions \cup Recoveries |-> dispatch[n]]
      /\ StoreTyped /\ RecordsOK /\ OwnersOK
    BY DEF IInv, StoreOK, StoreTyped
<1>4. /\ dispatch'[m] = Written(o)
      /\ \A n \in Promotions : n # m => dispatch'[n] = dispatch[n]
    BY <1>1, <1>2, <1>3
<1>5. o.op = "begin" =>
        /\ o.rec.state = "PREPARED" /\ RecordOf(m, Written(o))
        /\ Written(o).state = "ENQUEUE_STARTED"
    <2> SUFFICES ASSUME o.op = "begin"
                 PROVE  o.rec.state = "PREPARED" /\ RecordOf(m, Written(o))
                        /\ Written(o).state = "ENQUEUE_STARTED"
        OBVIOUS
    <2>1. PICK r : r = [o.rec EXCEPT !.state = "ENQUEUE_STARTED", !.rev = 1] OBVIOUS
    <2>2. RecordOf(m, r) /\ r.state = "ENQUEUE_STARTED"
        BY <1>1, <2>1 DEF RecordOf, ShapedRecord
    <2> QED BY <2>1, <2>2 DEF Written, TxOK
<1>6. o.op # "begin" => Written(o) = o.rec BY DEF Written
<1>7. /\ RecordOf(m, Written(o)) /\ InQueue(Written(o), queue)
      /\ Written(o).state = "PREPARED" \/ Started(Written(o))
      /\ Written(o).state # "ABSENT"
    BY <1>1, <1>5, <1>6 DEF TxOK, Ops, InQueue, Started, Dispositions
<1>8. RecordsOK' BY <1>3, <1>4, <1>7 DEF RecordsOK
<1>9. \/ /\ o.op = "prepare" /\ dispatch[m] = NoRecord
         /\ identity.REQUEST[m.req] = None /\ identity.IDEMPOTENCY[m.key] = None
         /\ identity' = [identity EXCEPT !.REQUEST[m.req] = m, !.IDEMPOTENCY[m.key] = m]
      \/ /\ o.op = "begin" /\ dispatch[m] = o.rec /\ UNCHANGED identity
         /\ identity.REQUEST[m.req] = m /\ identity.IDEMPOTENCY[m.key] = m
      \/ /\ o.op = "finish" /\ UNCHANGED identity
         /\ dispatch[m] = [o.rec EXCEPT !.state = "ENQUEUE_STARTED", !.rev = 1]
         /\ identity.REQUEST[m.req] = m /\ identity.IDEMPOTENCY[m.key] = m
    BY <1>2 DEF Commit, Matches, PrepareMatches, TransitionMatches
<1>10. dispatch' = [n \in Promotions \cup Recoveries |-> dispatch'[n]]
    BY <1>1, <1>2, <1>3
<1>11. StoreTyped' /\ OwnersOK'
    <2>1. CASE o.op = "prepare"
        <3> DEFINE R == {n.req : n \in Command}
                   K == {n.key : n \in Command}
        <3>1. /\ identity = [REQUEST |-> identity.REQUEST, IDEMPOTENCY |-> identity.IDEMPOTENCY]
              /\ identity.REQUEST = [x \in R |-> identity.REQUEST[x]]
              /\ identity.IDEMPOTENCY = [x \in K |-> identity.IDEMPOTENCY[x]]
            BY <1>3 DEF StoreTyped
        <3>2. m \in Command /\ m.req \in R /\ m.key \in K BY <1>1, Disjoint
        <3>3. /\ identity' = [REQUEST |-> [identity.REQUEST EXCEPT ![m.req] = m],
                              IDEMPOTENCY |-> [identity.IDEMPOTENCY EXCEPT ![m.key] = m]]
            BY <1>9, <2>1, <3>1
        <3>4. /\ identity'.REQUEST = [x \in R |-> IF x = m.req THEN m ELSE identity.REQUEST[x]]
              /\ identity'.IDEMPOTENCY =
                   [x \in K |-> IF x = m.key THEN m ELSE identity.IDEMPOTENCY[x]]
              /\ identity' = [REQUEST |-> identity'.REQUEST,
                              IDEMPOTENCY |-> identity'.IDEMPOTENCY]
            BY <3>1, <3>2, <3>3
        <3>5. StoreTyped' BY <1>10, <3>4 DEF StoreTyped
        <3>6. ASSUME NEW n \in Promotions
              PROVE  /\ dispatch'[n] # NoRecord <=> identity'.REQUEST[n.req] = n
                     /\ dispatch'[n] # NoRecord <=> identity'.IDEMPOTENCY[n.key] = n
            <4>1. n \in Command /\ n # None /\ n.req \in R /\ n.key \in K BY Disjoint
            <4>2. CASE n = m
                <5>1. dispatch'[n] # NoRecord BY <1>4, <1>7, <4>2 DEF NoRecord
                <5> QED BY <3>4, <4>1, <4>2, <5>1
            <4>3. CASE n # m
                <5>1. dispatch'[n] = dispatch[n] BY <1>4, <4>3
                <5>2. /\ dispatch[n] # NoRecord <=> identity.REQUEST[n.req] = n
                      /\ dispatch[n] # NoRecord <=> identity.IDEMPOTENCY[n.key] = n
                    BY <1>3 DEF OwnersOK
                <5>3. identity'.REQUEST[n.req] = n <=> identity.REQUEST[n.req] = n
                    BY <1>9, <2>1, <3>4, <4>1, <4>3
                <5>4. identity'.IDEMPOTENCY[n.key] = n <=> identity.IDEMPOTENCY[n.key] = n
                    BY <1>9, <2>1, <3>4, <4>1, <4>3
                <5> QED BY <5>1, <5>2, <5>3, <5>4
            <4> QED BY <4>2, <4>3
        <3> QED BY <3>5, <3>6 DEF OwnersOK
    <2>2. CASE o.op # "prepare"
        <3>1. UNCHANGED identity /\ identity.REQUEST[m.req] = m /\ identity.IDEMPOTENCY[m.key] = m
            BY <1>9, <2>2
        <3>2. dispatch'[m] # NoRecord BY <1>4, <1>7 DEF NoRecord
        <3> QED BY <1>3, <1>4, <1>10, <3>1, <3>2 DEF StoreTyped, OwnersOK
    <2> QED BY <2>1, <2>2
<1>12. Grows(dispatch, dispatch')
    <2>1. o.op = "finish" => dispatch[m].state = "ENQUEUE_STARTED"
        <3> SUFFICES ASSUME o.op = "finish" PROVE dispatch[m].state = "ENQUEUE_STARTED"
            OBVIOUS
        <3>1. PICK r : r = [o.rec EXCEPT !.state = "ENQUEUE_STARTED", !.rev = 1] OBVIOUS
        <3>2. r.state = "ENQUEUE_STARTED" BY <1>1, <3>1 DEF RecordOf, ShapedRecord
        <3> QED BY <1>9, <3>1, <3>2
    <2>2. o.op = "finish" => Started(Written(o)) BY <1>6 DEF TxOK, Started
    <2>3. o.op # "finish" => dispatch[m].state \in {"ABSENT", "PREPARED"}
        BY <1>5, <1>9 DEF NoRecord
    <2>4. /\ Started(dispatch[m]) => Started(Written(o))
          /\ dispatch[m].state \notin Dispositions
        BY <2>1, <2>2, <2>3 DEF Started, Dispositions
    <2> QED BY <1>4, <2>4 DEF Grows
<1>13. StoreOK' BY <1>8, <1>11 DEF StoreOK
<1>14. LateOK' BY DEF IInv, LateOK
<1>15. o.op = "begin" => Started(Written(o)) /\ ~Started(dispatch[m])
    BY <1>5, <1>9 DEF Started, Dispositions
<1> QED BY <1>4, <1>5, <1>12, <1>13, <1>14, <1>15 DEF Forward

\* What a call would commit was rightly built.
LEMMA TxIsOK ==
    ASSUME IInv, NEW c \in Call, call[c].pc \in Ops
    PROVE  /\ call[c].pc # "idle" /\ Cmd(c) \in Promotions
           /\ RecordOf(Cmd(c), call[c].rec)
           /\ Tx(c).op = call[c].pc /\ Tx(c).cmd = Cmd(c) /\ Tx(c).rec = call[c].rec
           /\ TxOK(Tx(c).op, Tx(c).cmd, Tx(c).rec, queue)
<1>1. call[c].pc # "idle" BY DEF Ops
<1>2. TxOK(call[c].pc, Cmd(c), call[c].rec, queue)
    BY <1>1, AtWork DEF CallOK, Truthful, Cmd
<1>3. Tx(c).op = call[c].pc /\ Tx(c).cmd = Cmd(c) /\ Tx(c).rec = call[c].rec
    BY DEF Tx
<1> QED BY <1>1, <1>2, <1>3 DEF TxOK

LEMMA CommitConfirmedInv == ASSUME IInv, NEW c \in Call, CommitConfirmed(c) PROVE IInv'
<1>1. /\ call[c].pc \in Ops /\ Commit(Tx(c)) /\ Go(c, Committed(c))
      /\ UNCHANGED <<wire, queue, late>>
    BY DEF CommitConfirmed, world
<1> DEFINE m == Cmd(c)
<1>2. /\ call[c].pc # "idle" /\ m \in Promotions /\ RecordOf(m, call[c].rec)
      /\ Tx(c).op = call[c].pc /\ Tx(c).cmd = m /\ Tx(c).rec = call[c].rec
      /\ TxOK(Tx(c).op, m, call[c].rec, queue)
    BY <1>1, TxIsOK
<1>3. /\ Forward /\ dispatch'[m] = Written(Tx(c))
      /\ Tx(c).op = "begin" => /\ RecordOf(m, Written(Tx(c))) /\ Started(Written(Tx(c)))
                               /\ ~Started(dispatch[m])
    BY <1>1, <1>2, CommitForward
<1>4. Grows(dispatch, dispatch') /\ queue \subseteq queue' BY <1>3 DEF Forward
<1>5. wire' = [wire EXCEPT ![c] = wire[c]] BY <1>1 DEF IInv, CallsOK
<1>6. CASE call[c].pc = "prepare"
    <2>1. PICK k : k = To(c, "seal") OBVIOUS
    <2>2. ShapedCall(k) /\ k.pc = "seal" /\ k.cmd = m /\ k.rec = call[c].rec
          /\ k.auth = call[c].auth
        BY <1>2, <2>1, ToFields
    <2>3. k.rec.state = "PREPARED" BY <1>2, <1>6, <2>2 DEF TxOK, Ops
    <2>4. Local(k)
        BY <1>2, <2>2, <2>3, AtWork, Disjoint DEF Local, PromotionPcs, RecoveryPcs
    <2>5. Truthful(k, dispatch', queue') BY <2>2 DEF Truthful, TxOK, Ops
    <2>6. Wired(k, wire[c], dispatch', queue') BY <1>2, <1>4, <2>2, AtWork, WiredStays DEF Cmd
    <2>7. \A n \in Promotions : Holder(k, wire[c], n) => Holder(call[c], wire[c], n)
        BY <2>2 DEF Holder, Cmd
    <2>8. Go(c, k) BY <1>1, <1>6, <2>1 DEF Committed
    <2> QED BY <1>3, <1>5, <2>4, <2>5, <2>6, <2>7, <2>8, CallMoves DEF CallOK
<1>7. CASE call[c].pc = "begin"
    <2>1. PICK l : l = To(c, "enqueue") OBVIOUS
    <2>2. ShapedCall(l) /\ l.pc = "enqueue" /\ l.cmd = m /\ l.auth = call[c].auth
        BY <1>2, <2>1, ToFields
    <2>3. PICK k : k = [l EXCEPT !.rec = Written(Tx(c))] OBVIOUS
    <2>4. ShapedCall(k) /\ k.pc = "enqueue" /\ k.cmd = m /\ k.rec = Written(Tx(c))
          /\ k.auth = call[c].auth
        BY <2>2, <2>3 DEF ShapedCall
    <2>5. RecordOf(m, k.rec) /\ Started(dispatch'[m]) /\ ~Started(dispatch[m])
        BY <1>2, <1>3, <1>7, <2>4
    <2>6. Local(k)
        BY <1>2, <2>4, <2>5, AtWork, Disjoint DEF Local, PromotionPcs, RecoveryPcs
    <2>7. Truthful(k, dispatch', queue') BY <2>4, <2>5 DEF Truthful, TxOK, Ops
    <2>8. Wired(k, wire[c], dispatch', queue') BY <1>2, <1>4, <2>4, AtWork, WiredStays DEF Cmd
    <2>9. \A n \in Promotions : Holder(k, wire[c], n) => ~Started(dispatch[n])
        BY <2>4, <2>5 DEF Holder
    <2>10. Go(c, k) BY <1>1, <1>7, <2>1, <2>3 DEF Committed
    <2> QED BY <1>3, <1>5, <2>6, <2>7, <2>8, <2>9, <2>10, CallMoves DEF CallOK
<1>8. CASE call[c].pc = "finish"
    <2>1. PICK k : k = Answered(c, call[c].rec.state) OBVIOUS
    <2>2. dispatch'[m].state = call[c].rec.state BY <1>2, <1>3, <1>8 DEF Written
    <2>3. CallOK(k, wire[c], dispatch', queue') /\ k.cmd = m /\ k.pc # "enqueue"
        BY <1>2, <1>4, <2>1, <2>2, AnsweredOK
    <2>4. \A n \in Promotions : Holder(k, wire[c], n) => Holder(call[c], wire[c], n)
        BY <2>3 DEF Holder, Cmd
    <2>5. Go(c, k) BY <1>1, <1>8, <2>1 DEF Committed
    <2> QED BY <1>3, <1>5, <2>3, <2>4, <2>5, CallMoves
<1> QED BY <1>1, <1>6, <1>7, <1>8 DEF Ops

\* A read after a transition answers what is stored.
LEMMA AfterTransitionOK ==
    ASSUME IInv, NEW c \in Call, call[c].pc # "idle", Cmd(c) \in Promotions
    PROVE  /\ CallOK(AfterTransition(c), wire[c], dispatch, queue)
           /\ AfterTransition(c).cmd = Cmd(c) /\ AfterTransition(c).pc # "enqueue"
<1> DEFINE m == Cmd(c)
           code == IF ReadDenial(m) # "none" THEN ReadDenial(m)
                   ELSE IF Found(m) = "NONE" THEN "TRUSTED_STATE_INVALID"
                   ELSE IF dispatch[m].state \in Dispositions THEN dispatch[m].state
                   ELSE "OUTCOME_UNKNOWN"
<1>1. AfterTransition(c) = Answered(c, code) BY DEF AfterTransition
<1>2. code \in Dispositions => dispatch[m].state = code
    BY DenialPlain DEF Dispositions
<1>3. Grows(dispatch, dispatch) BY DEF Grows
<1> HIDE DEF code
<1> QED BY <1>1, <1>2, <1>3, AnsweredOK

LEMMA AfterPrepareOK ==
    ASSUME IInv, NEW c \in Call, call[c].pc # "idle", Cmd(c) \in Promotions
    PROVE  /\ CallOK(AfterPrepare(c), wire[c], dispatch, queue)
           /\ AfterPrepare(c).cmd = Cmd(c) /\ AfterPrepare(c).pc # "enqueue"
<1> DEFINE m == Cmd(c)
<1>1. Grows(dispatch, dispatch) BY DEF Grows
<1>2. CASE ReadDenial(m) # "none"
    <2>1. AfterPrepare(c) = Answered(c, ReadDenial(m)) BY <1>2 DEF AfterPrepare
    <2> QED BY <1>1, <2>1, DenialPlain, AnsweredOK
<1>3. CASE ReadDenial(m) = "none" /\ Found(m) = "NONE"
    <2>1. AfterPrepare(c) = Answered(c, "OUTCOME_UNKNOWN") BY <1>3 DEF AfterPrepare
    <2>2. "OUTCOME_UNKNOWN" \notin Dispositions BY DEF Dispositions
    <2> QED BY <1>1, <2>1, <2>2, AnsweredOK
<1>4. CASE ReadDenial(m) = "none" /\ Found(m) # "NONE"
    <2>1. AfterPrepare(c) = AdoptExisting(c, dispatch[m]) BY <1>4 DEF AfterPrepare
    <2> QED BY <1>4, <2>1, FoundRecord, AdoptOK
<1> QED BY <1>2, <1>3, <1>4

LEMMA CommitRefusedInv == ASSUME IInv, NEW c \in Call, CommitRefused(c) PROVE IInv'
<1>1. call[c].pc \in Ops /\ StoreKept BY CallOnlyKeeps DEF CommitRefused
<1>2. call[c].pc # "idle" /\ Cmd(c) \in Promotions BY <1>1, TxIsOK
<1>3. Go(c, AfterPrepare(c)) \/ Go(c, AfterTransition(c)) BY DEF CommitRefused, AfterConflict
<1> QED BY <1>1, <1>2, <1>3, AfterPrepareOK, AfterTransitionOK, CallThinks

LEMMA ReadBackInv == ASSUME IInv, NEW c \in Call, ReadBack(c) PROVE IInv'
<1>1. call[c].pc = "readback" /\ StoreKept /\ Go(c, Resolved(c))
    BY CallOnlyKeeps DEF ReadBack
<1>2. /\ call[c].pc # "idle" /\ Cmd(c) \in Promotions
      /\ call[c].op = "prepare" => /\ RecordOf(Cmd(c), call[c].rec)
                                   /\ call[c].rec.state = "PREPARED"
    BY <1>1, AtWork DEF CallOK, Local, PromotionPcs, Cmd
<1>3. Grows(dispatch, dispatch) BY DEF Grows
<1>4. \/ Go(c, AfterTransition(c)) \/ Go(c, AfterPrepare(c))
      \/ Go(c, Answered(c, "OUTCOME_UNKNOWN"))
      \/ call[c].op = "prepare" /\ Go(c, To(c, "seal"))
    BY <1>1 DEF Resolved
<1>5. CASE Go(c, AfterTransition(c))
    BY <1>1, <1>2, <1>5, AfterTransitionOK, CallThinks
<1>6. CASE Go(c, AfterPrepare(c)) BY <1>1, <1>2, <1>6, AfterPrepareOK, CallThinks
<1>7. CASE Go(c, Answered(c, "OUTCOME_UNKNOWN"))
    BY <1>1, <1>2, <1>7, AnsweredPlain, PlainStep DEF Dispositions
<1>8. CASE call[c].op = "prepare" /\ Go(c, To(c, "seal"))
    <2>1. PICK k : k = To(c, "seal") OBVIOUS
    <2>2. ShapedCall(k) /\ k.pc = "seal" /\ k.cmd = Cmd(c) /\ k.rec = call[c].rec
          /\ k.auth = call[c].auth
        BY <1>2, <2>1, ToFields
    <2>3. Local(k)
        BY <1>2, <1>8, <2>2, AtWork, Disjoint DEF Local, PromotionPcs, RecoveryPcs
    <2>4. Truthful(k, dispatch, queue) BY <2>2 DEF Truthful, TxOK, Ops
    <2>5. Wired(k, wire[c], dispatch, queue) BY <1>2, <1>3, <2>2, AtWork, WiredStays DEF Cmd
    <2> QED BY <1>1, <1>8, <2>1, <2>2, <2>3, <2>4, <2>5, CallThinks DEF CallOK
<1> QED BY <1>4, <1>5, <1>6, <1>7, <1>8

\* A transaction whose caller does not know.
LEMMA LostForward ==
    ASSUME IInv, NEW o, o.op \in Ops, TxOK(o.op, o.cmd, o.rec, queue), Lost(o),
           UNCHANGED queue
    PROVE  Forward
<1>1. CASE Commit(o) /\ UNCHANGED late BY <1>1, CommitForward
<1>2. CASE UNCHANGED <<ledger, late>> BY <1>2, StoreStays
<1>3. CASE UNCHANGED ledger /\ late' = late \cup {o}
    <2>1. UNCHANGED <<identity, dispatch>> BY <1>3 DEF ledger
    <2>2. StoreOK' BY <2>1 DEF IInv, StoreOK, StoreTyped, RecordsOK, OwnersOK
    <2>3. LateOK' BY <1>3 DEF IInv, LateOK
    <2> QED BY <2>1, <2>2, <2>3 DEF Forward, Grows
<1> QED BY <1>1, <1>2, <1>3 DEF Lost

LEMMA CommitLostInv == ASSUME IInv, NEW c \in Call, CommitLost(c) PROVE IInv'
<1>1. /\ call[c].pc \in Ops /\ Lost(Tx(c)) /\ UNCHANGED <<wire, queue>>
      /\ Go(c, [To(c, "readback") EXCEPT !.op = call[c].pc])
    BY DEF CommitLost, world
<1>2. /\ call[c].pc # "idle" /\ Cmd(c) \in Promotions /\ RecordOf(Cmd(c), call[c].rec)
      /\ Tx(c).op = call[c].pc /\ TxOK(Tx(c).op, Tx(c).cmd, Tx(c).rec, queue)
      /\ Tx(c).rec = call[c].rec
    BY <1>1, TxIsOK
<1>3. Forward BY <1>1, <1>2, LostForward
<1>4. Grows(dispatch, dispatch') /\ queue \subseteq queue' BY <1>3 DEF Forward
<1>5. PICK l : l = To(c, "readback") OBVIOUS
<1>6. ShapedCall(l) /\ l.pc = "readback" /\ l.cmd = Cmd(c) /\ l.rec = call[c].rec
      /\ l.auth = call[c].auth
    BY <1>2, <1>5, ToFields
<1>7. PICK k : k = [l EXCEPT !.op = call[c].pc] OBVIOUS
<1>8. ShapedCall(k) /\ k.pc = "readback" /\ k.cmd = Cmd(c) /\ k.rec = call[c].rec
      /\ k.auth = call[c].auth /\ k.op = call[c].pc
    BY <1>6, <1>7 DEF ShapedCall
<1>9. k.op = "prepare" => k.rec.state = "PREPARED" BY <1>2, <1>8 DEF TxOK, Ops
<1>10. Local(k)
    BY <1>1, <1>2, <1>8, <1>9, AtWork, Disjoint DEF Local, PromotionPcs, RecoveryPcs
<1>11. Truthful(k, dispatch', queue') BY <1>8 DEF Truthful, TxOK, Ops
<1>12. Wired(k, wire[c], dispatch', queue') BY <1>2, <1>4, <1>8, AtWork, WiredStays DEF Cmd
<1>13. wire' = [wire EXCEPT ![c] = wire[c]] BY <1>1 DEF IInv, CallsOK
<1>14. \A n \in Promotions : Holder(k, wire[c], n) => Holder(call[c], wire[c], n)
    BY <1>8 DEF Holder, Cmd
<1>15. Go(c, k) BY <1>1, <1>5, <1>7
<1> QED BY <1>3, <1>10, <1>11, <1>12, <1>13, <1>14, <1>15, CallMoves DEF CallOK

LEMMA CrashInv == ASSUME IInv, NEW c \in Call, Crash(c) PROVE IInv'
<1>1. /\ call[c].pc # "idle" /\ UNCHANGED <<wire, queue>>
      /\ Go(c, Answered(c, "UNAVAILABLE"))
      /\ \/ call[c].pc \in Ops /\ Lost(Tx(c))
         \/ UNCHANGED <<ledger, late>>
    BY DEF Crash, world
<1>2. Forward
    <2>1. CASE call[c].pc \in Ops /\ Lost(Tx(c)) BY <1>1, <2>1, TxIsOK, LostForward
    <2>2. CASE UNCHANGED <<ledger, late>> BY <1>1, <2>2, StoreStays
    <2> QED BY <1>1, <2>1, <2>2
<1>3. Grows(dispatch, dispatch') /\ queue \subseteq queue' BY <1>2 DEF Forward
<1>4. PICK k : k = Answered(c, "UNAVAILABLE") OBVIOUS
<1>5. CallOK(k, wire[c], dispatch', queue') /\ k.cmd = Cmd(c) /\ k.pc # "enqueue"
    BY <1>1, <1>3, <1>4, AnsweredOK DEF Dispositions
<1>6. wire' = [wire EXCEPT ![c] = wire[c]] BY <1>1 DEF IInv, CallsOK
<1>7. \A n \in Promotions : Holder(k, wire[c], n) => Holder(call[c], wire[c], n)
    BY <1>5 DEF Holder, Cmd
<1> QED BY <1>1, <1>2, <1>4, <1>5, <1>6, <1>7, CallMoves

\* The store goes forward under calls that stay.
LEMMA StoreMoves ==
    ASSUME IInv, Forward, UNCHANGED <<call, wire>> PROVE IInv'
<1>1. CallsOK'
    <2>1. ASSUME NEW c \in Call PROVE CallOK(call[c], wire[c], dispatch', queue')
        BY StaysTrue DEF IInv, CallsOK, Forward
    <2> QED BY <2>1 DEF IInv, CallsOK
<1>2. OneHolder' BY DEF IInv, OneHolder
<1> QED BY <1>1, <1>2 DEF IInv, Forward

LEMMA LandLateInv == ASSUME IInv, NEW o \in late, LandLate(o) PROVE IInv'
<1>1. /\ UNCHANGED <<call, wire, queue>> /\ late' \subseteq late
      /\ Commit(o) \/ UNCHANGED ledger
    BY DEF LandLate, world
<1>2. o.op \in Ops /\ TxOK(o.op, o.cmd, o.rec, queue) BY DEF IInv, LateOK
<1>3. Forward
    <2>1. CASE Commit(o) BY <1>1, <1>2, <2>1, CommitForward
    <2>2. CASE UNCHANGED ledger
        <3>1. UNCHANGED <<identity, dispatch>> BY <2>2 DEF ledger
        <3>2. StoreOK' BY <1>1, <3>1 DEF IInv, StoreOK, StoreTyped, RecordsOK, OwnersOK
        <3>3. LateOK' BY <1>1 DEF IInv, LateOK
        <3> QED BY <1>1, <3>1, <3>2, <3>3 DEF Forward, Grows
    <2> QED BY <1>1, <2>1, <2>2
<1> QED BY <1>1, <1>3, StoreMoves

\* Epochs, proofs, intents and the clock.
LEMMA WorldInv ==
    ASSUME IInv, UNCHANGED <<wire, queue, call, late, ledger>> PROVE IInv'
BY StoreStays, StoreMoves

LEMMA Invariance == IInv /\ [Next]_vars => IInv'
<1> SUFFICES ASSUME IInv, [Next]_vars PROVE IInv' OBVIOUS
<1>1. ASSUME NEW c \in Call, CallStep(c) PROVE IInv'
    BY <1>1, ReadDispatchInv, ResolveInv, IssueInv, SignInv, ConfirmInv, OwnIntentInv,
       ReadRecoveryInv, ReadInputsInv, ObserveInv, AuthorizeInv, RecordPromotionInv,
       RecordCanaryInv, RecordRecoveryInv, SealInv, EnqueueInv, EnqueueReturnsInv,
       CommitConfirmedInv, CommitRefusedInv, ReadBackInv
    DEF CallStep
<1>2. ASSUME NEW c \in Call, CallFault(c) PROVE IInv'
    BY <1>2, UnavailableInv, CommitLostInv, CrashInv, CreateTaskTwiceInv DEF CallFault
<1>3. ASSUME NEW c \in Call, NEW m \in Command, NEW par, Begin(c, m, par) PROVE IInv'
    BY <1>3, BeginInv
<1>4. ASSUME NEW c \in Call, CreateTask(c) PROVE IInv' BY <1>4, CreateTaskInv
<1>5. ASSUME NEW o \in late, LandLate(o) PROVE IInv' BY <1>5, LandLateInv
<1>6. ASSUME NEW t, NEW claim, AdvanceEpoch(t, claim) PROVE IInv'
    BY <1>6, WorldInv DEF AdvanceEpoch
<1>7. ASSUME NEW r, ReadProof(r) PROVE IInv' BY <1>7, WorldInv DEF ReadProof
<1>8. ASSUME NEW m, HealthTerminates(m) PROVE IInv' BY <1>8, WorldInv DEF HealthTerminates
<1>9. CASE Tick BY <1>9, WorldInv DEF Tick
<1>10. CASE UNCHANGED vars BY <1>10, WorldInv DEF vars, ledger
<1> QED BY <1>1, <1>2, <1>3, <1>4, <1>5, <1>6, <1>7, <1>8, <1>9, <1>10 DEF Next

\* Whatever the calls, their failures and their late transactions do.
THEOREM Inductive == Spec => []IInv
BY InitInv, Invariance, PTL DEF Spec

-----------------------------------------------------------------------------
\* The three documents of a promotion are those of one command or of none, so no
\* read of prepare_or_adopt_promotion_dispatch_v2 or of
\* read_promotion_dispatch_v2 finds a part of them.
THEOREM OwnedTogether == Spec => []OwnershipIsWhole
<1>1. IInv => OwnershipIsWhole
    <2> SUFFICES ASSUME IInv, NEW m \in Promotions PROVE Found(m) # "CORRUPT"
        BY DEF OwnershipIsWhole
    <2>1. /\ dispatch[m] # NoRecord <=> identity.REQUEST[m.req] = m
          /\ dispatch[m] # NoRecord <=> identity.IDEMPOTENCY[m.key] = m
        BY DEF IInv, StoreOK, OwnersOK
    <2>2. m # None BY Disjoint
    <2>3. CASE dispatch[m] # NoRecord BY <2>1, <2>2, <2>3 DEF Found
    <2>4. CASE dispatch[m] = NoRecord BY <2>1, <2>2, <2>4 DEF Found
    <2> QED BY <2>3, <2>4
<1> QED BY <1>1, Inductive, PTL

\* A promotion that answered CREATED, DUPLICATE or AMBIGUOUS answers its record,
\* and the task of a record that is CREATED or DUPLICATE is in the queue.
THEOREM StoredAnswers == Spec => []AnswersAreStored
<1>1. IInv => AnswersAreStored
    <2> SUFFICES ASSUME IInv PROVE AnswersAreStored OBVIOUS
    <2>1. ASSUME NEW c \in Call, call[c].pc = "done", Promotes(c),
                 call[c].code \in Dispositions
          PROVE  dispatch[Cmd(c)].state = call[c].code
        BY <2>1, AtWork DEF CallOK, Truthful, Cmd
    <2>2. ASSUME NEW m \in Promotions, dispatch[m].state \in {"CREATED", "DUPLICATE"}
          PROVE  dispatch[m].task \in queue
        BY <2>2 DEF IInv, StoreOK, RecordsOK, InQueue, NoRecord
    <2> QED BY <2>1, <2>2 DEF AnswersAreStored
<1> QED BY <1>1, Inductive, PTL

\* Two requests on the wire with the authorization of one promotion are one
\* call's: the records of both calls are started, so both commands own their
\* request, which is the same, and who starts a record is alone with it.
LEMMA OneRequest ==
    ASSUME IInv, NEW m \in Promotions, NEW c \in Call, NEW d \in Call,
           wire[c] # None, wire[c].task.auth = CreateAuthorization(m),
           wire[d] # None, wire[d].task.auth = CreateAuthorization(m)
    PROVE  c = d
<1>1. CreateAuthorization(m) # None BY NoneIsNoValue, Disjoint
<1>2. ASSUME NEW e \in Call, wire[e] # None, wire[e].task.auth = CreateAuthorization(m)
      PROVE  /\ call[e].cmd \in Promotions /\ call[e].cmd.req = m.req
             /\ identity.REQUEST[m.req] = call[e].cmd
    <2> DEFINE n == call[e].cmd
    <2>1. Wired(call[e], wire[e], dispatch, queue)
        BY DEF IInv, CallsOK, CallOK
    <2>2. /\ n \in Promotions /\ Started(dispatch[n])
          /\ CreateAuthorization(n) = CreateAuthorization(m)
        BY <1>1, <1>2, <2>1 DEF Wired
    <2>3. n.req = m.req BY <2>2 DEF CreateAuthorization
    <2>4. dispatch[n] # NoRecord BY <2>2 DEF Started, Dispositions, NoRecord
    <2> QED BY <2>2, <2>3, <2>4 DEF IInv, StoreOK, OwnersOK
<1>3. call[c].cmd \in Promotions /\ call[c].cmd = call[d].cmd BY <1>2
<1>4. /\ Holder(call[c], wire[c], call[c].cmd)
      /\ Holder(call[d], wire[d], call[c].cmd)
    BY <1>3 DEF Holder
<1> QED BY <1>3, <1>4 DEF IInv, OneHolder

\* CreateTask is called at most once for a promotion, whatever fails.
THEOREM EnqueuedOnce == Spec => []PromotionEnqueuedOnce
<1>1. IInv => PromotionEnqueuedOnce
    <2> SUFFICES ASSUME IInv, NEW m \in Promotions
                 PROVE  Cardinality({c \in Call : /\ wire[c] # None
                                                  /\ wire[c].task.auth =
                                                       CreateAuthorization(m)}) <= 1
        BY DEF PromotionEnqueuedOnce
    <2> DEFINE S == {c \in Call : /\ wire[c] # None
                                  /\ wire[c].task.auth = CreateAuthorization(m)}
    <2>1. \A c, d \in S : c = d BY OneRequest
    <2> HIDE DEF S
    <2>2. S = {} => Cardinality(S) <= 1 BY FS_EmptySet
    <2>3. ASSUME NEW c \in S PROVE Cardinality(S) <= 1
        <3>1. S = {c} BY <2>1
        <3> QED BY <3>1, FS_Singleton
    <2>4. Cardinality(S) <= 1 BY <2>2, <2>3
    <2> QED BY <2>4 DEF S
<1> QED BY <1>1, Inductive, PTL

-----------------------------------------------------------------------------
\* The clock.  A capability is timed under its epoch from the moment its time is
\* known: what is Under the authority stays so, because only a newer epoch has a
\* later changed_at.

Under(e, t) == e <= authority.epoch /\ (e = authority.epoch => t >= authority.changed)
Timely(e, t) == e \in Nat /\ t \in Nat /\ Under(e, t)

ClockOK ==
    /\ now \in Nat /\ authority.epoch \in Nat /\ authority.changed \in Nat
    /\ authority.changed <= now

LogOK ==
    /\ \E S : log \in Seq(S)
    /\ \A i \in DOMAIN log : Timely(log[i].epoch, log[i].issued)

TimedPcs == {"observe", "inputs2", "issue", "trusted", "confirm"}

\* The time that call k brings to its capability.
OnTime(k) ==
    /\ k.pc = "observe" => Timely(k.cmd.epoch, now)
    /\ k.pc = "inputs2" => Timely(k.cmd.epoch, k.auth.result.retrieved)
    /\ k.pc \in {"issue", "trusted"} /\ k.cmd \in Recoveries =>
         Timely(k.cmd.epoch, k.auth.issued)
    /\ k.pc = "trusted" => k.at \in Nat
    /\ k.pc = "confirm" => Timely(k.cap.epoch, k.cap.issued)

Timed == ClockOK /\ LogOK /\ \A c \in Call : OnTime(call[c])

LEMMA InitTimed == Init => Timed
<1> SUFFICES ASSUME Init PROVE Timed OBVIOUS
<1>1. ClockOK BY DEF Init, ClockOK
<1>2. LogOK BY DEF Init, LogOK
<1>3. \A c \in Call : OnTime(call[c]) BY IdleFields DEF Init, OnTime
<1> QED BY <1>1, <1>2, <1>3 DEF Timed

\* A step that leaves authority, clock and log alone.
LEMMA CallTimed ==
    ASSUME IInv, Timed, UNCHANGED <<now, authority, log>>, NEW c \in Call, NEW k,
           Go(c, k), OnTime(k)
    PROVE  Timed'
<1>1. call' = [call EXCEPT ![c] = k] /\ call = [d \in Call |-> call[d]]
    BY DEF Go, IInv, CallsOK
<1>2. \A e, t : Timely(e, t)' <=> Timely(e, t) BY DEF Timely, Under
<1>3. \A d \in Call : OnTime(call[d])' BY <1>1, <1>2 DEF Timed, OnTime
<1>4. ClockOK' /\ LogOK' BY <1>2 DEF Timed, ClockOK, LogOK, Timely, Under
<1> QED BY <1>3, <1>4 DEF Timed

\* A call that becomes one whose time does not matter.
LEMMA Untimed ==
    ASSUME IInv, Timed, UNCHANGED <<now, authority, log>>, NEW c \in Call, NEW k,
           Go(c, k), k.pc \notin TimedPcs
    PROVE  Timed'
<1>1. OnTime(k) BY DEF OnTime, TimedPcs
<1> QED BY <1>1, CallTimed

LEMMA AnsweredUntimed ==
    ASSUME NEW c \in Call, NEW code PROVE Answered(c, code).pc \notin TimedPcs
BY AnsweredFields DEF TimedPcs

\* The clock goes on, or a newer epoch begins.
LEMMA Later ==
    ASSUME IInv, Timed, UNCHANGED <<log, call>>, now' \in Nat, now' >= now,
           \/ UNCHANGED authority
           \/ /\ authority'.epoch = authority.epoch + 1
              /\ authority'.changed \in authority.changed .. now
    PROVE  Timed'
<1>1. ClockOK' BY DEF Timed, ClockOK
<1>2. ASSUME NEW e, NEW t, NEW u \in Nat, Timely(e, t), t <= u
      PROVE  Timely(e, u)'
    <2>1. CASE UNCHANGED authority
        BY <1>2, <2>1 DEF Timed, ClockOK, Timely, Under
    <2>2. CASE authority'.epoch = authority.epoch + 1
        BY <1>2, <2>2 DEF Timed, ClockOK, Timely, Under
    <2> QED BY <2>1, <2>2
<1>3. ASSUME NEW e, NEW t, Timely(e, t) PROVE Timely(e, t)'
    <2>1. t \in Nat /\ t <= t BY <1>3 DEF Timely
    <2> QED BY <1>2, <1>3, <2>1
<1>4. ASSUME NEW c \in Call PROVE OnTime(call[c])'
    <2>1. OnTime(call[c]) BY DEF Timed
    <2>2. call[c].pc = "observe" => Timely(call[c].cmd.epoch, now)'
        BY <1>2, <2>1 DEF OnTime, Timed, ClockOK
    <2> QED BY <1>3, <2>1, <2>2 DEF OnTime
<1>5. LogOK' BY <1>3 DEF Timed, LogOK
<1> QED BY <1>1, <1>4, <1>5 DEF Timed

LEMMA ClaimsFields ==
    ASSUME NEW m, NEW s, NEW at, NEW nb, NEW exp, NEW parent, NEW etag, NEW auth
    PROVE  LET k == BuildClaims(m, s, at, nb, exp, parent, etag, auth)
           IN k.epoch = s.epoch /\ k.issued = at
BY DEF BuildClaims

-----------------------------------------------------------------------------
\* The steps that time a capability.

LEMMA BeginTimed ==
    ASSUME IInv, Timed, NEW c \in Call, NEW m \in Command, NEW par, Begin(c, m, par)
    PROVE  Timed'
<1>1. PICK k : k = [Idle EXCEPT !.cmd = m, !.par = par, !.pc = FirstStep[m.action]] OBVIOUS
<1>2. k.pc = FirstStep[m.action] /\ k.cmd = m BY <1>1, IdleFields DEF ShapedCall
<1>3. /\ k.pc \in {"issue", "read", "own"}
      /\ k.pc = "issue" => m \notin Recoveries
    BY <1>2, DispatchConstants DEF FirstStep, Actions, Recoveries
<1>4. OnTime(k) BY <1>2, <1>3 DEF OnTime
<1>5. UNCHANGED <<now, authority, log>> /\ Go(c, k)
    BY <1>1 DEF Begin, CallOnly, world, rootState
<1> QED BY <1>4, <1>5, CallTimed

LEMMA ResolveTimed == ASSUME IInv, Timed, NEW c \in Call, Resolve(c) PROVE Timed'
<1>1. call[c].pc = "resolve" /\ UNCHANGED <<now, authority, log>>
    BY DEF Resolve, CallOnly, world, rootState
<1>2. call[c].pc # "idle" /\ Cmd(c) \in Promotions
    BY <1>1, AtWork DEF CallOK, Local, PromotionPcs, Cmd
<1>3. PICK k : k = [To(c, "issue") EXCEPT !.prep = now] OBVIOUS
<1>4. k.pc = "issue" /\ k.cmd = Cmd(c) BY <1>2, <1>3, ToFields DEF ShapedCall
<1>5. OnTime(k) BY <1>2, <1>4, Disjoint DEF OnTime
<1>6. Go(c, k) \/ \E code : Go(c, Answered(c, code)) BY <1>3 DEF Resolve
<1> QED BY <1>1, <1>5, <1>6, AnsweredUntimed, Untimed, CallTimed

LEMMA ReadInputsTimed == ASSUME IInv, Timed, NEW c \in Call, ReadInputs(c) PROVE Timed'
<1>1. call[c].pc = "inputs" /\ UNCHANGED <<now, authority, log>>
    BY DEF ReadInputs, CallOnly, world, rootState
<1>2. call[c].pc # "idle" BY <1>1
<1>3. PICK k : k = [To(c, "observe") EXCEPT !.seen = authority] OBVIOUS
<1>4. k.pc = "observe" /\ k.cmd = Cmd(c) BY <1>2, <1>3, ToFields DEF ShapedCall
<1>5. \/ Go(c, k) /\ authority.epoch = Cmd(c).epoch
      \/ \E code : Go(c, Answered(c, code))
    BY <1>3 DEF ReadInputs, ResolverInputs
<1>6. authority.epoch = Cmd(c).epoch => OnTime(k)
    BY <1>4 DEF OnTime, Timely, Under, Timed, ClockOK
<1> QED BY <1>1, <1>5, <1>6, AnsweredUntimed, Untimed, CallTimed

LEMMA ObserveTimed == ASSUME IInv, Timed, NEW c \in Call, Observe(c) PROVE Timed'
<1>1. call[c].pc = "observe" /\ UNCHANGED <<now, authority, log>>
    BY DEF Observe, CallOnly, world, rootState
<1>2. call[c].pc # "idle" /\ Timely(Cmd(c).epoch, now)
    BY <1>1 DEF Timed, OnTime, Cmd
<1> DEFINE q == PrestateRequest(Cmd(c), call[c].prep)
           a(etag) == Attest(SigningRequest(PrestateResult(q, etag, now)))
<1>3. \/ \E etag : Go(c, [To(c, "inputs2") EXCEPT !.auth = a(etag)])
      \/ \E code : Go(c, Answered(c, code))
    BY DEF Observe
<1>4. ASSUME NEW etag, Go(c, [To(c, "inputs2") EXCEPT !.auth = a(etag)])
      PROVE  Timed'
    <2>1. PICK k : k = [To(c, "inputs2") EXCEPT !.auth = a(etag)] OBVIOUS
    <2>2. k.pc = "inputs2" /\ k.cmd = Cmd(c) /\ k.auth = a(etag)
        BY <1>2, <2>1, ToFields DEF ShapedCall
    <2>3. a(etag).result.retrieved = now BY DEF Attest, SigningRequest, PrestateResult
    <2>4. OnTime(k) BY <1>2, <2>2, <2>3 DEF OnTime
    <2> QED BY <1>1, <1>4, <2>1, <2>4, CallTimed
<1> QED BY <1>1, <1>3, <1>4, AnsweredUntimed, Untimed

LEMMA AuthorizeTimed == ASSUME IInv, Timed, NEW c \in Call, Authorize(c) PROVE Timed'
<1>1. call[c].pc = "inputs2" /\ UNCHANGED <<now, authority, log>>
    BY DEF Authorize, CallOnly, world, rootState
<1>2. call[c].pc # "idle" /\ Timely(Cmd(c).epoch, call[c].auth.result.retrieved)
    BY <1>1 DEF Timed, OnTime, Cmd
<1> DEFINE z == RecoveryAuthorizationOf(Cmd(c), call[c].auth)
<1>3. z.issued = call[c].auth.result.retrieved BY DEF RecoveryAuthorizationOf
<1>4. PICK k : k = [To(c, "issue") EXCEPT !.seen = None, !.auth = z] OBVIOUS
<1>5. k.pc = "issue" /\ k.cmd = Cmd(c) /\ k.auth = z
    BY <1>2, <1>4, ToFields DEF ShapedCall
<1>6. OnTime(k) BY <1>2, <1>3, <1>5 DEF OnTime
<1>7. Go(c, k) \/ \E code : Go(c, Answered(c, code)) BY <1>4 DEF Authorize
<1> QED BY <1>1, <1>6, <1>7, AnsweredUntimed, Untimed, CallTimed

LEMMA IssueTimed == ASSUME IInv, Timed, NEW c \in Call, Issue(c) PROVE Timed'
<1>1. call[c].pc = "issue" /\ UNCHANGED <<now, authority, log>>
    BY DEF Issue, CallOnly, world, rootState
<1>2. call[c].pc # "idle" /\ OnTime(call[c]) /\ now \in Nat
    BY <1>1 DEF Timed, ClockOK
<1>3. PICK k : k = [To(c, "trusted") EXCEPT !.at = now] OBVIOUS
<1>4. k.pc = "trusted" /\ k.cmd = Cmd(c) /\ k.at = now /\ k.auth = call[c].auth
    BY <1>2, <1>3, ToFields DEF ShapedCall
<1>5. OnTime(k) BY <1>1, <1>2, <1>4 DEF OnTime, Cmd
<1>6. Go(c, k) \/ \E code : Go(c, Answered(c, code)) BY <1>3 DEF Issue
<1> QED BY <1>1, <1>5, <1>6, AnsweredUntimed, Untimed, CallTimed

\* The issuer's clock was read before the authority that it signs for, or the
\* verifier's was.
LEMMA SignTimed == ASSUME IInv, Timed, NEW c \in Call, Sign(c) PROVE Timed'
<1>1. call[c].pc = "trusted" /\ UNCHANGED <<now, authority, log>>
    BY DEF Sign, CallOnly, world, rootState
<1>2. call[c].pc # "idle" /\ OnTime(call[c]) /\ ClockOK /\ call[c].at \in Nat
    BY <1>1 DEF Timed, OnTime
<1>3. PICK k : k = [To(c, "confirm") EXCEPT !.seen = authority, !.cap = Claims(c)] OBVIOUS
<1>4. k.pc = "confirm" /\ k.cap = Claims(c)
    BY <1>2, <1>3, ToFields DEF ShapedCall
<1>5. \/ /\ Go(c, k) /\ authority.changed <= call[c].at /\ authority.epoch = Cmd(c).epoch
      \/ \E code : Go(c, Answered(c, code))
    BY <1>3 DEF Sign, TrustedState, ExpectedState
<1>6. ASSUME authority.changed <= call[c].at, authority.epoch = Cmd(c).epoch
      PROVE  OnTime(k)
    <2>1. Claims(c).epoch = authority.epoch
        BY ClaimsFields DEF Claims
    <2>2. CASE Recovers(c)
        <3>1. ~Promotes(c) BY <2>2 DEF Promotes, Recovers
        <3>2. Claims(c).issued = call[c].auth.issued
            BY <2>2, <3>1, ClaimsFields DEF Claims, Authorization
        <3>3. Timely(Cmd(c).epoch, call[c].auth.issued)
            BY <1>1, <1>2, <2>2, AtWork DEF OnTime, Cmd
        <3> QED BY <1>4, <1>6, <2>1, <3>2, <3>3 DEF OnTime
    <2>3. CASE ~Recovers(c)
        <3>1. Claims(c).issued = call[c].at BY <2>3, ClaimsFields DEF Claims
        <3> QED BY <1>2, <1>4, <1>6, <2>1, <3>1 DEF OnTime, Timely, Under, ClockOK
    <2> QED BY <2>2, <2>3
<1> QED BY <1>1, <1>5, <1>6, AnsweredUntimed, Untimed, CallTimed

\* What is returned was timely when it was signed and still is.
LEMMA ConfirmTimed == ASSUME IInv, Timed, NEW c \in Call, Confirm(c) PROVE Timed'
<1> DEFINE cap == call[c].cap
<1>1. call[c].pc = "confirm" /\ UNCHANGED <<now, authority>>
    BY DEF Confirm, rootState
<1>2. call[c].pc # "idle" /\ Timely(cap.epoch, cap.issued) BY <1>1 DEF Timed, OnTime
<1>3. log' = log \/ log' = Append(log, cap) BY DEF Confirm
<1>4. PICK k : k.pc \in {"record", "done"} /\ Go(c, k)
    <2>1. PICK l : l = [To(c, "record") EXCEPT !.seen = None] OBVIOUS
    <2>2. l.pc = "record" BY <1>2, <2>1, ToFields DEF ShapedCall
    <2>3. Go(c, l) \/ \E code : Go(c, Answered(c, code)) BY <2>1 DEF Confirm
    <2> QED BY <2>2, <2>3, AnsweredFields
<1>5. \A e, t : Timely(e, t)' <=> Timely(e, t) BY <1>1 DEF Timely, Under
<1>6. LogOK'
    <2>1. CASE log' = log BY <1>5, <2>1 DEF Timed, LogOK
    <2>2. CASE log' = Append(log, cap)
        <3>1. PICK S : log \in Seq(S) BY DEF Timed, LogOK
        <3>2. log' \in Seq(S \cup {cap})
            <4>1. log \in Seq(S \cup {cap}) BY <3>1
            <4> QED BY <2>2, <4>1
        <3>3. \A i \in DOMAIN log' :
                  (i \in DOMAIN log /\ log'[i] = log[i]) \/ log'[i] = cap
            BY <2>2, <3>1
        <3>4. \A i \in DOMAIN log' : Timely(log'[i].epoch, log'[i].issued)
            BY <1>2, <3>3 DEF Timed, LogOK
        <3> QED BY <1>5, <3>2, <3>4 DEF LogOK
    <2> QED BY <1>3, <2>1, <2>2
<1>7. call' = [call EXCEPT ![c] = k] /\ call = [d \in Call |-> call[d]]
    BY <1>4 DEF Go, IInv, CallsOK
<1>8. \A d \in Call : OnTime(call[d])'
    BY <1>1, <1>4, <1>5, <1>7 DEF Timed, OnTime
<1>9. ClockOK' BY <1>1 DEF Timed, ClockOK
<1> QED BY <1>6, <1>8, <1>9 DEF Timed

\* The other steps of a call leave the time alone.
Quiet(c) == UNCHANGED <<now, authority, log>> /\ \E k : Go(c, k) /\ k.pc \notin TimedPcs

LEMMA QuietTimed == ASSUME IInv, Timed, NEW c \in Call, Quiet(c) PROVE Timed'
BY Untimed DEF Quiet

LEMMA AdoptQuiet ==
    ASSUME IInv, NEW c \in Call, call[c].pc # "idle", NEW r
    PROVE  AdoptExisting(c, r).pc \notin TimedPcs
<1>1. PICK k : k = [To(c, "seal") EXCEPT !.rec = r] OBVIOUS
<1>2. k.pc = "seal" BY <1>1, ToFields DEF ShapedCall
<1> QED BY <1>1, <1>2, AnsweredUntimed DEF AdoptExisting, TimedPcs

LEMMA AfterQuiet ==
    ASSUME IInv, NEW c \in Call, call[c].pc # "idle"
    PROVE  /\ AfterPrepare(c).pc \notin TimedPcs /\ AfterTransition(c).pc \notin TimedPcs
           /\ Resolved(c).pc \notin TimedPcs
<1>1. AfterPrepare(c).pc \notin TimedPcs BY AdoptQuiet, AnsweredUntimed DEF AfterPrepare
<1>2. AfterTransition(c).pc \notin TimedPcs BY AnsweredUntimed DEF AfterTransition
<1>3. To(c, "seal").pc \notin TimedPcs BY ToFields DEF TimedPcs
<1> QED BY <1>1, <1>2, <1>3, AnsweredUntimed DEF Resolved

LEMMA CommitConfirmedQuiet ==
    ASSUME IInv, NEW c \in Call, CommitConfirmed(c) PROVE Quiet(c)
<1>1. /\ call[c].pc \in Ops /\ Go(c, Committed(c)) /\ UNCHANGED <<now, authority, log>>
    BY DEF CommitConfirmed, world, rootState
<1>2. call[c].pc # "idle" BY <1>1 DEF Ops
<1>3. PICK k : k = [To(c, "enqueue") EXCEPT !.rec = Written(Tx(c))] OBVIOUS
<1>4. k.pc = "enqueue" BY <1>2, <1>3, ToFields DEF ShapedCall
<1>5. To(c, "seal").pc = "seal" BY <1>2, ToFields
<1>6. Committed(c).pc \notin TimedPcs
    BY <1>1, <1>3, <1>4, <1>5, AnsweredUntimed DEF Committed, Ops, TimedPcs
<1> QED BY <1>1, <1>6 DEF Quiet

\* The steps that only read, refuse, give up or answer.
LEMMA AnswerQuiet ==
    ASSUME IInv, NEW c \in Call,
           \/ ReadDispatch(c) \/ OwnIntent(c) \/ RecordRecovery(c) \/ CommitRefused(c)
           \/ ReadBack(c) \/ Unavailable(c) \/ Crash(c)
    PROVE  Quiet(c)
<1>1. /\ UNCHANGED <<now, authority, log>> /\ call[c].pc # "idle"
    BY DEF ReadDispatch, OwnIntent, RecordRecovery, CommitRefused, ReadBack, Unavailable,
           Crash, CallOnly, world, rootState, Ops
<1>2. To(c, "resolve").pc \notin TimedPcs /\ To(c, "adopt").pc \notin TimedPcs
    BY <1>1, ToFields DEF TimedPcs
<1>3. \/ \E code : Go(c, Answered(c, code))
      \/ Go(c, To(c, "resolve")) \/ Go(c, To(c, "adopt"))
      \/ \E r : Go(c, AdoptExisting(c, r))
      \/ Go(c, AfterPrepare(c)) \/ Go(c, AfterTransition(c)) \/ Go(c, Resolved(c))
    <2>1. CASE ReadDispatch(c) BY <2>1 DEF ReadDispatch
    <2>2. CASE OwnIntent(c) BY <2>2 DEF OwnIntent
    <2>3. CASE RecordRecovery(c) BY <2>3 DEF RecordRecovery
    <2>4. CASE CommitRefused(c) BY <2>4 DEF CommitRefused, AfterConflict
    <2>5. CASE ReadBack(c) BY <2>5 DEF ReadBack
    <2>6. CASE Unavailable(c) BY <2>6 DEF Unavailable
    <2>7. CASE Crash(c) BY <2>7 DEF Crash
    <2> QED BY <2>1, <2>2, <2>3, <2>4, <2>5, <2>6, <2>7
<1> QED BY <1>1, <1>2, <1>3, AnsweredUntimed, AdoptQuiet, AfterQuiet DEF Quiet

\* The steps that bring the record or the task further.
LEMMA WorkQuiet ==
    ASSUME IInv, NEW c \in Call,
           \/ ReadRecovery(c) \/ RecordPromotion(c) \/ RecordCanary(c) \/ Seal(c)
           \/ Enqueue(c) \/ EnqueueReturns(c) \/ CommitLost(c)
    PROVE  Quiet(c)
<1>1. UNCHANGED <<now, authority, log>> /\ call[c].pc # "idle"
    BY DEF ReadRecovery, RecordPromotion, RecordCanary, Seal, Enqueue, EnqueueReturns,
           CommitLost, CallOnly, world, rootState, Ops
<1>2. ASSUME NEW pc, pc \notin TimedPcs
      PROVE  /\ To(c, pc).pc \notin TimedPcs
             /\ \A x, y, z, r :
                  /\ [To(c, pc) EXCEPT !.prep = x].pc \notin TimedPcs
                  /\ [To(c, pc) EXCEPT !.op = x].pc \notin TimedPcs
                  /\ [To(c, pc) EXCEPT !.rec = x].pc \notin TimedPcs
                  /\ [To(c, pc) EXCEPT !.cap = x, !.at = y].pc \notin TimedPcs
                  /\ [To(c, pc) EXCEPT !.rec = r, !.cap = x, !.prep = y, !.at = z].pc
                       \notin TimedPcs
    <2>1. PICK l : l = To(c, pc) OBVIOUS
    <2>2. ShapedCall(l) /\ l.pc = pc BY <1>1, <2>1, ToFields
    <2>3. \A x : /\ [l EXCEPT !.prep = x].pc = pc
                 /\ [l EXCEPT !.op = x].pc = pc
                 /\ [l EXCEPT !.rec = x].pc = pc
        BY <2>2 DEF ShapedCall
    <2>4. \A x, y : [l EXCEPT !.cap = x, !.at = y].pc = pc BY <2>2 DEF ShapedCall
    <2>5. \A x, y, z, r : [l EXCEPT !.rec = r, !.cap = x, !.prep = y, !.at = z].pc = pc
        BY <2>2 DEF ShapedCall
    <2> QED BY <1>2, <2>1, <2>2, <2>3, <2>4, <2>5
<1>3. {"inputs", "prepare", "await", "begin", "finish", "readback"} \cap TimedPcs = {}
    BY DEF TimedPcs
<1>4. CASE ReadRecovery(c)
    BY <1>1, <1>2, <1>3, <1>4, AnsweredUntimed DEF ReadRecovery, Quiet
<1>5. CASE RecordPromotion(c)
    BY <1>1, <1>2, <1>3, <1>5, AnsweredUntimed DEF RecordPromotion, Quiet
<1>6. CASE RecordCanary(c)
    BY <1>1, <1>2, <1>3, <1>6, AnsweredUntimed DEF RecordCanary, Quiet
<1>7. CASE Seal(c) BY <1>1, <1>2, <1>3, <1>7, AnsweredUntimed DEF Seal, Quiet
<1>8. CASE Enqueue(c) BY <1>1, <1>2, <1>3, <1>8 DEF Enqueue, Quiet
<1>9. CASE EnqueueReturns(c)
    <2>1. PICK d : Go(c, Dispatched(c, d)) BY <1>9 DEF EnqueueReturns
    <2>2. PICK l : l = To(c, "finish") OBVIOUS
    <2>3. [l EXCEPT !.rec = [@ EXCEPT !.state = d, !.rev = 2]].pc \notin TimedPcs
        <3>1. ShapedCall(l) /\ l.pc = "finish" BY <1>1, <2>2, ToFields
        <3> QED BY <3>1 DEF ShapedCall, TimedPcs
    <2>4. Dispatched(c, d).pc \notin TimedPcs BY <2>2, <2>3, AnsweredUntimed DEF Dispatched
    <2> QED BY <1>1, <2>1, <2>4 DEF Quiet
<1>10. CASE CommitLost(c) BY <1>1, <1>2, <1>3, <1>10 DEF CommitLost, Quiet
<1> QED BY <1>4, <1>5, <1>6, <1>7, <1>8, <1>9, <1>10

LEMMA TimedInvariance == IInv /\ Timed /\ [Next]_vars => Timed'
<1> SUFFICES ASSUME IInv, Timed, [Next]_vars PROVE Timed' OBVIOUS
<1>0. now \in Nat /\ now >= now BY DEF Timed, ClockOK
<1>1. ASSUME NEW c \in Call, CallStep(c) PROVE Timed'
    BY <1>1, ResolveTimed, IssueTimed, SignTimed, ConfirmTimed, ReadInputsTimed,
       ObserveTimed, AuthorizeTimed, AnswerQuiet, WorkQuiet, CommitConfirmedQuiet, QuietTimed
    DEF CallStep
<1>2. ASSUME NEW c \in Call, CallFault(c) PROVE Timed'
    <2>1. CASE CreateTaskTwice(c)
        BY <1>0, <2>1, Later DEF CreateTaskTwice, rootState
    <2>2. CASE ~CreateTaskTwice(c)
        BY <1>2, <2>2, AnswerQuiet, WorkQuiet, QuietTimed DEF CallFault
    <2> QED BY <2>1, <2>2
<1>3. ASSUME NEW c \in Call, NEW m \in Command, NEW par, Begin(c, m, par) PROVE Timed'
    BY <1>3, BeginTimed
<1>4. ASSUME NEW c \in Call, CreateTask(c) PROVE Timed'
    BY <1>0, <1>4, Later DEF CreateTask, rootState
<1>5. ASSUME NEW o \in late, LandLate(o) PROVE Timed'
    BY <1>0, <1>5, Later DEF LandLate, world, rootState
<1>6. ASSUME NEW t, NEW claim, AdvanceEpoch(t, claim) PROVE Timed'
    BY <1>0, <1>6, Later DEF AdvanceEpoch
<1>7. ASSUME NEW r, ReadProof(r) PROVE Timed' BY <1>0, <1>7, Later DEF ReadProof
<1>8. ASSUME NEW m, HealthTerminates(m) PROVE Timed'
    BY <1>0, <1>8, Later DEF HealthTerminates
<1>9. CASE Tick
    <2>1. now' \in Nat /\ now' >= now BY <1>0, <1>9 DEF Tick
    <2> QED BY <1>9, <2>1, Later DEF Tick, rootState
<1>10. CASE UNCHANGED vars BY <1>0, <1>10, Later DEF vars, rootState
<1> QED BY <1>1, <1>2, <1>3, <1>4, <1>5, <1>6, <1>7, <1>8, <1>9, <1>10 DEF Next

\* CapabilityIssuanceService reads its clock before the authority and refuses an
\* epoch that is newer, so a capability of the current epoch is not older than it.
THEOREM NeverOlderThanItsEpoch == Spec => []IssuedUnderItsEpoch
<1>1. Timed => IssuedUnderItsEpoch
    BY DEF Timed, LogOK, Timely, Under, IssuedUnderItsEpoch
<1> QED BY <1>1, InitInv, Invariance, InitTimed, TimedInvariance, PTL DEF Spec

-----------------------------------------------------------------------------
\* Claims with their digest are the same claims.

ClaimNames == {"action", "root", "epoch", "subject", "share", "concurrency", "etag", "req",
               "key", "issued", "nb", "exp", "parent", "id"}
IsClaims(c) == DOMAIN c = ClaimNames

SameClaims(c, k) ==
    /\ k.action = c.action /\ k.root = c.root /\ k.epoch = c.epoch
    /\ k.subject = c.subject /\ k.share = c.share /\ k.concurrency = c.concurrency
    /\ k.etag = c.etag /\ k.req = c.req /\ k.key = c.key
    /\ k.issued = c.issued /\ k.nb = c.nb /\ k.exp = c.exp
    /\ k.parent = c.parent /\ k.id = c.id

LEMMA DigestedSame ==
    ASSUME NEW c, IsClaims(c), NEW d
    PROVE  SameClaims(c, Digested(c, d)) /\ Digested(c, d).digest = d
BY DEF IsClaims, ClaimNames, SameClaims, Digested

LEMMA SameBindings ==
    ASSUME NEW c, NEW k, SameClaims(c, k)
    PROVE  /\ ScopeOf(k) = ScopeOf(c) /\ AnchorOf(k) = AnchorOf(c)
           /\ ClaimsMatchRoot(k) <=> ClaimsMatchRoot(c)
           /\ \A role : RouteAdmits(role, k) <=> RouteAdmits(role, c)
BY DEF SameClaims, ScopeOf, AnchorOf, ClaimsMatchRoot, RouteAdmits

\* What a child may not exceed.
LEMMA Attenuated ==
    ASSUME NEW p, NEW c, CheckAttenuation(ScopeOf(p), ScopeOf(c)) = "ALLOWED"
    PROVE  c.action = p.action /\ c.nb >= p.nb /\ c.exp <= p.exp
<1> DEFINE checks == Attenuation(ScopeOf(p), ScopeOf(c))
           failed == {i \in DOMAIN checks : ~checks[i][2]}
<1>1. DOMAIN checks = 1 .. 5 BY DEF Attenuation
<1>2. failed = {}
    <2>1. \A i \in DOMAIN checks : checks[i][1] # "ALLOWED" BY DEF Attenuation
    <2>2. failed # {} => Min(failed) \in failed
        <3> SUFFICES ASSUME failed # {} PROVE Min(failed) \in failed OBVIOUS
        <3>1. failed \in SUBSET (1 .. 5) BY <1>1
        <3>2. \E x \in failed : \A y \in failed : x <= y
            BY <3>1
        <3> QED BY <3>2 DEF Min
    <2> QED BY <2>1, <2>2 DEF CheckAttenuation
<1>3. checks[5][2] BY <1>1, <1>2
<1>4. /\ ScopeOf(c).actions \subseteq ScopeOf(p).actions
      /\ Within(ScopeOf(c).validity, ScopeOf(p).validity)
    BY <1>3 DEF Attenuation
<1> QED BY <1>4 DEF ScopeOf, Within, Bounds

-----------------------------------------------------------------------------
\* Lineages that are accepted at every second of their last capability.

\* One capability of a lineage.
Sane(k) ==
    /\ ClaimsMatchRoot(k) /\ k.action \in Actions
    /\ k.digest \in Nat \ {0}
    /\ k.issued \in Int /\ k.nb \in Int /\ k.exp \in Int
    /\ k.action = "APPLY_CANARY" => Len(k.id) = 7 /\ k.id[7] = k.parent

\* k is above n.
Above(k, n) ==
    k.action = n.action /\ k.digest < n.digest /\ k.nb <= n.nb /\ k.exp >= n.exp

\* k is directly above n.
Parent(k, n) ==
    /\ n.parent = k.digest /\ n.action = "APPLY_CANARY"
    /\ k.nb <= n.issued /\ n.issued < k.exp
    /\ CheckAttenuation(ScopeOf(k), ScopeOf(n)) = "ALLOWED"

Rooted(k) ==
    k.parent = 0 /\ CheckAttenuation(AnchorOf(k), ScopeOf(k)) = "ALLOWED"

Good(L) ==
    /\ \E S : L \in Seq(S)
    /\ Len(L) \in 1 .. MaxDepth
    /\ Rooted(L[1])
    /\ \A i \in 1 .. Len(L) : Sane(L[i])
    /\ \A i, j \in 1 .. Len(L) : i < j => Above(L[i], L[j])
    /\ \A i \in 2 .. Len(L) : Parent(L[i - 1], L[i])

LEMMA GoodFields ==
    ASSUME NEW L, Good(L)
    PROVE  L \in Seq(Range(L)) /\ DOMAIN L = 1 .. Len(L) /\ Len(L) \in Nat \ {0}
           /\ L # <<>> /\ Last(L) = L[Len(L)]
<1>1. PICK S : L \in Seq(S) BY DEF Good
<1>2. L \in Seq(Range(L)) BY <1>1 DEF Range
<1> QED BY <1>1, <1>2 DEF Good, Last

LEMMA AloneIsGood ==
    ASSUME NEW k, Sane(k), Rooted(k) PROVE Good(<<k>>)
<1>1. PICK L : L = <<k>> OBVIOUS
<1>2. L \in Seq({k}) /\ Len(L) = 1 /\ L[1] = k BY <1>1
<1>3. 1 \in 1 .. MaxDepth BY CapabilityConstants
<1>4. Good(L) BY <1>2, <1>3 DEF Good
<1> QED BY <1>1, <1>4

LEMMA AboveAll ==
    ASSUME NEW k, NEW m, NEW n, Sane(k), Sane(m), Sane(n), Above(k, m), Above(m, n)
    PROVE  Above(k, n)
BY DEF Above, Sane

LEMMA GoodExtends ==
    ASSUME NEW L, Good(L), NEW k, Sane(k), Parent(Last(L), k), k.digest > Last(L).digest,
           Len(L) < MaxDepth
    PROVE  Good(Append(L, k))
<1> DEFINE M == Append(L, k)
           n == Len(L)
<1>1. L \in Seq(Range(L)) /\ n \in Nat \ {0} /\ Last(L) = L[n] BY GoodFields DEF Good
<1>2. M \in Seq(Range(L) \cup {k}) /\ Len(M) = n + 1 /\ M[n + 1] = k
      /\ \A i \in 1 .. n : M[i] = L[i]
    <2>1. L \in Seq(Range(L) \cup {k}) BY <1>1
    <2> QED BY <1>1, <2>1
<1> HIDE DEF M
<1>3. Len(M) \in 1 .. MaxDepth BY <1>1, <1>2, CapabilityConstants
<1>4. Rooted(M[1]) BY <1>1, <1>2 DEF Good
<1>5. \A i \in 1 .. Len(M) : Sane(M[i]) BY <1>1, <1>2 DEF Good
<1>6. \A i \in 2 .. Len(M) : Parent(M[i - 1], M[i])
    <2> SUFFICES ASSUME NEW i \in 2 .. Len(M) PROVE Parent(M[i - 1], M[i]) OBVIOUS
    <2>1. CASE i = n + 1 BY <1>1, <1>2, <2>1
    <2>2. CASE i # n + 1
        <3>1. i \in 2 .. n /\ i \in 1 .. n /\ i - 1 \in 1 .. n BY <1>1, <1>2, <2>2
        <3> QED BY <1>2, <3>1 DEF Good
    <2> QED BY <2>1, <2>2
<1>7. \A i \in 1 .. n : Above(L[i], k)
    <2> SUFFICES ASSUME NEW i \in 1 .. n PROVE Above(L[i], k) OBVIOUS
    <2>1. Above(L[n], k)
        <3>1. k.action = L[n].action /\ k.nb >= L[n].nb /\ k.exp <= L[n].exp
            BY <1>1, Attenuated DEF Parent
        <3>2. Sane(L[n]) BY <1>1 DEF Good
        <3> QED BY <1>1, <3>1, <3>2 DEF Above, Sane
    <2>2. CASE i < n
        <3>1. n \in 1 .. n BY <1>1
        <3>2. Above(L[i], L[n]) /\ Sane(L[i]) /\ Sane(L[n])
            BY <2>2, <3>1 DEF Good
        <3> QED BY <2>1, <3>2, AboveAll
    <2> QED BY <1>1, <2>1, <2>2
<1>8. \A i, j \in 1 .. Len(M) : i < j => Above(M[i], M[j])
    <2> SUFFICES ASSUME NEW i \in 1 .. Len(M), NEW j \in 1 .. Len(M), i < j
                 PROVE  Above(M[i], M[j])
        OBVIOUS
    <2>1. i \in 1 .. n BY <1>1, <1>2
    <2>2. CASE j = n + 1 BY <1>2, <1>7, <2>1, <2>2
    <2>3. CASE j # n + 1
        <3>1. j \in 1 .. n BY <1>1, <1>2, <2>3
        <3> QED BY <1>2, <2>1, <3>1 DEF Good
    <2> QED BY <2>2, <2>3
<1>9. \E S : M \in Seq(S) BY <1>2
<1>10. Good(M) BY <1>3, <1>4, <1>5, <1>6, <1>8, <1>9 DEF Good
<1> QED BY <1>10 DEF M

\* Distinct along a lineage.
LEMMA CountDistinct ==
    ASSUME NEW n \in Nat, NEW f, f = [i \in 1 .. n |-> f[i]],
           \A i, j \in 1 .. n : i < j => f[i] # f[j]
    PROVE  Cardinality({f[i] : i \in 1 .. n}) = n
<1> DEFINE S == {f[i] : i \in 1 .. n}
<1>1. f \in [1 .. n -> S] BY SMT
<1>2. \A i, j \in 1 .. n : f[i] = f[j] => i = j
    <2> SUFFICES ASSUME NEW i \in 1 .. n, NEW j \in 1 .. n, f[i] = f[j] PROVE i = j
        OBVIOUS
    <2>1. ~(i < j) /\ ~(j < i) OBVIOUS
    <2> QED BY <2>1
<1>3. \A y \in S : \E i \in 1 .. n : f[i] = y OBVIOUS
<1>4. f \in Bijection(1 .. n, S)
    BY <1>1, <1>2, <1>3 DEF Bijection, Injection, Surjection, IsInjective
<1>5. ExistsBijection(1 .. n, S) BY <1>4 DEF ExistsBijection
<1> QED BY <1>5, FS_CountingElements

LEMMA GoodIds ==
    ASSUME NEW L, Good(L)
    PROVE  /\ Cardinality({L[i].id : i \in DOMAIN L}) = Len(L)
           /\ Cardinality({L[i].digest : i \in DOMAIN L}) = Len(L)
<1>1. DOMAIN L = 1 .. Len(L) /\ Len(L) \in Nat BY GoodFields
<1>2. ASSUME NEW i \in 1 .. Len(L), NEW j \in 1 .. Len(L), i < j
      PROVE  L[i].digest # L[j].digest /\ L[i].id # L[j].id
    <2>1. Above(L[i], L[j]) /\ Sane(L[i]) /\ Sane(L[j]) BY <1>2 DEF Good
    <2>2. L[i].digest # L[j].digest BY <2>1 DEF Above, Sane
    <2>3. j \in 2 .. Len(L) /\ j - 1 \in 1 .. Len(L) BY <1>1, <1>2
    <2>4. Parent(L[j - 1], L[j]) BY <2>3 DEF Good
    <2>5. L[i].action = "APPLY_CANARY" /\ L[j].action = "APPLY_CANARY"
        BY <2>1, <2>4 DEF Above, Parent
    <2>6. L[i].id[7] = L[i].parent /\ L[j].id[7] = L[j].parent BY <2>1, <2>5 DEF Sane
    <2>7. L[j].parent = L[j - 1].digest BY <2>4 DEF Parent
    <2>8. L[i].parent # L[j].parent
        <3>1. Sane(L[j - 1]) BY <2>3 DEF Good
        <3>2. CASE i = 1 BY <2>7, <3>1, <3>2 DEF Good, Rooted, Sane
        <3>3. CASE i # 1
            <4>1. i \in 2 .. Len(L) /\ i - 1 \in 1 .. Len(L) /\ i - 1 < j - 1
                BY <1>1, <1>2, <3>3
            <4>2. L[i].parent = L[i - 1].digest BY <4>1 DEF Good, Parent
            <4>3. Above(L[i - 1], L[j - 1]) /\ Sane(L[i - 1]) BY <2>3, <4>1 DEF Good
            <4> QED BY <2>7, <3>1, <4>2, <4>3 DEF Above, Sane
        <3> QED BY <3>2, <3>3
    <2> QED BY <2>2, <2>6, <2>8
<1>3. Cardinality({L[i].id : i \in 1 .. Len(L)}) = Len(L)
    <2> DEFINE f == [i \in 1 .. Len(L) |-> L[i].id]
    <2>1. f = [i \in 1 .. Len(L) |-> f[i]] /\ \A i \in 1 .. Len(L) : f[i] = L[i].id
        OBVIOUS
    <2> HIDE DEF f
    <2>2. Cardinality({f[i] : i \in 1 .. Len(L)}) = Len(L)
        BY <1>1, <1>2, <2>1, CountDistinct
    <2>3. {f[i] : i \in 1 .. Len(L)} = {L[i].id : i \in 1 .. Len(L)} BY <2>1
    <2> QED BY <2>2, <2>3
<1>4. Cardinality({L[i].digest : i \in 1 .. Len(L)}) = Len(L)
    <2> DEFINE f == [i \in 1 .. Len(L) |-> L[i].digest]
    <2>1. f = [i \in 1 .. Len(L) |-> f[i]] /\ \A i \in 1 .. Len(L) : f[i] = L[i].digest
        OBVIOUS
    <2> HIDE DEF f
    <2>2. Cardinality({f[i] : i \in 1 .. Len(L)}) = Len(L)
        BY <1>1, <1>2, <2>1, CountDistinct
    <2>3. {f[i] : i \in 1 .. Len(L)} = {L[i].digest : i \in 1 .. Len(L)} BY <2>1
    <2> QED BY <2>2, <2>3
<1> QED BY <1>1, <1>3, <1>4

LEMMA GoodIsOneChain ==
    ASSUME NEW L, Good(L)
    PROVE  ValidateLineage(AnchorOf(L[1]), Grants(L)) = "ALLOWED"
<1> DEFINE G == Grants(L)
           above(i) == IF i = 1 THEN [digest |-> 0, scope |-> AnchorOf(L[1])] ELSE G[i - 1]
<1>1. /\ L \in Seq(Range(L)) /\ DOMAIN L = 1 .. Len(L) /\ Len(L) \in 1 .. MaxDepth
      /\ Len(L) \in Nat
    BY GoodFields DEF Good
<1>2. /\ G = [i \in 1 .. Len(L) |-> G[i]] /\ DOMAIN G = 1 .. Len(L)
      /\ \A i \in 1 .. Len(L) : /\ G[i].digest = L[i].digest /\ G[i].parent = L[i].parent
                                /\ G[i].scope = ScopeOf(L[i])
    BY <1>1 DEF Grants
<1> HIDE DEF G
<1>3. Len(G) = Len(L) /\ G # <<>>
    <2>1. G \in Seq(Range(G)) /\ Len(G) = Len(L) BY <1>1, <1>2 DEF Range
    <2> QED BY <1>1, <2>1
<1>4. {G[i].digest : i \in DOMAIN G} = {L[i].digest : i \in DOMAIN L} BY <1>1, <1>2
<1>5. Len(G) = Cardinality({G[i].digest : i \in DOMAIN G}) BY <1>3, <1>4, GoodIds
<1>6. ASSUME NEW i \in 1 .. Len(L)
      PROVE  /\ G[i].parent = above(i).digest
             /\ CheckAttenuation(above(i).scope, G[i].scope) = "ALLOWED"
             /\ G[i].parent \in {G[j].digest : j \in DOMAIN G} \cup {0}
    <2>1. CASE i = 1 BY <1>2, <2>1 DEF Good, Rooted
    <2>2. CASE i # 1
        <3>1. i \in 2 .. Len(L) /\ i - 1 \in 1 .. Len(L) BY <1>1, <2>2
        <3>2. above(i) = G[i - 1] BY <2>2
        <3>3. Parent(L[i - 1], L[i]) BY <3>1 DEF Good
        <3> QED BY <1>2, <3>1, <3>2, <3>3 DEF Parent
    <2> QED BY <2>1, <2>2
<1>7. \A i \in DOMAIN G : G[i].parent \in {G[j].digest : j \in DOMAIN G} \cup {0}
    BY <1>2, <1>6
<1>8. /\ {i \in DOMAIN G : G[i].parent # above(i).digest} = {}
      /\ {i \in DOMAIN G : CheckAttenuation(above(i).scope, G[i].scope) # "ALLOWED"} = {}
    BY <1>2, <1>6
<1>9. ~(Len(G) > MaxDepth) BY <1>1, <1>3, CapabilityConstants
<1>10. ValidateLineage(AnchorOf(L[1]), G) = "ALLOWED"
    BY <1>3, <1>5, <1>7, <1>8, <1>9 DEF ValidateLineage
<1> QED BY <1>10 DEF G

LEMMA SaneRoute ==
    ASSUME NEW k, Sane(k) PROVE RouteAdmits(RouteFor(k.action), k)
BY DEF Sane, ClaimsMatchRoot, RootActionGrant, RouteAdmits, RouteFor, VerifierOf, Actions

\* _validate_lineage of the verifiers.
LEMMA GoodIsAccepted ==
    ASSUME NEW L, Good(L), NEW at \in Int, Last(L).nb <= at, at < Last(L).exp
    PROVE  LineageDenial(RouteFor(Last(L).action), L, at) = "ALLOWED"
<1> DEFINE role == RouteFor(Last(L).action)
           n == Len(L)
<1>1. /\ DOMAIN L = 1 .. n /\ n \in Nat \ {0} /\ n \in 1 .. MaxDepth /\ L # <<>>
      /\ Last(L) = L[n]
    BY GoodFields DEF Good
<1>n. n \in Nat \ {0} BY <1>1
<1>2. ASSUME NEW i \in 1 .. n
      PROVE  /\ Sane(L[i]) /\ RouteAdmits(role, L[i])
             /\ L[i].issued >= Root.approved /\ L[i].nb <= at /\ at < L[i].exp
    <2>1. Sane(L[i]) /\ Sane(L[n]) BY <1>1 DEF Good
    <2>2. i # n => Above(L[i], L[n])
        <3>1. n \in 1 .. n /\ (i # n => i < n) BY <1>n
        <3> QED BY <3>1 DEF Good
    <2>3. L[i].action = L[n].action /\ L[i].nb <= at /\ at < L[i].exp
        BY <1>1, <2>1, <2>2 DEF Above, Sane
    <2>4. RouteAdmits(role, L[i]) BY <1>1, <2>1, <2>3, SaneRoute
    <2>5. L[i].issued >= Root.approved BY <2>1 DEF Sane, ClaimsMatchRoot
    <2> QED BY <2>1, <2>3, <2>4, <2>5
<1>3. ASSUME NEW i \in 1 .. n
      PROVE  ClaimsMatchRoot(L[i]) /\ ~(at < L[i].nb) /\ ~(at >= L[i].exp)
             /\ ~(L[i].issued < Root.approved)
    BY <1>2, CapabilityConstants DEF Sane
<1>4. \A i \in 2 .. n : HopValid(L, i) BY DEF Good, Parent, HopValid
<1>5. ~(n > MaxDepth) BY <1>1, CapabilityConstants
<1>6. Cardinality({L[i].id : i \in DOMAIN L}) = n BY GoodIds
<1> HIDE DEF role
<1>7. LineageDenial(role, L, at) = "ALLOWED"
    BY <1>1, <1>2, <1>3, <1>4, <1>5, <1>6, GoodIsOneChain DEF LineageDenial
<1> QED BY <1>7 DEF role

-----------------------------------------------------------------------------
\* The log of signed capabilities grows, and its lineages stay what they are.

Unfolded(l, g) ==
    g = [i \in 0 .. Len(l) |-> IF i = 0 THEN <<>> ELSE Append(g[l[i].parent], SignedAt(l, i))]

LEMMA LineageUnfolds ==
    ASSUME NEW l, NEW g, Unfolded(l, g) PROVE Unfolded(l, Lineage(l))
BY DEF Unfolded, Lineage

LineageOK(l) ==
    /\ \E S : l \in Seq(S)
    /\ Unfolded(l, Lineage(l))
    /\ \A i \in 1 .. Len(l) : IsClaims(l[i]) /\ l[i].parent \in 0 .. i - 1
    /\ \A i \in 1 .. Len(l) : Good(Lineage(l)[i])

LEMMA UnfoldsAt ==
    ASSUME NEW l, NEW g, Unfolded(l, g), NEW i \in 0 .. Len(l)
    PROVE  g[i] = IF i = 0 THEN <<>> ELSE Append(g[l[i].parent], SignedAt(l, i))
<1>1. PICK f : f = [j \in 0 .. Len(l) |->
                      IF j = 0 THEN <<>> ELSE Append(g[l[j].parent], SignedAt(l, j))]
    OBVIOUS
<1>2. f[i] = IF i = 0 THEN <<>> ELSE Append(g[l[i].parent], SignedAt(l, i)) BY <1>1
<1>3. g = f BY <1>1 DEF Unfolded
<1> QED BY <1>2, <1>3

\* A set of numbers has a least one.
LEMMA LeastIn ==
    ASSUME NEW T, T \subseteq Nat, T # {}
    PROVE  \E x \in T : \A y \in T : ~(y < x)
<1> DEFINE R == OpToRel(<, Nat)
<1>1. IsWellFoundedOn(R, Nat) BY NatLessThanWellFounded
<1>2. \A x, y \in Nat : <<y, x>> \in R <=> y < x BY DEF OpToRel
<1> HIDE DEF R
<1>3. \E x \in T : \A y \in T : ~(<<y, x>> \in R) BY <1>1, WFMin
<1> QED BY <1>2, <1>3

\* The unfolding of two logs agrees where they agree.
LEMMA LineageAgrees ==
    ASSUME NEW l, NEW m, NEW g, NEW h, Unfolded(l, g), Unfolded(m, h),
           NEW n \in Nat, n <= Len(l), n <= Len(m), Len(l) \in Nat, Len(m) \in Nat,
           \A i \in 1 .. n : m[i] = l[i] /\ l[i].parent \in 0 .. i - 1
    PROVE  \A i \in 0 .. n : g[i] = h[i]
<1> DEFINE T == {i \in 0 .. n : g[i] # h[i]}
<1>1. CASE T = {}
    <2>1. \A i \in 0 .. n : ~(g[i] # h[i]) BY <1>1
    <2> QED BY <2>1
<1>2. CASE T # {}
    <2>0. T \subseteq Nat /\ \A i : i \in T <=> i \in 0 .. n /\ g[i] # h[i] OBVIOUS
    <2> HIDE DEF T
    <2>1. PICK i \in T : \A j \in T : ~(j < i) BY <1>2, <2>0, LeastIn
    <2>2. i \in Nat /\ i <= n /\ g[i] # h[i] BY <2>0, <2>1
    <2>3. \A j \in 0 .. i - 1 : g[j] = h[j]
        <3> SUFFICES ASSUME NEW j \in 0 .. i - 1, g[j] # h[j] PROVE FALSE OBVIOUS
        <3>1. j \in 0 .. n /\ j \in Nat /\ j < i BY <2>2
        <3>2. j \in T BY <2>0, <3>1
        <3> QED BY <2>1, <3>1, <3>2
    <2>4. /\ i \in 0 .. Len(l) /\ i \in 0 .. Len(m)
          /\ g[i] = IF i = 0 THEN <<>> ELSE Append(g[l[i].parent], SignedAt(l, i))
          /\ h[i] = IF i = 0 THEN <<>> ELSE Append(h[m[i].parent], SignedAt(m, i))
        <3>1. i \in 0 .. Len(l) /\ i \in 0 .. Len(m) BY <2>2
        <3> QED BY <3>1, UnfoldsAt
    <2>5. CASE i = 0 BY <2>2, <2>4, <2>5
    <2>6. CASE i # 0
        <3>1. m[i] = l[i] /\ l[i].parent \in 0 .. i - 1 BY <2>2, <2>6
        <3>2. SignedAt(m, i) = SignedAt(l, i) BY <3>1 DEF SignedAt
        <3>3. g[l[i].parent] = h[m[i].parent] BY <2>3, <3>1
        <3> QED BY <2>2, <2>4, <2>6, <3>2, <3>3
    <2> QED BY <2>5, <2>6
<1> QED BY <1>1, <1>2

\* What a capability needs that the issuer is about to return.
Worthy(l, c) ==
    /\ IsClaims(c) /\ c.parent \in 0 .. Len(l)
    /\ \A d \in Nat : d > Len(l) => Good(Append(Lineage(l)[c.parent], Digested(c, d)))

LEMMA AppendFacts ==
    ASSUME NEW l, NEW S, l \in Seq(S), NEW c
    PROVE  LET m == Append(l, c) IN
           /\ m \in Seq(S \cup {c}) /\ Len(m) = Len(l) + 1 /\ Len(l) \in Nat
           /\ m[Len(l) + 1] = c /\ \A i \in 1 .. Len(l) : m[i] = l[i]
<1>1. l \in Seq(S \cup {c}) OBVIOUS
<1> QED BY <1>1

\* Append(l, c) unfolds as l does and ends with the capability.
LEMMA LineageGrows ==
    ASSUME NEW l, LineageOK(l), NEW c, c.parent \in 0 .. Len(l)
    PROVE  LET m == Append(l, c) IN
           /\ Unfolded(m, Lineage(m))
           /\ \A i \in 0 .. Len(l) : Lineage(m)[i] = Lineage(l)[i]
           /\ Lineage(m)[Len(l) + 1]
                = Append(Lineage(l)[c.parent], Digested(c, Len(l) + 1))
<1> DEFINE m == Append(l, c)
           n == Len(l)
           g == Lineage(l)
           h == [i \in 0 .. n + 1 |-> IF i \in 0 .. n THEN g[i]
                                      ELSE Append(g[c.parent], Digested(c, n + 1))]
<1>1. PICK S : l \in Seq(S) BY DEF LineageOK
<1>2. /\ Len(m) = n + 1 /\ n \in Nat /\ m[n + 1] = c /\ \A i \in 1 .. n : m[i] = l[i]
    BY <1>1, AppendFacts
<1>3. /\ Unfolded(l, g) /\ \A i \in 1 .. n : l[i].parent \in 0 .. i - 1
    BY DEF LineageOK
<1> HIDE DEF m, g
<1>4. Unfolded(m, h)
    <2>1. ASSUME NEW i \in 0 .. n + 1
          PROVE  h[i] = IF i = 0 THEN <<>> ELSE Append(h[m[i].parent], SignedAt(m, i))
        <3>1. CASE i = 0
            <4>1. g[0] = <<>> BY <1>2, <1>3, UnfoldsAt
            <4> QED BY <1>2, <3>1, <4>1
        <3>2. CASE i \in 1 .. n
            <4>1. g[i] = Append(g[l[i].parent], SignedAt(l, i))
                <5>1. i \in 0 .. Len(l) /\ i # 0 BY <1>2, <3>2
                <5> QED BY <1>3, <5>1, UnfoldsAt
            <4>2. l[i].parent \in 0 .. n /\ l[i].parent \in 0 .. n + 1 BY <1>2, <1>3, <3>2
            <4>3. SignedAt(m, i) = SignedAt(l, i) /\ m[i] = l[i]
                BY <1>2, <3>2 DEF SignedAt
            <4>4. h[m[i].parent] = g[l[i].parent] BY <4>2, <4>3
            <4>5. h[i] = g[i] /\ i # 0 BY <1>2, <3>2
            <4> QED BY <4>1, <4>3, <4>4, <4>5
        <3>3. CASE i = n + 1
            <4>1. SignedAt(m, i) = Digested(c, n + 1) BY <1>2, <3>3 DEF SignedAt
            <4>2. c.parent \in 0 .. n + 1 /\ h[c.parent] = g[c.parent] BY <1>2
            <4> QED BY <1>2, <3>3, <4>1, <4>2
        <3> QED BY <1>2, <3>1, <3>2, <3>3
    <2>2. h = [i \in 0 .. n + 1 |->
                 IF i = 0 THEN <<>> ELSE Append(h[m[i].parent], SignedAt(m, i))]
        BY <2>1
    <2> QED BY <1>2, <2>2 DEF Unfolded
<1>5. h[n + 1] = Append(g[c.parent], Digested(c, n + 1)) /\ \A i \in 0 .. n : h[i] = g[i]
    BY <1>2
<1> HIDE DEF h
<1>6. Unfolded(m, Lineage(m)) BY <1>4, LineageUnfolds
<1>7. \A i \in 0 .. n + 1 : Lineage(m)[i] = h[i]
    <2>1. \A i \in 1 .. n + 1 : m[i] = m[i] /\ m[i].parent \in 0 .. i - 1
        <3> SUFFICES ASSUME NEW i \in 1 .. n + 1 PROVE m[i].parent \in 0 .. i - 1 OBVIOUS
        <3>1. CASE i = n + 1 BY <1>2, <3>1
        <3>2. CASE i # n + 1
            <4>1. i \in 1 .. n BY <1>2, <3>2
            <4> QED BY <1>2, <1>3, <4>1
        <3> QED BY <3>1, <3>2
    <2>2. n + 1 \in Nat /\ n + 1 <= Len(m) /\ Len(m) \in Nat BY <1>2
    <2> QED BY <1>4, <1>6, <2>1, <2>2, LineageAgrees
<1>8. /\ \A i \in 0 .. n : Lineage(m)[i] = g[i]
      /\ Lineage(m)[n + 1] = Append(g[c.parent], Digested(c, n + 1))
    BY <1>2, <1>5, <1>7
<1> QED BY <1>6, <1>8 DEF m, g

LEMMA LineageOKGrows ==
    ASSUME NEW l, LineageOK(l), NEW c, Worthy(l, c)
    PROVE  LineageOK(Append(l, c))
<1> DEFINE m == Append(l, c)
           n == Len(l)
<1>1. PICK S : l \in Seq(S) BY DEF LineageOK
<1>2. /\ m \in Seq(S \cup {c}) /\ Len(m) = n + 1 /\ n \in Nat /\ m[n + 1] = c
      /\ \A i \in 1 .. n : m[i] = l[i]
    BY <1>1, AppendFacts
<1>3. /\ Unfolded(m, Lineage(m)) /\ \A i \in 0 .. n : Lineage(m)[i] = Lineage(l)[i]
      /\ Lineage(m)[n + 1] = Append(Lineage(l)[c.parent], Digested(c, n + 1))
    BY LineageGrows DEF Worthy
<1> HIDE DEF m
<1>4. ASSUME NEW i \in 1 .. n + 1
      PROVE  IsClaims(m[i]) /\ m[i].parent \in 0 .. i - 1 /\ Good(Lineage(m)[i])
    <2>1. CASE i = n + 1
        <3>1. n + 1 \in Nat /\ n + 1 > n BY <1>2
        <3>2. Good(Lineage(m)[n + 1]) BY <1>3, <3>1 DEF Worthy
        <3> QED BY <1>2, <2>1, <3>2 DEF Worthy
    <2>2. CASE i # n + 1
        <3>1. i \in 1 .. n /\ i \in 0 .. n BY <1>2, <2>2
        <3> QED BY <1>2, <1>3, <3>1 DEF LineageOK
    <2> QED BY <2>1, <2>2
<1>5. LineageOK(m) BY <1>2, <1>3, <1>4 DEF LineageOK
<1> QED BY <1>5 DEF m

LEMMA StaysWorthy ==
    ASSUME NEW l, LineageOK(l), NEW c, c.parent \in 0 .. Len(l), NEW k, Worthy(l, k)
    PROVE  Worthy(Append(l, c), k)
<1>1. PICK S : l \in Seq(S) BY DEF LineageOK
<1>2. Len(Append(l, c)) = Len(l) + 1 /\ Len(l) \in Nat BY <1>1, AppendFacts
<1>3. \A i \in 0 .. Len(l) : Lineage(Append(l, c))[i] = Lineage(l)[i] BY LineageGrows
<1>4. k.parent \in 0 .. Len(l) /\ k.parent \in 0 .. Len(l) + 1 BY <1>2 DEF Worthy
<1>5. Lineage(Append(l, c))[k.parent] = Lineage(l)[k.parent] BY <1>3, <1>4
<1>6. ASSUME NEW d \in Nat, d > Len(l) + 1
      PROVE  Good(Append(Lineage(l)[k.parent], Digested(k, d)))
    <2>1. d > Len(l) BY <1>2, <1>6
    <2> QED BY <2>1 DEF Worthy
<1> QED BY <1>2, <1>4, <1>5, <1>6 DEF Worthy

-----------------------------------------------------------------------------
\* What _issue_trusted lets through completes a lineage.

LEMMA LeastOf ==
    ASSUME NEW T, T \subseteq Nat, T # {} PROVE Min(T) \in T
<1>1. PICK x \in T : \A y \in T : ~(y < x) BY LeastIn
<1>2. \A y \in T : x <= y BY <1>1
<1>3. \E z \in T : \A y \in T : z <= y BY <1>2
<1> QED BY <1>3 DEF Min

LEMMA OneChain ==
    ASSUME NEW anchor, NEW G, NEW n \in Nat, DOMAIN G = 1 .. n,
           ValidateLineage(anchor, G) = "ALLOWED"
    PROVE  LET above(i) == IF i = 1 THEN [digest |-> 0, scope |-> anchor] ELSE G[i - 1] IN
           \A i \in 1 .. n : /\ G[i].parent = above(i).digest
                             /\ CheckAttenuation(above(i).scope, G[i].scope) = "ALLOWED"
<1> DEFINE above(i) == IF i = 1 THEN [digest |-> 0, scope |-> anchor] ELSE G[i - 1]
           wrong == {i \in DOMAIN G : G[i].parent # above(i).digest}
           wide == {i \in DOMAIN G :
                      CheckAttenuation(above(i).scope, G[i].scope) # "ALLOWED"}
<1>1. wrong \subseteq Nat /\ wide \subseteq Nat
    <2>1. 1 .. n \subseteq Nat OBVIOUS
    <2> QED BY <2>1
<1>2. wrong \cup wide = {} \/ Min(wrong \cup wide) \notin wrong
    BY DEF ValidateLineage
<1>3. wrong \cup wide = {} \/ CheckAttenuation(above(Min(wide)).scope, G[Min(wide)].scope)
                                = "ALLOWED"
    BY <1>2 DEF ValidateLineage
<1>4. wide # {} => Min(wide) \in wide
    <2> HIDE DEF wide
    <2> QED BY <1>1, LeastOf
<1>5. wrong \cup wide # {} => Min(wrong \cup wide) \in wrong \cup wide
    <2> HIDE DEF wide, wrong
    <2>1. wrong \cup wide \subseteq Nat BY <1>1
    <2> QED BY <2>1, LeastOf
<1>6. wrong \cup wide = {} BY <1>2, <1>3, <1>4, <1>5
<1> QED BY <1>6

LEMMA AncestorsAreGood ==
    ASSUME NEW l, LineageOK(l), NEW p, ResolveLineage(l, p) # <<>>
    PROVE  LET line == ResolveLineage(l, p) IN
           /\ p \in 1 .. Len(l) /\ line = Lineage(l)[p] /\ Good(line)
           /\ Last(line).digest = p /\ SameClaims(l[p], Last(line))
<1> DEFINE line == ResolveLineage(l, p)
<1>1. PICK S : l \in Seq(S) BY DEF LineageOK
<1>2. p \in 1 .. Len(l) /\ line = Lineage(l)[p]
    BY <1>1 DEF ResolveLineage
<1>3. Good(line) BY <1>2 DEF LineageOK
<1>4. line = Append(Lineage(l)[l[p].parent], Digested(l[p], p))
    <2>1. p \in 0 .. Len(l) /\ p # 0 BY <1>1, <1>2
    <2> QED BY <1>2, <2>1, UnfoldsAt DEF LineageOK, SignedAt
<1>5. l[p].parent \in 0 .. p - 1 BY <1>2 DEF LineageOK
<1>6. Lineage(l)[l[p].parent] = <<>> \/ Good(Lineage(l)[l[p].parent])
    <2>1. CASE l[p].parent = 0
        <3>1. 0 \in 0 .. Len(l) BY <1>1
        <3> QED BY <2>1, <3>1, UnfoldsAt DEF LineageOK
    <2>2. CASE l[p].parent # 0
        <3>1. l[p].parent \in 1 .. Len(l) BY <1>1, <1>2, <1>5, <2>2
        <3> QED BY <3>1 DEF LineageOK
    <2> QED BY <2>1, <2>2
<1>7. Last(line) = Digested(l[p], p)
    <2>1. PICK L : L = Lineage(l)[l[p].parent] OBVIOUS
    <2>2. \E T : L \in Seq(T)
        <3>1. CASE L = <<>>
            <4>1. L \in Seq({}) BY <3>1
            <4> QED BY <4>1
        <3>2. CASE Good(L) BY <3>2 DEF Good
        <3> QED BY <1>6, <2>1, <3>1, <3>2
    <2> HIDE DEF line
    <2> QED BY <1>4, <2>1, <2>2 DEF Last
<1>8. IsClaims(l[p]) BY <1>2 DEF LineageOK
<1> QED BY <1>2, <1>3, <1>7, <1>8, DigestedSame

\* Claims as _build_claims makes them.
Built(c) ==
    /\ IsClaims(c) /\ c.action \in Actions
    /\ c.issued \in Int /\ c.nb \in Int /\ c.exp \in Int
    /\ c.action = "APPLY_CANARY" => Len(c.id) = 7 /\ c.id[7] = c.parent
    /\ c.action # "APPLY_CANARY" => c.parent = 0

LEMMA BuiltSane ==
    ASSUME NEW c, Built(c), ClaimsMatchRoot(c), NEW d \in Nat, d > 0
    PROVE  Sane(Digested(c, d))
<1>1. SameClaims(c, Digested(c, d)) /\ Digested(c, d).digest = d
    BY DigestedSame DEF Built
<1>2. ClaimsMatchRoot(Digested(c, d)) BY <1>1, SameBindings
<1> QED BY <1>1, <1>2 DEF Built, Sane, SameClaims

LEMMA IssuedIsWorthy ==
    ASSUME NEW l, LineageOK(l), NEW p, NEW line, line = ResolveLineage(l, p),
           NEW c, Built(c), LineageFits(line), IssueTrusted(l, line, c),
           c.action = "APPLY_CANARY" /\ line # <<>> =>
             Last(line).nb <= c.issued /\ c.issued < Last(line).exp
    PROVE  Worthy(l, c) /\ ClaimsMatchRoot(c)
<1> DEFINE n == Len(l)
           k == Digested(c, n + 1)
           M == Append(line, k)
           G == Grants(M)
<1>1. PICK S : l \in Seq(S) BY DEF LineageOK
<1>2. n \in Nat /\ Lineage(l)[0] = <<>>
    <2>1. 0 \in 0 .. Len(l) BY <1>1
    <2> QED BY <1>1, <2>1, UnfoldsAt DEF LineageOK
<1>3. IsClaims(c) BY DEF Built
<1>4. PICK T : line \in Seq(T)
    <2>1. CASE line = <<>> BY <2>1
    <2>2. CASE line # <<>> BY <2>2, AncestorsAreGood, GoodFields
    <2> QED BY <2>1, <2>2
<1>5. /\ M \in Seq(T \cup {k}) /\ Len(M) = Len(line) + 1 /\ Len(line) \in Nat
      /\ M[Len(line) + 1] = k /\ \A i \in 1 .. Len(line) : M[i] = line[i]
    BY <1>4, AppendFacts
<1>6. CompleteLineage(M) BY DEF IssueTrusted
<1>7. SameClaims(c, k) /\ k.digest = n + 1 BY <1>3, DigestedSame
<1> HIDE DEF k, M
<1>8. DOMAIN M = 1 .. Len(line) + 1 BY <1>5
<1>9. ClaimsMatchRoot(c)
    <2>1. ClaimsMatchRoot(k) BY <1>5, <1>6, <1>8 DEF CompleteLineage
    <2> QED BY <1>7, <2>1, SameBindings
<1>10. /\ DOMAIN G = 1 .. Len(line) + 1
       /\ \A i \in 1 .. Len(line) + 1 :
            /\ G[i].digest = M[i].digest /\ G[i].parent = M[i].parent
            /\ G[i].scope = ScopeOf(M[i])
    BY <1>8 DEF Grants
<1>11. ValidateLineage(AnchorOf(M[1]), G) = "ALLOWED" BY <1>6 DEF CompleteLineage
<1> HIDE DEF G
<1> DEFINE above(i) == IF i = 1 THEN [digest |-> 0, scope |-> AnchorOf(M[1])] ELSE G[i - 1]
<1>12. \A i \in 1 .. Len(line) + 1 :
           /\ G[i].parent = above(i).digest
           /\ CheckAttenuation(above(i).scope, G[i].scope) = "ALLOWED"
    <2>1. Len(line) + 1 \in Nat BY <1>5
    <2> QED BY <1>10, <1>11, <2>1, OneChain
<1>13. CASE line = <<>>
    <2>1. Len(line) = 0 /\ M[1] = k BY <1>5, <1>13
    <2>2. above(1).digest = 0 /\ above(1).scope = AnchorOf(k) BY <2>1
    <2>3. c.parent = 0 /\ CheckAttenuation(AnchorOf(c), ScopeOf(c)) = "ALLOWED"
        <3>1. /\ G[1].parent = 0 /\ CheckAttenuation(AnchorOf(k), G[1].scope) = "ALLOWED"
              /\ G[1].parent = k.parent /\ G[1].scope = ScopeOf(k)
            BY <1>10, <1>12, <2>1, <2>2
        <3> QED BY <1>7, <3>1, SameBindings DEF SameClaims
    <2>4. ASSUME NEW d \in Nat, d > n
          PROVE  Good(Append(Lineage(l)[c.parent], Digested(c, d)))
        <3>1. d > 0 BY <1>2, <2>4
        <3>2. Sane(Digested(c, d)) BY <1>9, <3>1, BuiltSane
        <3>3. SameClaims(c, Digested(c, d)) BY <1>3, DigestedSame
        <3>4. Rooted(Digested(c, d)) BY <2>3, <3>3, SameBindings DEF Rooted, SameClaims
        <3>5. Append(<<>>, Digested(c, d)) = <<Digested(c, d)>> OBVIOUS
        <3> QED BY <1>2, <2>3, <3>2, <3>4, <3>5, AloneIsGood
    <2>5. c.parent \in 0 .. Len(l) BY <1>2, <2>3
    <2> QED BY <1>3, <1>9, <2>4, <2>5 DEF Worthy
<1>14. CASE line # <<>>
    <2>1. /\ p \in 1 .. n /\ line = Lineage(l)[p] /\ Good(line) /\ Last(line).digest = p
        BY <1>14, AncestorsAreGood
    <2>2. /\ Len(line) \in Nat \ {0} /\ Last(line) = line[Len(line)]
        BY <2>1, GoodFields
    <2>3. Sane(Last(line))
        <3>1. Len(line) \in 1 .. Len(line) BY <2>2
        <3> QED BY <2>1, <2>2, <3>1 DEF Good
    <2>4. c.parent = p /\ CheckAttenuation(ScopeOf(Last(line)), ScopeOf(c)) = "ALLOWED"
        <3> DEFINE i == Len(line) + 1
        <3>1. /\ i \in 1 .. Len(line) + 1 /\ i # 1 /\ i - 1 = Len(line) /\ M[i] = k
              /\ i - 1 \in 1 .. Len(line) /\ i - 1 \in 1 .. Len(line) + 1
              /\ M[i - 1] = Last(line)
            BY <1>5, <2>2
        <3> HIDE DEF i
        <3>2. above(i) = G[i - 1] BY <3>1
        <3>3. /\ G[i].parent = G[i - 1].digest
              /\ CheckAttenuation(G[i - 1].scope, G[i].scope) = "ALLOWED"
            BY <1>12, <3>1, <3>2
        <3>4. /\ k.parent = Last(line).digest
              /\ CheckAttenuation(ScopeOf(Last(line)), ScopeOf(k)) = "ALLOWED"
            BY <1>10, <3>1, <3>3
        <3> QED BY <1>7, <2>1, <3>4, SameBindings DEF SameClaims
    <2>5. c.action = "APPLY_CANARY" BY <1>2, <2>1, <2>4 DEF Built
    <2>6. ASSUME NEW d \in Nat, d > n
          PROVE  Good(Append(Lineage(l)[c.parent], Digested(c, d)))
        <3>1. d > 0 /\ d > p BY <1>2, <2>1, <2>6
        <3>2. Sane(Digested(c, d)) BY <1>9, <3>1, BuiltSane
        <3>3. SameClaims(c, Digested(c, d)) /\ Digested(c, d).digest = d
            BY <1>3, DigestedSame
        <3>4. Parent(Last(line), Digested(c, d))
            BY <1>14, <2>1, <2>4, <2>5, <3>3, SameBindings DEF Parent, SameClaims
        <3>5. Len(line) < MaxDepth BY DEF LineageFits
        <3> QED BY <2>1, <2>4, <3>1, <3>2, <3>3, <3>4, <3>5, GoodExtends
    <2>7. c.parent \in 0 .. Len(l) BY <1>2, <2>1, <2>4
    <2> QED BY <1>3, <1>9, <2>6, <2>7 DEF Worthy
<1> QED BY <1>13, <1>14

-----------------------------------------------------------------------------
\* The task of a returned capability is accepted in its window.

Accepted(l, t) == \A at \in t.sched .. t.exp - 1 : Verify(l, t, at) = "ALLOWED"

\* The authorization a belongs to the capability with the claims c.
Entitled(c, a) ==
    \A d, s : \A at \in c.nb .. c.exp - 1 :
        LET t == TaskOf(d, c, a, s) IN
        /\ Decodes(t) /\ PrestateVerified(t)
        /\ a # None => ~(at >= a.until) /\ Bound(t, at)

LEMMA EntitledAccepted ==
    ASSUME NEW l, LineageOK(l), NEW d \in 1 .. Len(l), NEW a, Entitled(l[d], a), NEW s
    PROVE  Accepted(l, TaskOf(d, l[d], a, s))
<1> SUFFICES ASSUME NEW at \in l[d].nb .. l[d].exp - 1
             PROVE  Verify(l, TaskOf(d, l[d], a, s), at) = "ALLOWED"
    BY DEF Accepted, TaskOf
<1>1. PICK c : c = l[d] OBVIOUS
<1>2. PICK t : t = TaskOf(d, c, a, s) OBVIOUS
<1>3. /\ t.digest = d /\ t.cap = c /\ t.sched = c.nb /\ t.exp = c.exp /\ t.auth = a
    BY <1>2 DEF TaskOf
<1>4. PICK S : l \in Seq(S) BY DEF LineageOK
<1>5. PICK L : L = Lineage(l)[d] OBVIOUS
<1>6. Good(L) BY <1>5 DEF LineageOK
<1>7. L = Append(ResolveLineage(l, c.parent), Digested(c, d))
    <2>1. d \in 0 .. Len(l) /\ d # 0 BY <1>4
    <2>2. L = Append(Lineage(l)[c.parent], Digested(c, d))
        BY <1>1, <1>5, <2>1, UnfoldsAt DEF LineageOK, SignedAt
    <2>3. c.parent \in 0 .. d - 1 BY <1>1 DEF LineageOK
    <2>4. Lineage(l)[0] = <<>>
        <3>1. 0 \in 0 .. Len(l) BY <1>4
        <3> QED BY <3>1, UnfoldsAt DEF LineageOK
    <2>5. ResolveLineage(l, c.parent) = Lineage(l)[c.parent]
        BY <1>4, <2>3, <2>4 DEF ResolveLineage
    <2> QED BY <2>2, <2>5
<1>8. PICK k : k = Digested(c, d) OBVIOUS
<1>9. SameClaims(c, k) /\ k.digest = d BY <1>1, <1>8, DigestedSame DEF LineageOK
<1>10. AncestorsRead(l, t) /\ Last(L) = k
    <2>1. PICK line : line = ResolveLineage(l, c.parent) OBVIOUS
    <2>2. CASE line = <<>>
        <3>1. L = <<k>> BY <1>7, <1>8, <2>1, <2>2
        <3>2. L[1] = k /\ Last(L) = k BY <3>1 DEF Last
        <3>3. c.parent = 0 BY <1>6, <1>9, <3>2 DEF Good, Rooted, SameClaims
        <3> QED BY <1>3, <3>2, <3>3 DEF AncestorsRead
    <2>3. CASE line # <<>>
        <3>1. Good(line) /\ Last(line).digest = c.parent BY <2>1, <2>3, AncestorsAreGood
        <3>2. PICK T : line \in Seq(T) BY <3>1 DEF Good
        <3>3. Len(L) = Len(line) + 1 /\ Len(line) \in Nat /\ L[Len(line) + 1] = k
            BY <1>7, <1>8, <2>1, <3>2, AppendFacts
        <3>4. Last(L) = k BY <3>3 DEF Last
        <3>5. Len(line) < MaxDepth BY <1>6, <3>3, CapabilityConstants DEF Good
        <3> QED BY <1>3, <2>1, <2>3, <3>1, <3>4, <3>5 DEF AncestorsRead
    <2> QED BY <2>2, <2>3
<1>11. Sane(k)
    <2>1. Last(L) = L[Len(L)] /\ Len(L) \in Nat \ {0} BY <1>6, GoodFields
    <2>2. Len(L) \in 1 .. Len(L) BY <2>1
    <2> QED BY <1>6, <1>10, <2>1, <2>2 DEF Good
<1>12. /\ ClaimsMatchRoot(c) /\ RouteAdmits(RouteFor(c.action), c)
       /\ c.issued \in Int /\ c.nb \in Int /\ c.exp \in Int /\ at \in Int
       /\ c.nb <= at /\ at < c.exp
    <2>1. ClaimsMatchRoot(c) BY <1>9, <1>11, SameBindings DEF Sane
    <2>2. RouteAdmits(RouteFor(k.action), k) BY <1>11, SaneRoute
    <2>3. RouteAdmits(RouteFor(c.action), c) BY <1>9, <2>2, SameBindings DEF SameClaims
    <2>4. c.issued \in Int /\ c.nb \in Int /\ c.exp \in Int
        BY <1>9, <1>11 DEF Sane, SameClaims
    <2> QED BY <1>1, <2>1, <2>3, <2>4
<1>13. /\ Decodes(t) /\ PrestateVerified(t)
       /\ a # None => ~(at >= a.until) /\ Bound(t, at)
    BY <1>1, <1>2 DEF Entitled
<1>14. TimeDenial(t, at) = "ALLOWED" BY <1>3, <1>12, <1>13 DEF TimeDenial
<1>15. RootDenial(t, at) = "ALLOWED"
    <2>1. c.issued >= Root.approved /\ c.issued <= c.nb BY <1>12 DEF ClaimsMatchRoot
    <2>2. ~(Root.approved > at) /\ ~(c.issued < Root.approved)
        BY <1>12, <2>1, CapabilityConstants
    <2>3. /\ c.root = Root
          /\ c.action = "APPLY_CANARY" => c.etag = Root.etag
          /\ c.concurrency = IF c.action = "RECOVER_STABLE" THEN Root.concurrency ELSE None
        BY <1>12 DEF ClaimsMatchRoot
    <2> QED BY <1>3, <1>12, <1>13, <2>2, <2>3 DEF RootDenial
<1>16. LineageDenial(RouteFor(c.action), L, at) = "ALLOWED"
    <2>1. Last(L).nb = c.nb /\ Last(L).exp = c.exp /\ Last(L).action = c.action
        BY <1>9, <1>10 DEF SameClaims
    <2> QED BY <1>6, <1>12, <2>1, GoodIsAccepted
<1>17. Verify(l, t, at) = "ALLOWED"
    BY <1>3, <1>7, <1>10, <1>12, <1>13, <1>14, <1>15, <1>16 DEF Verify
<1> QED BY <1>1, <1>2, <1>17

LEMMA StaysAccepted ==
    ASSUME NEW l, LineageOK(l), NEW c, c.parent \in 0 .. Len(l), NEW t, Accepted(l, t)
    PROVE  Accepted(Append(l, c), t)
<1> SUFFICES ASSUME NEW at \in t.sched .. t.exp - 1
             PROVE  Verify(Append(l, c), t, at) = "ALLOWED"
    BY DEF Accepted
<1>1. Verify(l, t, at) = "ALLOWED" BY DEF Accepted
<1>2. PICK S : l \in Seq(S) BY DEF LineageOK
<1>3. PICK m : m = Append(l, c) OBVIOUS
<1>4. Len(m) = Len(l) + 1 /\ Len(l) \in Nat /\ m \in Seq(S \cup {c})
    BY <1>2, <1>3, AppendFacts
<1>5. AncestorsRead(l, t) BY <1>1 DEF Verify
<1>6. t.cap.parent \in 0 .. Len(l)
    <2>1. CASE t.cap.parent = 0 BY <1>4, <2>1
    <2>2. CASE t.cap.parent # 0
        <3>1. ResolveLineage(l, t.cap.parent) # <<>> BY <1>5, <2>2 DEF AncestorsRead
        <3>2. t.cap.parent \in DOMAIN l BY <3>1 DEF ResolveLineage
        <3> QED BY <1>2, <3>2
    <2> QED BY <2>1, <2>2
<1>7. Lineage(m)[t.cap.parent] = Lineage(l)[t.cap.parent]
    BY <1>3, <1>6, LineageGrows
<1>8. ResolveLineage(m, t.cap.parent) = ResolveLineage(l, t.cap.parent)
    <2>1. DOMAIN l = 1 .. Len(l) /\ DOMAIN m = 1 .. Len(l) + 1 BY <1>2, <1>4
    <2>2. t.cap.parent = 0 \/ (t.cap.parent \in DOMAIN l /\ t.cap.parent \in DOMAIN m)
        BY <1>4, <1>6, <2>1
    <2> QED BY <1>7, <2>2 DEF ResolveLineage
<1>9. Verify(m, t, at) = Verify(l, t, at) BY <1>8 DEF Verify, AncestorsRead
<1> QED BY <1>1, <1>3, <1>9

-----------------------------------------------------------------------------
\* What the capability of a call rests on.

\* The authorization that call k hands to the issuer.
AuthorizationOf(k) == IF k.cmd \in Promotions THEN CreateAuthorization(k.cmd) ELSE k.auth

\* A call that holds a record, whose task it may enqueue or store.
Carries(k) ==
    \/ k.pc \in {"prepare", "begin", "finish", "seal", "enqueue", "readback"}
    \/ k.pc = "await" /\ k.cmd \in Promotions

Fit(l, k) ==
    /\ k.pc \in {"inputs", "observe"} => k.prep \in Int
    /\ k.pc = "inputs2" => k.auth.result.request.until \in Int
    /\ k.pc \in {"issue", "trusted", "confirm"} =>
         /\ k.cmd \in Promotions => AuthorizationValid(CreateAuthorization(k.cmd))
         /\ k.cmd \in Recoveries => RecoveryAuthorizationValid(k.auth) /\ k.auth.until \in Int
    /\ k.pc = "confirm" =>
         /\ Worthy(l, k.cap) /\ Built(k.cap)
         /\ k.cmd \in Recoveries /\ k.auth = None => Len(k.cap.id) = 7
    /\ k.pc = "record" =>
         /\ \E i \in 1 .. Len(l) : l[i] = k.cap
         /\ Entitled(k.cap, AuthorizationOf(k))
    /\ Carries(k) => Accepted(l, k.rec.task)

TasksAccepted(l) ==
    /\ \A t \in queue : Accepted(l, t)
    /\ \A m \in Promotions : dispatch[m] # NoRecord => Accepted(l, dispatch[m].task)
    /\ \A o \in late : Accepted(l, o.rec.task)
    /\ \A c \in Call : wire[c] # None => Accepted(l, wire[c].task)

Agreed == LineageOK(log) /\ TasksAccepted(log) /\ \A c \in Call : Fit(log, call[c])

\* _validate_promotion_authorization holds of what the coordinator let through.
LEMMA PromotionEntitled ==
    ASSUME NEW m \in Promotions, NEW c, Built(c),
           AuthorizationValid(CreateAuthorization(m)),
           CapabilityMatches(c, m, CreateAuthorization(m))
    PROVE  Entitled(c, CreateAuthorization(m))
<1> SUFFICES ASSUME NEW d, NEW s, NEW at \in c.nb .. c.exp - 1,
                    NEW a, a = CreateAuthorization(m),
                    NEW t, t = TaskOf(d, c, a, s)
             PROVE  /\ Decodes(t) /\ PrestateVerified(t)
                    /\ a # None => ~(at >= a.until) /\ Bound(t, at)
    BY DEF Entitled
<1>1. t.cap = c /\ t.sched = c.nb /\ t.exp = c.exp /\ t.auth = a BY DEF TaskOf
<1>2. a # None BY NoneIsNoValue DEF Promotions
<1>3. /\ c.id = <<a>> /\ c.action = "PROMOTE_CANDIDATE"
      /\ c.epoch = a.epoch /\ c.req = a.req /\ c.key = a.key /\ c.etag = a.etag
      /\ c.nb = a.sched /\ c.exp <= a.until
    BY DEF CapabilityMatches
<1>4. a.until \in Int /\ c.nb \in Int /\ c.exp \in Int
    BY CapabilityConstants DEF AuthorizationValid, Built
<1>5. at < a.until /\ ~(at >= a.until) BY <1>3, <1>4
<1>6. AuthorizationBound(t, at) BY <1>1, <1>3, <1>5 DEF AuthorizationBound
<1> QED BY <1>1, <1>2, <1>3, <1>5, <1>6 DEF Decodes, PrestateVerified, Bound

\* _validate_recovery_authorization, likewise.
LEMMA RecoveryEntitled ==
    ASSUME NEW m \in Recoveries, NEW c, Built(c), NEW z, RecoveryAuthorizationValid(z),
           z.until \in Int, IssuanceResultValid(c, z), IssuanceMatches(c, m, z),
           Root.version = "V3", z = None => Len(c.id) = 7
    PROVE  Entitled(c, z)
<1> SUFFICES ASSUME NEW d, NEW s, NEW at \in c.nb .. c.exp - 1,
                    NEW t, t = TaskOf(d, c, z, s)
             PROVE  /\ Decodes(t) /\ PrestateVerified(t)
                    /\ z # None => ~(at >= z.until) /\ Bound(t, at)
    BY DEF Entitled
<1>1. t.cap = c /\ t.sched = c.nb /\ t.exp = c.exp /\ t.auth = z BY DEF TaskOf
<1>2. /\ c.id = <<z>> /\ c.action = "RECOVER_STABLE" /\ c.subject = "recovery"
      /\ c.epoch = z.epoch /\ c.req = z.req /\ c.key = z.key /\ c.etag = z.etag
      /\ c.concurrency = Root.concurrency /\ c.nb = z.sched /\ c.exp <= z.until
    BY DEF IssuanceResultValid
<1>3. z # None
    <2>1. Len(<<z>>) = 1 OBVIOUS
    <2> QED BY <1>2, <2>1
<1>4. c.nb \in Int /\ c.exp \in Int BY DEF Built
<1>5. at < z.until /\ ~(at >= z.until) BY <1>2, <1>4
<1>6. AttestationValid(z.attestation) BY DEF RecoveryAuthorizationValid
<1>7. /\ z.source = m.source /\ z.receipt = m.receipt /\ z.epoch = m.epoch
      /\ m.epoch = m.source.epoch /\ m.receipt.epoch = m.source.previous
    BY DispatchConstants DEF IssuanceMatches, RecoveryCommandValid, Recoveries
<1>8. RecoveryBound(t, at) BY <1>1, <1>2, <1>5, <1>7 DEF RecoveryBound
<1> QED BY <1>1, <1>2, <1>3, <1>5, <1>6, <1>8 DEF Decodes, PrestateVerified, Bound

LEMMA CanaryEntitled ==
    ASSUME NEW c, NEW m, CanaryMatches(c, m) PROVE Entitled(c, None)
BY DEF CanaryMatches, Entitled, TaskOf, Decodes, PrestateVerified

\* The trigger of a recovery is of a V3 root.
LEMMA TriggerOfV3 ==
    ASSUME NEW m \in Recoveries, NEW s, TriggerValid(m, s) PROVE Root.version = "V3"
<1>1. m.source.basis \in {"UNHEALTHY_V3", "REVOKED_V3"}
    BY DispatchConstants DEF RecoveryCommandValid, RevokedSourceValid, UnhealthySource, Recoveries
<1> QED BY <1>1 DEF TriggerValid

-----------------------------------------------------------------------------
\* Steps that leave the log alone.

LEMMA CallAgreed ==
    ASSUME IInv, Agreed, UNCHANGED log, TasksAccepted(log)', NEW c \in Call, NEW k,
           Go(c, k), Fit(log, k)
    PROVE  Agreed'
<1>1. call' = [call EXCEPT ![c] = k] /\ call = [d \in Call |-> call[d]]
    BY DEF Go, IInv, CallsOK
<1>2. \A d \in Call : Fit(log, call'[d]) BY <1>1 DEF Agreed
<1> QED BY <1>2 DEF Agreed

\* What the agreement is about, as a step finds it.
Settled == UNCHANGED <<log, wire, queue, dispatch, late>>

LEMMA TasksStay == ASSUME Agreed, Settled PROVE TasksAccepted(log)'
BY DEF Agreed, Settled, TasksAccepted

LEMMA CallOnlySettles == CallOnly => Settled
BY DEF CallOnly, Settled, world, ledger

LEMMA AnsweredFits == ASSUME NEW c \in Call, NEW code, NEW l PROVE Fit(l, Answered(c, code))
BY AnsweredFields DEF Fit, Carries

LEMMA SettledAgreed ==
    ASSUME IInv, Agreed, Settled, NEW c \in Call, NEW k, Fit(log, k),
           Go(c, k) \/ \E code : Go(c, Answered(c, code))
    PROVE  Agreed'
<1>1. UNCHANGED log /\ TasksAccepted(log)' BY TasksStay DEF Settled
<1> QED BY <1>1, AnsweredFits, CallAgreed

LEMMA AdoptFits ==
    ASSUME IInv, Agreed, NEW c \in Call, call[c].pc # "idle", Cmd(c) \in Promotions,
           dispatch[Cmd(c)] # NoRecord
    PROVE  Fit(log, AdoptExisting(c, dispatch[Cmd(c)]))
<1>1. PICK k : k = [To(c, "seal") EXCEPT !.rec = dispatch[Cmd(c)]] OBVIOUS
<1>2. k.pc = "seal" /\ k.rec = dispatch[Cmd(c)]
    BY <1>1, ToFields DEF ShapedCall
<1>3. Fit(log, k) BY <1>2 DEF Fit, Agreed, TasksAccepted
<1> QED BY <1>1, <1>3, AnsweredFits DEF AdoptExisting

LEMMA BeginAgreed ==
    ASSUME IInv, Agreed, NEW c \in Call, NEW m \in Command, NEW par, Begin(c, m, par)
    PROVE  Agreed'
<1>1. PICK k : k = [Idle EXCEPT !.cmd = m, !.par = par, !.pc = FirstStep[m.action]] OBVIOUS
<1>2. k.pc = FirstStep[m.action] /\ k.cmd = m BY <1>1, IdleFields DEF ShapedCall
<1>3. \/ k.pc \in {"read", "own"}
      \/ k.pc = "issue" /\ m \notin Promotions /\ m \notin Recoveries
    BY <1>2, DispatchConstants DEF FirstStep, Promotions, Recoveries, Actions
<1>4. Fit(log, k) BY <1>2, <1>3 DEF Fit, Carries
<1> QED BY <1>1, <1>4, CallOnlySettles, SettledAgreed DEF Begin

LEMMA ReadDispatchAgreed ==
    ASSUME IInv, Agreed, NEW c \in Call, ReadDispatch(c) PROVE Agreed'
<1> DEFINE m == Cmd(c)
<1>1. call[c].pc = "read" /\ Settled BY CallOnlySettles DEF ReadDispatch
<1>2. call[c].pc # "idle" /\ m \in Promotions
    BY <1>1, AtWork DEF CallOK, Local, PromotionPcs, Cmd
<1>3. PICK k : k = To(c, "resolve") OBVIOUS
<1>4. k.pc = "resolve" BY <1>2, <1>3, ToFields
<1>5. Fit(log, k) BY <1>4 DEF Fit, Carries
<1>6. \/ Go(c, k) \/ \E code : Go(c, Answered(c, code))
      \/ /\ ReadDenial(m) = "none" /\ Found(m) # "NONE"
         /\ Go(c, AdoptExisting(c, dispatch[m]))
    BY <1>3 DEF ReadDispatch
<1> QED BY <1>1, <1>2, <1>5, <1>6, FoundRecord, AdoptFits, SettledAgreed

LEMMA ResolveAgreed == ASSUME IInv, Agreed, NEW c \in Call, Resolve(c) PROVE Agreed'
<1>1. call[c].pc = "resolve" /\ Settled BY CallOnlySettles DEF Resolve
<1>2. call[c].pc # "idle" /\ Cmd(c) \in Promotions
    BY <1>1, AtWork DEF CallOK, Local, PromotionPcs, Cmd
<1>3. PICK k : k = [To(c, "issue") EXCEPT !.prep = now] OBVIOUS
<1>4. k.pc = "issue" /\ k.cmd = Cmd(c) BY <1>2, <1>3, ToFields DEF ShapedCall
<1>5. AuthorizationValid(CreateAuthorization(Cmd(c))) => Fit(log, k)
    BY <1>2, <1>4, Disjoint DEF Fit, Carries
<1>6. \/ Go(c, k) /\ AuthorizationValid(CreateAuthorization(Cmd(c)))
      \/ \E code : Go(c, Answered(c, code))
    BY <1>3 DEF Resolve
<1>7. CASE \E code : Go(c, Answered(c, code)) BY <1>1, <1>7, AnsweredFits, SettledAgreed
<1> QED BY <1>1, <1>5, <1>6, <1>7, SettledAgreed

LEMMA OwnIntentAgreed == ASSUME IInv, Agreed, NEW c \in Call, OwnIntent(c) PROVE Agreed'
<1>1. call[c].pc = "own" /\ Settled BY DEF OwnIntent, Settled, ledger
<1>2. PICK k : k = To(c, "adopt") OBVIOUS
<1>3. k.pc = "adopt" BY <1>1, <1>2, ToFields
<1>4. Fit(log, k) BY <1>3 DEF Fit, Carries
<1> QED BY <1>1, <1>2, <1>4, SettledAgreed DEF OwnIntent

LEMMA ReadRecoveryAgreed ==
    ASSUME IInv, Timed, Agreed, NEW c \in Call, ReadRecovery(c) PROVE Agreed'
<1>1. call[c].pc = "adopt" /\ Settled BY CallOnlySettles DEF ReadRecovery
<1>2. PICK k : k = [To(c, "inputs") EXCEPT !.prep = now] OBVIOUS
<1>3. k.pc = "inputs" /\ k.prep = now BY <1>1, <1>2, ToFields DEF ShapedCall
<1>4. now \in Int BY DEF Timed, ClockOK
<1>5. Fit(log, k) BY <1>3, <1>4 DEF Fit, Carries
<1> QED BY <1>1, <1>2, <1>5, SettledAgreed DEF ReadRecovery

LEMMA ReadInputsAgreed == ASSUME IInv, Agreed, NEW c \in Call, ReadInputs(c) PROVE Agreed'
<1>1. call[c].pc = "inputs" /\ Settled BY CallOnlySettles DEF ReadInputs
<1>2. call[c].prep \in Int BY <1>1 DEF Agreed, Fit
<1>3. PICK k : k = [To(c, "observe") EXCEPT !.seen = authority] OBVIOUS
<1>4. k.pc = "observe" /\ k.prep = call[c].prep BY <1>1, <1>3, ToFields DEF ShapedCall
<1>5. Fit(log, k) BY <1>2, <1>4 DEF Fit, Carries
<1> QED BY <1>1, <1>3, <1>5, SettledAgreed DEF ReadInputs

LEMMA ObserveAgreed == ASSUME IInv, Agreed, NEW c \in Call, Observe(c) PROVE Agreed'
<1>1. call[c].pc = "observe" /\ Settled BY CallOnlySettles DEF Observe
<1>2. call[c].prep \in Int BY <1>1 DEF Agreed, Fit
<1> DEFINE q == PrestateRequest(Cmd(c), call[c].prep)
           a(etag) == Attest(SigningRequest(PrestateResult(q, etag, now)))
<1>3. ASSUME NEW etag, NEW k, k = [To(c, "inputs2") EXCEPT !.auth = a(etag)]
      PROVE  Fit(log, k)
    <2>1. k.pc = "inputs2" /\ k.auth = a(etag) BY <1>1, <1>3, ToFields DEF ShapedCall
    <2>2. a(etag).result.request.until = call[c].prep + PrestateValidity
        BY DEF Attest, SigningRequest, PrestateResult, PrestateRequest
    <2>3. call[c].prep + PrestateValidity \in Int BY <1>2, RecoveryConstants
    <2> QED BY <2>1, <2>2, <2>3 DEF Fit, Carries
<1>4. \/ \E etag : Go(c, [To(c, "inputs2") EXCEPT !.auth = a(etag)])
      \/ \E code : Go(c, Answered(c, code))
    BY DEF Observe
<1>5. CASE \E code : Go(c, Answered(c, code)) BY <1>1, <1>5, AnsweredFits, SettledAgreed
<1>6. ASSUME NEW etag, Go(c, [To(c, "inputs2") EXCEPT !.auth = a(etag)]) PROVE Agreed'
    <2>1. PICK k : k = [To(c, "inputs2") EXCEPT !.auth = a(etag)] OBVIOUS
    <2>2. Fit(log, k) /\ Go(c, k) BY <1>3, <1>6, <2>1
    <2> QED BY <1>1, <2>2, SettledAgreed
<1> QED BY <1>4, <1>5, <1>6

LEMMA AuthorizeAgreed == ASSUME IInv, Agreed, NEW c \in Call, Authorize(c) PROVE Agreed'
<1>1. call[c].pc = "inputs2" /\ Settled BY CallOnlySettles DEF Authorize
<1>2. call[c].auth.result.request.until \in Int BY <1>1 DEF Agreed, Fit
<1>3. call[c].pc # "idle" /\ Cmd(c) \in Recoveries
    BY <1>1, AtWork DEF CallOK, Local, RecoveryPcs, Cmd
<1> DEFINE z == RecoveryAuthorizationOf(Cmd(c), call[c].auth)
<1>4. z.until = call[c].auth.result.request.until BY DEF RecoveryAuthorizationOf
<1>5. PICK k : k = [To(c, "issue") EXCEPT !.seen = None, !.auth = z] OBVIOUS
<1>6. k.pc = "issue" /\ k.cmd = Cmd(c) /\ k.auth = z BY <1>3, <1>5, ToFields DEF ShapedCall
<1>7. RecoveryAuthorizationValid(z) => Fit(log, k)
    BY <1>2, <1>3, <1>4, <1>6, Disjoint DEF Fit, Carries
<1>8. \/ Go(c, k) /\ RecoveryAuthorizationValid(z)
      \/ \E code : Go(c, Answered(c, code))
    BY <1>5 DEF Authorize
<1>9. CASE \E code : Go(c, Answered(c, code)) BY <1>1, <1>9, AnsweredFits, SettledAgreed
<1> QED BY <1>1, <1>7, <1>8, <1>9, SettledAgreed

LEMMA IssueAgreed == ASSUME IInv, Agreed, NEW c \in Call, Issue(c) PROVE Agreed'
<1>1. call[c].pc = "issue" /\ Settled BY CallOnlySettles DEF Issue
<1>2. PICK k : k = [To(c, "trusted") EXCEPT !.at = now] OBVIOUS
<1>3. k.pc = "trusted" /\ k.cmd = call[c].cmd /\ k.auth = call[c].auth
    BY <1>1, <1>2, ToFields DEF ShapedCall, Cmd
<1>4. Fit(log, k) BY <1>1, <1>3 DEF Agreed, Fit, Carries
<1> QED BY <1>1, <1>2, <1>4, SettledAgreed DEF Issue

-----------------------------------------------------------------------------
\* The signature and the log.

LEMMA BuildsClaims ==
    ASSUME NEW m, m.action \in Actions, NEW s, NEW at \in Int, NEW nb \in Int,
           NEW exp \in Int, NEW parent, NEW etag, NEW auth,
           m.action = "APPLY_CANARY" => auth = None,
           m.action # "APPLY_CANARY" => parent = 0
    PROVE  LET k == BuildClaims(m, s, at, nb, exp, parent, etag, auth) IN
           /\ Built(k) /\ k.issued = at /\ k.action = m.action
           /\ auth = None => Len(k.id) = 7
<1> DEFINE seven == <<m.action, m.req, m.key, s.epoch, at, exp, parent>>
<1>1. Len(seven) = 7 /\ seven[7] = parent OBVIOUS
<1> HIDE DEF seven
<1>2. PICK k : k = BuildClaims(m, s, at, nb, exp, parent, etag, auth) OBVIOUS
<1>3. /\ k.action = m.action /\ k.issued = at /\ k.nb = nb /\ k.exp = exp
      /\ k.parent = parent /\ k.id = IF auth = None THEN seven ELSE <<auth>>
      /\ IsClaims(k)
    BY <1>2 DEF BuildClaims, IsClaims, ClaimNames, seven
<1> QED BY <1>1, <1>2, <1>3 DEF Built

LEMMA LeastInt == ASSUME NEW a \in Int, NEW b \in Int PROVE Least(a, b) \in Int
BY DEF Least

\* What Sign would have signed.
LEMMA ClaimsBuilt ==
    ASSUME IInv, Timed, Agreed, NEW c \in Call, call[c].pc = "trusted", Inputs(c),
           LineageFits(ResolveLineage(log, call[c].par)),
           ParentLineageValid(ResolveLineage(log, call[c].par), authority, call[c].at)
    PROVE  LET line == ResolveLineage(log, call[c].par) IN
           /\ Built(Claims(c))
           /\ Claims(c).action = "APPLY_CANARY" /\ line # <<>> =>
                Last(line).nb <= Claims(c).issued /\ Claims(c).issued < Last(line).exp
           /\ Cmd(c) \in Recoveries /\ call[c].auth = None => Len(Claims(c).id) = 7
<1>1. PICK line : line = ResolveLineage(log, call[c].par) OBVIOUS
<1>2. PICK at : at = call[c].at OBVIOUS
<1>3. PICK a : a = Authorization(c) OBVIOUS
<1>4. at \in Int /\ at + Lifetime \in Int
    <2>1. at \in Nat BY <1>2 DEF Timed, OnTime
    <2> QED BY <2>1, CapabilityConstants DEF IssuerConfigured
<1>5. /\ Cmd(c) \in Command /\ Cmd(c).action \in Actions /\ Cmd(c).sched \in Int
      /\ Promotes(c) <=> Cmd(c) \in Promotions
      /\ Recovers(c) <=> Cmd(c) \in Recoveries
      /\ call[c].auth # None => Cmd(c) \in Recoveries
    BY AtWork, DispatchConstants
<1>6. CASE Promotes(c)
    <2>1. a = CreateAuthorization(Cmd(c)) BY <1>3, <1>6 DEF Authorization
    <2>2. a.sched \in Int /\ a.until \in Int
        BY <1>5, <2>1, CapabilityConstants DEF CreateAuthorization
    <2>3. PICK exp \in Int : exp = Least(at + Lifetime, a.until) BY <1>4, <2>2, LeastInt
    <2>4. Claims(c) = BuildClaims(Cmd(c), authority, at, a.sched, exp, 0, Proof.etag, a)
        BY <1>2, <1>3, <1>6, <2>3 DEF Claims
    <2>5. Cmd(c).action = "PROMOTE_CANDIDATE" /\ Cmd(c) \notin Recoveries
        BY <1>6 DEF Promotes, Recoveries
    <2>6. Built(Claims(c)) /\ Claims(c).action = "PROMOTE_CANDIDATE"
        BY <1>4, <1>5, <2>2, <2>4, <2>5, BuildsClaims
    <2> QED BY <2>5, <2>6
<1>7. CASE Recovers(c)
    <2>1. ~Promotes(c) /\ a = call[c].auth /\ Cmd(c).action = "RECOVER_STABLE"
        BY <1>3, <1>7 DEF Promotes, Recovers, Authorization
    <2>2. a.issued \in Int BY <1>5, <1>7, <2>1 DEF Timed, OnTime, Timely, Cmd
    <2>3. a.until \in Int BY <1>5, <1>7, <2>1 DEF Agreed, Fit, Cmd
    <2>4. a.sched \in Int
        <3>1. a = RecoveryAuthorizationOf(Cmd(c), a.attestation)
            BY <1>3, <1>7 DEF Inputs, IssuerInputs
        <3>2. PICK w : w = RecoveryAuthorizationOf(Cmd(c), a.attestation) OBVIOUS
        <3>3. w.sched = Cmd(c).sched BY <3>2 DEF RecoveryAuthorizationOf
        <3> QED BY <1>5, <3>1, <3>2, <3>3
    <2>5. PICK exp \in Int : exp = Least(a.issued + Lifetime, a.until)
        <3>1. a.issued + Lifetime \in Int
            BY <2>2, CapabilityConstants DEF IssuerConfigured
        <3>2. Least(a.issued + Lifetime, a.until) \in Int BY <2>3, <3>1, LeastInt
        <3> QED BY <3>2
    <2>6. Claims(c) = BuildClaims(Cmd(c), authority, a.issued, a.sched, exp, 0, a.etag, a)
        BY <1>3, <1>7, <2>1, <2>5 DEF Claims
    <2>7. /\ Built(Claims(c)) /\ Claims(c).action = "RECOVER_STABLE"
          /\ a = None => Len(Claims(c).id) = 7
        BY <1>5, <2>1, <2>2, <2>4, <2>6, BuildsClaims
    <2> QED BY <2>1, <2>7
<1>8. CASE ~Promotes(c) /\ ~Recovers(c)
    <2>1. Cmd(c).action = "APPLY_CANARY" BY <1>5, <1>8 DEF Promotes, Recovers, Actions
    <2>2. line # <<>> =>
            /\ Last(line).exp \in Int
            /\ Last(line).nb <= at /\ at < Last(line).exp
        <3> SUFFICES ASSUME line # <<>>
                     PROVE  /\ Last(line).exp \in Int
                            /\ Last(line).nb <= at /\ at < Last(line).exp
            OBVIOUS
        <3>1. Good(line) BY <1>1, AncestorsAreGood DEF Agreed
        <3>2. DOMAIN line = 1 .. Len(line) /\ Len(line) \in Nat \ {0}
              /\ Last(line) = line[Len(line)]
            BY <3>1, GoodFields
        <3>3. Len(line) \in 1 .. Len(line) BY <3>2
        <3>4. Sane(Last(line)) BY <3>1, <3>2, <3>3 DEF Good
        <3>5. Last(line).nb <= at /\ at < Last(line).exp
            BY <1>1, <1>2, <3>2, <3>3 DEF ParentLineageValid
        <3> QED BY <3>4, <3>5 DEF Sane
    <2>3. PICK exp \in Int : exp = ParentExpiry(line, at)
        <3>1. ParentExpiry(line, at) \in Int BY <1>4, <2>2, LeastInt DEF ParentExpiry
        <3> QED BY <3>1
    <2>4. Claims(c) = BuildClaims(Cmd(c), authority, at, at, exp, call[c].par, Root.etag, None)
        BY <1>1, <1>2, <1>8, <2>3 DEF Claims
    <2>5. Built(Claims(c)) /\ Claims(c).issued = at
        BY <1>4, <1>5, <2>1, <2>4, BuildsClaims
    <2> QED BY <1>1, <1>5, <1>8, <2>2, <2>5
<1> QED BY <1>6, <1>7, <1>8

LEMMA SignAgreed == ASSUME IInv, Timed, Agreed, NEW c \in Call, Sign(c) PROVE Agreed'
<1>1. call[c].pc = "trusted" /\ Settled BY CallOnlySettles DEF Sign
<1>2. PICK k : k = [To(c, "confirm") EXCEPT !.seen = authority, !.cap = Claims(c)] OBVIOUS
<1>3. /\ k.pc = "confirm" /\ k.cmd = call[c].cmd /\ k.auth = call[c].auth
      /\ k.cap = Claims(c)
    BY <1>1, <1>2, ToFields DEF ShapedCall, Cmd
<1>4. PICK line : line = ResolveLineage(log, call[c].par) OBVIOUS
<1>5. \/ /\ LineageFits(line) /\ ParentLineageValid(line, authority, call[c].at)
         /\ Inputs(c) /\ IssueTrusted(log, line, Claims(c)) /\ Go(c, k)
      \/ \E code : Go(c, Answered(c, code))
    BY <1>2, <1>4 DEF Sign
<1>6. ASSUME LineageFits(line), ParentLineageValid(line, authority, call[c].at),
             Inputs(c), IssueTrusted(log, line, Claims(c))
      PROVE  Fit(log, k)
    <2>1. /\ Built(Claims(c))
          /\ Claims(c).action = "APPLY_CANARY" /\ line # <<>> =>
               Last(line).nb <= Claims(c).issued /\ Claims(c).issued < Last(line).exp
          /\ Cmd(c) \in Recoveries /\ call[c].auth = None => Len(Claims(c).id) = 7
        BY <1>1, <1>4, <1>6, ClaimsBuilt
    <2>2. Worthy(log, Claims(c)) BY <1>4, <1>6, <2>1, IssuedIsWorthy DEF Agreed
    <2>3. Fit(log, call[c]) BY DEF Agreed
    <2> QED BY <1>1, <1>3, <2>1, <2>2, <2>3 DEF Fit, Carries, Cmd
<1>7. CASE \E code : Go(c, Answered(c, code)) BY <1>1, <1>7, AnsweredFits, SettledAgreed
<1> QED BY <1>1, <1>5, <1>6, <1>7, SettledAgreed

\* The claims of every call stay worthy, and its task stays accepted.
LEMMA FitGrows ==
    ASSUME NEW l, LineageOK(l), NEW c, c.parent \in 0 .. Len(l), NEW k, Fit(l, k)
    PROVE  Fit(Append(l, c), k)
<1>1. PICK S : l \in Seq(S) BY DEF LineageOK
<1>2. PICK m : m = Append(l, c) OBVIOUS
<1>3. /\ Len(m) = Len(l) + 1 /\ Len(l) \in Nat /\ \A i \in 1 .. Len(l) : m[i] = l[i]
    BY <1>1, <1>2, AppendFacts
<1>4. (\E i \in 1 .. Len(l) : l[i] = k.cap) => \E i \in 1 .. Len(m) : m[i] = k.cap
    BY <1>3
<1>5. Worthy(l, k.cap) => Worthy(m, k.cap) BY <1>2, StaysWorthy
<1>6. Accepted(l, k.rec.task) => Accepted(m, k.rec.task) BY <1>2, StaysAccepted
<1> QED BY <1>2, <1>4, <1>5, <1>6 DEF Fit

LEMMA ConfirmAgreed ==
    ASSUME IInv, Agreed, NEW c \in Call, Confirm(c) PROVE Agreed'
<1> DEFINE cap == call[c].cap
           same == authority = call[c].seen /\ Inputs(c)
<1>1. call[c].pc = "confirm" /\ UNCHANGED <<wire, queue, dispatch, late>>
    BY DEF Confirm, ledger
<1>2. /\ Cmd(c) \in Command
      /\ Promotes(c) <=> Cmd(c) \in Promotions
      /\ Recovers(c) <=> Cmd(c) \in Recoveries
      /\ call[c].auth # None => Cmd(c) \in Recoveries
    BY <1>1, AtWork
<1>3. Worthy(log, cap) /\ Built(cap) /\ cap.parent \in 0 .. Len(log)
      /\ Fit(log, call[c])
    BY <1>1 DEF Agreed, Fit, Worthy
<1>4. PICK S : log \in Seq(S) BY DEF Agreed, LineageOK
<1>5. log' = log \/ log' = Append(log, cap) BY DEF Confirm
<1>6. LineageOK(log') BY <1>3, <1>5, LineageOKGrows DEF Agreed
<1>7. TasksAccepted(log)'
    <2>1. \A t : Accepted(log, t) => Accepted(log', t)
        BY <1>3, <1>5, StaysAccepted DEF Agreed
    <2> QED BY <1>1, <2>1 DEF Agreed, TasksAccepted
<1>8. \A d \in Call : Fit(log', call[d]) BY <1>3, <1>5, FitGrows DEF Agreed
<1>9. PICK k : k = [To(c, "record") EXCEPT !.seen = None] OBVIOUS
<1>10. k.pc = "record" /\ k.cmd = Cmd(c) /\ k.auth = call[c].auth /\ k.cap = cap
    BY <1>1, <1>9, ToFields DEF ShapedCall
<1>11. AuthorizationOf(k) = Authorization(c)
    BY <1>2, <1>10 DEF AuthorizationOf, Authorization
<1>12. \/ \E code : Go(c, Answered(c, code))
       \/ /\ Go(c, k) /\ same
          /\ Promotes(c) => CapabilityMatches(cap, Cmd(c), Authorization(c))
          /\ Applies(c) => CanaryMatches(cap, Cmd(c))
          /\ Recovers(c) => /\ IssuanceResultValid(cap, Authorization(c))
                            /\ IssuanceMatches(cap, Cmd(c), Authorization(c))
    BY <1>9 DEF Confirm
<1>13. ASSUME same, Promotes(c) => CapabilityMatches(cap, Cmd(c), Authorization(c)),
              Applies(c) => CanaryMatches(cap, Cmd(c)),
              Recovers(c) => /\ IssuanceResultValid(cap, Authorization(c))
                             /\ IssuanceMatches(cap, Cmd(c), Authorization(c))
       PROVE  Fit(log', k)
    <2>1. \E i \in 1 .. Len(log') : log'[i] = cap
        <3>1. CASE Contains(log, cap)
            <4>1. log' = log BY <3>1 DEF Confirm
            <4> QED BY <3>1, <4>1 DEF Contains
        <3>2. CASE ~Contains(log, cap)
            <4>1. log' = Append(log, cap) BY <1>13, <3>2 DEF Confirm
            <4>2. Len(log') = Len(log) + 1 /\ Len(log) \in Nat /\ log'[Len(log) + 1] = cap
                BY <1>4, <4>1, AppendFacts
            <4>3. Len(log) + 1 \in 1 .. Len(log') BY <4>2
            <4> QED BY <4>2, <4>3
        <3> QED BY <3>1, <3>2
    <2>2. Entitled(cap, Authorization(c))
        <3>1. CASE Promotes(c)
            <4>1. Authorization(c) = CreateAuthorization(Cmd(c))
                BY <3>1 DEF Authorization
            <4>2. AuthorizationValid(CreateAuthorization(Cmd(c)))
                BY <1>1, <1>2, <1>3, <3>1 DEF Fit, Cmd
            <4> QED BY <1>2, <1>3, <1>13, <3>1, <4>1, <4>2, PromotionEntitled
        <3>2. CASE Recovers(c)
            <4>1. Authorization(c) = call[c].auth
                BY <3>2 DEF Authorization, Promotes, Recovers
            <4>2. /\ RecoveryAuthorizationValid(call[c].auth) /\ call[c].auth.until \in Int
                  /\ call[c].auth = None => Len(cap.id) = 7
                BY <1>1, <1>2, <1>3, <3>2 DEF Fit, Cmd
            <4>3. TriggerValid(Cmd(c), authority) BY <1>13, <3>2 DEF Inputs, IssuerInputs
            <4>4. Root.version = "V3" BY <1>2, <3>2, <4>3, TriggerOfV3
            <4> QED BY <1>2, <1>3, <1>13, <3>2, <4>1, <4>2, <4>4, RecoveryEntitled
        <3>3. CASE ~Promotes(c) /\ ~Recovers(c)
            <4>1. Applies(c)
                BY <1>2, <3>3, DispatchConstants DEF Applies, Promotes, Recovers, Actions
            <4>2. Authorization(c) = None BY <1>2, <3>3 DEF Authorization
            <4> QED BY <1>13, <4>1, <4>2, CanaryEntitled
        <3> QED BY <3>1, <3>2, <3>3
    <2> QED BY <1>10, <1>11, <2>1, <2>2 DEF Fit, Carries
<1>14. \E n : Go(c, n) /\ Fit(log', n)
    <2>1. ASSUME NEW code PROVE Fit(log', Answered(c, code)) BY AnsweredFits
    <2> QED BY <1>12, <1>13, <2>1
<1>15. PICK n : Go(c, n) /\ Fit(log', n) BY <1>14
<1>16. call' = [call EXCEPT ![c] = n] /\ call = [d \in Call |-> call[d]]
    BY <1>15 DEF Go, IInv, CallsOK
<1>17. \A d \in Call : Fit(log', call'[d]) BY <1>8, <1>15, <1>16
<1> QED BY <1>6, <1>7, <1>17 DEF Agreed

-----------------------------------------------------------------------------
\* The task and its record.

\* The task of call c, while its capability is in the log.
LEMMA TaskForAccepted ==
    ASSUME Agreed, NEW c \in Call, call[c].pc = "record",
           Authorization(c) = AuthorizationOf(call[c])
    PROVE  Accepted(log, TaskFor(c))
<1> DEFINE cap == call[c].cap
           d == DigestOf(cap)
<1>1. PICK S : log \in Seq(S) BY DEF Agreed, LineageOK
<1>2. DOMAIN log = 1 .. Len(log) BY <1>1
<1>3. (\E i \in 1 .. Len(log) : log[i] = cap) /\ Entitled(cap, Authorization(c))
    BY DEF Agreed, Fit
<1>4. d \in 1 .. Len(log) /\ log[d] = cap BY <1>2, <1>3 DEF DigestOf
<1> HIDE DEF d
<1>5. Accepted(log, TaskOf(d, cap, Authorization(c), c))
    BY <1>3, <1>4, EntitledAccepted DEF Agreed
<1> QED BY <1>5 DEF TaskFor, d

LEMMA AuthorizationAgrees ==
    ASSUME IInv, NEW c \in Call, call[c].pc # "idle"
    PROVE  Authorization(c) = AuthorizationOf(call[c])
BY AtWork DEF Authorization, AuthorizationOf, Cmd

LEMMA RecordPromotionAgreed ==
    ASSUME IInv, Agreed, NEW c \in Call, RecordPromotion(c) PROVE Agreed'
<1>1. call[c].pc = "record" /\ Settled BY CallOnlySettles DEF RecordPromotion
<1>2. Accepted(log, TaskFor(c)) BY <1>1, AuthorizationAgrees, TaskForAccepted
<1> DEFINE r == [state |-> "PREPARED", rev |-> 0, task |-> TaskFor(c),
                 prepared |-> call[c].prep]
<1>3. PICK l : l = To(c, "prepare") OBVIOUS
<1>4. PICK k : k = [l EXCEPT !.rec = r, !.cap = None, !.prep = 0, !.at = 0] OBVIOUS
<1>5. k.pc = "prepare" /\ k.rec = r BY <1>1, <1>3, <1>4, ToFields DEF ShapedCall
<1>6. Fit(log, k) BY <1>2, <1>5 DEF Fit
<1>7. Go(c, k) \/ \E code : Go(c, Answered(c, code))
    BY <1>3, <1>4 DEF RecordPromotion
<1> QED BY <1>1, <1>6, <1>7, SettledAgreed

LEMMA RecordCanaryAgreed ==
    ASSUME IInv, Agreed, NEW c \in Call, RecordCanary(c) PROVE Agreed'
<1>1. /\ call[c].pc = "record" /\ Applies(c)
      /\ UNCHANGED <<log, queue, dispatch, late>>
    BY DEF RecordCanary, ledger
<1>2. Accepted(log, TaskFor(c)) BY <1>1, AuthorizationAgrees, TaskForAccepted
<1>3. CASE UNCHANGED wire /\ Go(c, Answered(c, "DISPATCH_UNAVAILABLE"))
    BY <1>1, <1>3, AnsweredFits, SettledAgreed DEF Settled
<1> DEFINE w == [state |-> "sent", task |-> TaskFor(c)]
<1>4. CASE /\ wire' = [wire EXCEPT ![c] = w]
           /\ Go(c, [To(c, "await") EXCEPT !.cap = None, !.at = 0])
    <2>1. PICK l : l = To(c, "await") OBVIOUS
    <2>2. PICK k : k = [l EXCEPT !.cap = None, !.at = 0] OBVIOUS
    <2>3. k.pc = "await" /\ k.cmd = Cmd(c) BY <1>1, <2>1, <2>2, ToFields DEF ShapedCall
    <2>4. Fit(log, k) BY <1>1, <2>3 DEF Fit, Carries, Applies, Promotions
    <2>5. TasksAccepted(log)'
        <3>1. \A d \in Call : wire'[d] # None => Accepted(log, wire'[d].task)
            BY <1>2, <1>4 DEF Agreed, TasksAccepted, IInv, CallsOK
        <3> QED BY <1>1, <3>1 DEF Agreed, TasksAccepted
    <2> QED BY <1>1, <1>4, <2>1, <2>2, <2>4, <2>5, CallAgreed
<1> QED BY <1>3, <1>4 DEF RecordCanary

LEMMA RecordRecoveryAgreed ==
    ASSUME IInv, Agreed, NEW c \in Call, RecordRecovery(c) PROVE Agreed'
<1>1. /\ call[c].pc = "record" /\ Recovers(c) /\ UNCHANGED <<log, wire, late>>
      /\ \E code : Go(c, Answered(c, code))
    BY DEF RecordRecovery
<1>2. Accepted(log, TaskFor(c)) BY <1>1, AuthorizationAgrees, TaskForAccepted
<1>3. queue' \subseteq queue \cup {TaskFor(c)} BY DEF RecordRecovery
<1>4. \A m \in Promotions : dispatch'[m] = dispatch[m]
    <2>1. Cmd(c) \in Recoveries BY <1>1, AtWork
    <2>2. \/ dispatch' = dispatch
          \/ \E r : dispatch' = [dispatch EXCEPT ![Cmd(c)] = r]
        BY DEF RecordRecovery
    <2> QED BY <2>1, <2>2, Disjoint DEF IInv, StoreOK, StoreTyped
<1>5. TasksAccepted(log)' BY <1>1, <1>2, <1>3, <1>4 DEF Agreed, TasksAccepted
<1> QED BY <1>1, <1>5, AnsweredFits, CallAgreed

LEMMA SealAgreed == ASSUME IInv, Agreed, NEW c \in Call, Seal(c) PROVE Agreed'
<1>1. call[c].pc = "seal" /\ Settled BY CallOnlySettles DEF Seal
<1>2. PICK k : k = To(c, "begin") OBVIOUS
<1>3. k.pc = "begin" /\ k.rec = call[c].rec BY <1>1, <1>2, ToFields
<1>4. Fit(log, k) BY <1>1, <1>3 DEF Agreed, Fit, Carries
<1> QED BY <1>1, <1>2, <1>4, SettledAgreed DEF Seal

LEMMA EnqueueAgreed == ASSUME IInv, Agreed, NEW c \in Call, Enqueue(c) PROVE Agreed'
<1>1. call[c].pc = "enqueue" /\ UNCHANGED <<log, queue, dispatch, late>>
    BY DEF Enqueue, ledger
<1>2. Accepted(log, call[c].rec.task) BY <1>1 DEF Agreed, Fit, Carries
<1>3. PICK k : k = To(c, "await") OBVIOUS
<1>4. k.pc = "await" /\ k.rec = call[c].rec BY <1>1, <1>3, ToFields
<1>5. Fit(log, k) BY <1>2, <1>4 DEF Fit
<1>6. TasksAccepted(log)'
    <2>1. PICK w : w = [state |-> "sent", task |-> call[c].rec.task] OBVIOUS
    <2>2. w.task = call[c].rec.task /\ wire' = [wire EXCEPT ![c] = w]
        BY <2>1 DEF Enqueue
    <2>3. \A d \in Call : wire'[d] # None => Accepted(log, wire'[d].task)
        BY <1>2, <2>2 DEF Agreed, TasksAccepted, IInv, CallsOK
    <2> QED BY <1>1, <2>3 DEF Agreed, TasksAccepted
<1> QED BY <1>1, <1>3, <1>5, <1>6, CallAgreed DEF Enqueue

LEMMA EnqueueReturnsAgreed ==
    ASSUME IInv, Agreed, NEW c \in Call, EnqueueReturns(c) PROVE Agreed'
<1>1. call[c].pc = "await" /\ Settled BY CallOnlySettles DEF EnqueueReturns
<1>2. PICK d : Go(c, Dispatched(c, d)) BY DEF EnqueueReturns
<1>3. CASE ~Promotes(c)
    BY <1>1, <1>2, <1>3, AnsweredFits, SettledAgreed DEF Dispatched
<1>4. CASE Promotes(c)
    <2>1. PICK l : l = To(c, "finish") OBVIOUS
    <2>2. ShapedCall(l) /\ l.pc = "finish" /\ l.rec = call[c].rec
        BY <1>1, <2>1, ToFields
    <2>3. PICK r : r = [call[c].rec EXCEPT !.state = d, !.rev = 2] OBVIOUS
    <2>4. PICK k : k = [l EXCEPT !.rec = [@ EXCEPT !.state = d, !.rev = 2]] OBVIOUS
    <2>5. k.pc = "finish" /\ k.rec = r BY <2>2, <2>3, <2>4 DEF ShapedCall
    <2>6. Cmd(c) \in Promotions /\ ShapedRecord(call[c].rec)
        BY <1>1, <1>4, AtWork DEF CallOK, Wired, RecordOf, Cmd
    <2>7. r.task = call[c].rec.task BY <2>3, <2>6 DEF ShapedRecord
    <2>8. Accepted(log, call[c].rec.task) BY <1>1, <2>6 DEF Agreed, Fit, Carries, Cmd
    <2>9. Fit(log, k) BY <2>5, <2>7, <2>8 DEF Fit
    <2>10. Go(c, k) BY <1>2, <1>4, <2>1, <2>4 DEF Dispatched
    <2> QED BY <1>1, <2>9, <2>10, SettledAgreed
<1> QED BY <1>3, <1>4

-----------------------------------------------------------------------------
\* Transactions carry accepted tasks.

\* What a transaction writes has the task it was built with.
LEMMA CommitAccepted ==
    ASSUME IInv, Agreed, NEW o, TxOK(o.op, o.cmd, o.rec, queue), o.op \in Ops, Commit(o),
           Accepted(log, o.rec.task)
    PROVE  /\ Accepted(log, Written(o).task)
           /\ \A m \in Promotions : dispatch'[m] # NoRecord => Accepted(log, dispatch'[m].task)
<1>1. o.cmd \in Promotions /\ ShapedRecord(o.rec) BY DEF TxOK, RecordOf
<1>2. Written(o).task = o.rec.task BY <1>1 DEF Written, ShapedRecord
<1>3. dispatch' = [dispatch EXCEPT ![o.cmd] = Written(o)] BY DEF Commit
<1>4. \A m \in Promotions : dispatch'[m] = dispatch[m] \/ dispatch'[m] = Written(o)
    BY <1>1, <1>3 DEF IInv, StoreOK, StoreTyped
<1> QED BY <1>2, <1>4 DEF Agreed, TasksAccepted

LEMMA TxAccepted ==
    ASSUME IInv, Agreed, NEW c \in Call, call[c].pc \in Ops
    PROVE  Accepted(log, Tx(c).rec.task)
<1>1. Carries(call[c]) BY DEF Carries, Ops
<1> QED BY <1>1, TxIsOK DEF Agreed, Fit

LEMMA LostAccepted ==
    ASSUME IInv, Agreed, NEW o, TxOK(o.op, o.cmd, o.rec, queue), o.op \in Ops, Lost(o),
           Accepted(log, o.rec.task), UNCHANGED <<log, wire, queue>>
    PROVE  TasksAccepted(log)'
<1>1. CASE Commit(o) /\ UNCHANGED late
    BY <1>1, CommitAccepted DEF Agreed, TasksAccepted
<1>2. CASE UNCHANGED <<ledger, late>> BY <1>2 DEF Agreed, TasksAccepted, ledger
<1>3. CASE UNCHANGED ledger /\ late' = late \cup {o}
    BY <1>3 DEF Agreed, TasksAccepted, ledger
<1> QED BY <1>1, <1>2, <1>3 DEF Lost

LEMMA AfterFits ==
    ASSUME IInv, Agreed, NEW c \in Call, call[c].pc # "idle", Cmd(c) \in Promotions
    PROVE  Fit(log, AfterPrepare(c)) /\ Fit(log, AfterTransition(c))
<1>1. Fit(log, AfterTransition(c)) BY AnsweredFits DEF AfterTransition
<1>2. Fit(log, AfterPrepare(c)) BY AnsweredFits, FoundRecord, AdoptFits DEF AfterPrepare
<1> QED BY <1>1, <1>2

LEMMA CommitConfirmedAgreed ==
    ASSUME IInv, Agreed, NEW c \in Call, CommitConfirmed(c) PROVE Agreed'
<1>1. /\ call[c].pc \in Ops /\ Commit(Tx(c)) /\ Go(c, Committed(c))
      /\ UNCHANGED <<log, wire, queue, late>>
    BY DEF CommitConfirmed, world
<1>2. /\ call[c].pc # "idle" /\ Accepted(log, Tx(c).rec.task) /\ Tx(c).rec = call[c].rec
      /\ TxOK(Tx(c).op, Tx(c).cmd, Tx(c).rec, queue) /\ Tx(c).op \in Ops
    BY <1>1, TxIsOK, TxAccepted
<1>3. /\ Accepted(log, Written(Tx(c)).task)
      /\ \A m \in Promotions : dispatch'[m] # NoRecord => Accepted(log, dispatch'[m].task)
    BY <1>1, <1>2, CommitAccepted
<1>4. TasksAccepted(log)' BY <1>1, <1>3 DEF Agreed, TasksAccepted
<1>5. CASE call[c].pc = "prepare"
    <2>1. PICK k : k = To(c, "seal") OBVIOUS
    <2>2. k.pc = "seal" /\ k.rec = call[c].rec BY <1>2, <2>1, ToFields
    <2>3. Fit(log, k) BY <1>2, <2>2 DEF Fit
    <2>4. Go(c, k) BY <1>1, <1>5, <2>1 DEF Committed
    <2> QED BY <1>1, <1>4, <2>3, <2>4, CallAgreed
<1>6. CASE call[c].pc = "begin"
    <2>1. PICK l : l = To(c, "enqueue") OBVIOUS
    <2>2. PICK k : k = [l EXCEPT !.rec = Written(Tx(c))] OBVIOUS
    <2>3. k.pc = "enqueue" /\ k.rec = Written(Tx(c))
        BY <1>2, <2>1, <2>2, ToFields DEF ShapedCall
    <2>4. Fit(log, k) BY <1>3, <2>3 DEF Fit
    <2>5. Go(c, k) BY <1>1, <1>6, <2>1, <2>2 DEF Committed
    <2> QED BY <1>1, <1>4, <2>4, <2>5, CallAgreed
<1>7. CASE call[c].pc = "finish"
    <2>1. Go(c, Answered(c, call[c].rec.state)) BY <1>1, <1>7 DEF Committed
    <2> QED BY <1>1, <1>4, <2>1, AnsweredFits, CallAgreed
<1> QED BY <1>1, <1>5, <1>6, <1>7 DEF Ops

LEMMA CommitRefusedAgreed ==
    ASSUME IInv, Agreed, NEW c \in Call, CommitRefused(c) PROVE Agreed'
<1>1. call[c].pc \in Ops /\ Settled BY CallOnlySettles DEF CommitRefused
<1>2. call[c].pc # "idle" /\ Cmd(c) \in Promotions BY <1>1, TxIsOK
<1>3. Go(c, AfterPrepare(c)) \/ Go(c, AfterTransition(c)) BY DEF CommitRefused, AfterConflict
<1> QED BY <1>1, <1>2, <1>3, AfterFits, SettledAgreed

LEMMA ReadBackAgreed == ASSUME IInv, Agreed, NEW c \in Call, ReadBack(c) PROVE Agreed'
<1>1. call[c].pc = "readback" /\ Settled BY CallOnlySettles DEF ReadBack
<1>2. call[c].pc # "idle" /\ Cmd(c) \in Promotions
    BY <1>1, AtWork DEF CallOK, Local, PromotionPcs, Cmd
<1>3. Accepted(log, call[c].rec.task) BY <1>1 DEF Agreed, Fit, Carries
<1>4. PICK k : k = To(c, "seal") OBVIOUS
<1>5. k.pc = "seal" /\ k.rec = call[c].rec BY <1>2, <1>4, ToFields
<1>6. Fit(log, k) BY <1>3, <1>5 DEF Fit
<1>7. \/ Go(c, AfterTransition(c)) \/ Go(c, AfterPrepare(c))
      \/ \E code : Go(c, Answered(c, code))
      \/ Go(c, k)
    BY <1>4 DEF ReadBack, Resolved
<1> QED BY <1>1, <1>2, <1>6, <1>7, AfterFits, SettledAgreed

LEMMA CommitLostAgreed ==
    ASSUME IInv, Agreed, NEW c \in Call, CommitLost(c) PROVE Agreed'
<1>1. /\ call[c].pc \in Ops /\ Lost(Tx(c)) /\ UNCHANGED <<log, wire, queue>>
      /\ Go(c, [To(c, "readback") EXCEPT !.op = call[c].pc])
    BY DEF CommitLost, world
<1>2. /\ call[c].pc # "idle" /\ Accepted(log, Tx(c).rec.task) /\ Tx(c).rec = call[c].rec
      /\ TxOK(Tx(c).op, Tx(c).cmd, Tx(c).rec, queue) /\ Tx(c).op \in Ops
    BY <1>1, TxIsOK, TxAccepted
<1>3. TasksAccepted(log)' BY <1>1, <1>2, LostAccepted
<1>4. PICK l : l = To(c, "readback") OBVIOUS
<1>5. PICK k : k = [l EXCEPT !.op = call[c].pc] OBVIOUS
<1>6. k.pc = "readback" /\ k.rec = call[c].rec
    BY <1>2, <1>4, <1>5, ToFields DEF ShapedCall
<1>7. Fit(log, k) BY <1>2, <1>6 DEF Fit
<1> QED BY <1>1, <1>3, <1>4, <1>5, <1>7, CallAgreed

LEMMA CrashAgreed == ASSUME IInv, Agreed, NEW c \in Call, Crash(c) PROVE Agreed'
<1>1. /\ UNCHANGED <<log, wire, queue>> /\ Go(c, Answered(c, "UNAVAILABLE"))
      /\ \/ call[c].pc \in Ops /\ Lost(Tx(c))
         \/ UNCHANGED <<ledger, late>>
    BY DEF Crash, world
<1>2. TasksAccepted(log)'
    <2>1. CASE call[c].pc \in Ops /\ Lost(Tx(c))
        BY <1>1, <2>1, TxIsOK, TxAccepted, LostAccepted
    <2>2. CASE UNCHANGED <<ledger, late>>
        BY <1>1, <2>2, TasksStay DEF Settled, ledger
    <2> QED BY <1>1, <2>1, <2>2
<1> QED BY <1>1, <1>2, AnsweredFits, CallAgreed

-----------------------------------------------------------------------------
\* The other steps.

LEMMA TasksAgreed ==
    ASSUME Agreed, UNCHANGED <<log, call>>, TasksAccepted(log)' PROVE Agreed'
BY DEF Agreed

LEMMA LandLateAgreed == ASSUME IInv, Agreed, NEW o \in late, LandLate(o) PROVE Agreed'
<1>1. /\ UNCHANGED <<log, call, wire, queue>> /\ late' \subseteq late
      /\ Commit(o) \/ UNCHANGED ledger
    BY DEF LandLate, world
<1>2. o.op \in Ops /\ TxOK(o.op, o.cmd, o.rec, queue) /\ Accepted(log, o.rec.task)
    BY DEF IInv, LateOK, Agreed, TasksAccepted
<1>3. \A m \in Promotions : dispatch'[m] # NoRecord => Accepted(log, dispatch'[m].task)
    <2>1. CASE Commit(o) BY <1>2, <2>1, CommitAccepted
    <2>2. CASE UNCHANGED ledger BY <2>2 DEF ledger, Agreed, TasksAccepted
    <2> QED BY <1>1, <2>1, <2>2
<1>4. TasksAccepted(log)' BY <1>1, <1>3 DEF Agreed, TasksAccepted
<1> QED BY <1>1, <1>4, TasksAgreed

\* Cloud Tasks holds what was sent.
LEMMA RequestAgreed ==
    ASSUME IInv, Agreed, NEW c \in Call, CreateTask(c) \/ CreateTaskTwice(c) PROVE Agreed'
<1>1. /\ UNCHANGED <<log, call, dispatch, late>> /\ wire[c] # None
      /\ queue' \subseteq queue \cup {wire[c].task}
      /\ \E s : wire' = [wire EXCEPT ![c].state = s]
    BY DEF CreateTask, CreateTaskTwice, ledger
<1>2. PICK s : wire' = [wire EXCEPT ![c].state = s] BY <1>1
<1>3. PICK w : w = [wire[c] EXCEPT !.state = s] OBVIOUS
<1>4. w.task = wire[c].task
    BY <1>1, <1>3 DEF IInv, CallsOK, CallOK, Wired
<1>5. wire' = [wire EXCEPT ![c] = w] BY <1>2, <1>3
<1>6. TasksAccepted(log)'
    BY <1>1, <1>4, <1>5 DEF Agreed, TasksAccepted, IInv, CallsOK
<1> QED BY <1>1, <1>6, TasksAgreed

LEMMA SettledStays == ASSUME Agreed, Settled, UNCHANGED call PROVE Agreed'
BY TasksStay, TasksAgreed DEF Settled

LEMMA InitAgreed == Init => Agreed
<1> SUFFICES ASSUME Init PROVE Agreed OBVIOUS
<1>1. log = <<>> /\ Len(log) = 0 BY DEF Init
<1>2. LineageOK(log)
    <2>1. PICK g : g = [i \in 0 .. 0 |-> <<>>] OBVIOUS
    <2>2. g = [i \in 0 .. 0 |->
                 IF i = 0 THEN <<>> ELSE Append(g[log[i].parent], SignedAt(log, i))]
        <3>1. \A i \in 0 .. 0 : i = 0 OBVIOUS
        <3> QED BY <2>1, <3>1
    <2>3. Unfolded(log, Lineage(log)) BY <1>1, <2>2, LineageUnfolds DEF Unfolded
    <2>4. log \in Seq({}) BY <1>1
    <2> QED BY <1>1, <2>3, <2>4 DEF LineageOK
<1>3. TasksAccepted(log) BY DEF Init, TasksAccepted
<1>4. \A c \in Call : Fit(log, call[c]) BY IdleFields DEF Init, Fit, Carries
<1> QED BY <1>2, <1>3, <1>4 DEF Agreed

LEMMA AgreedInvariance == IInv /\ Timed /\ Agreed /\ [Next]_vars => Agreed'
<1> SUFFICES ASSUME IInv, Timed, Agreed, [Next]_vars PROVE Agreed' OBVIOUS
<1>1. ASSUME NEW c \in Call, CallStep(c) PROVE Agreed'
    BY <1>1, ReadDispatchAgreed, ResolveAgreed, IssueAgreed, SignAgreed, ConfirmAgreed,
       OwnIntentAgreed, ReadRecoveryAgreed, ReadInputsAgreed, ObserveAgreed,
       AuthorizeAgreed, RecordPromotionAgreed, RecordCanaryAgreed, RecordRecoveryAgreed,
       SealAgreed, EnqueueAgreed, EnqueueReturnsAgreed, CommitConfirmedAgreed,
       CommitRefusedAgreed, ReadBackAgreed
    DEF CallStep
<1>2. ASSUME NEW c \in Call, CallFault(c) PROVE Agreed'
    <2>1. CASE Unavailable(c)
        BY <2>1, CallOnlySettles, AnsweredFits, SettledAgreed DEF Unavailable
    <2> QED BY <1>2, <2>1, CommitLostAgreed, CrashAgreed, RequestAgreed DEF CallFault
<1>3. ASSUME NEW c \in Call, NEW m \in Command, NEW par, Begin(c, m, par) PROVE Agreed'
    BY <1>3, BeginAgreed
<1>4. ASSUME NEW c \in Call, CreateTask(c) PROVE Agreed' BY <1>4, RequestAgreed
<1>5. ASSUME NEW o \in late, LandLate(o) PROVE Agreed' BY <1>5, LandLateAgreed
<1>6. ASSUME NEW t, NEW claim, AdvanceEpoch(t, claim) PROVE Agreed'
    BY <1>6, SettledStays DEF AdvanceEpoch, Settled, ledger
<1>7. ASSUME NEW r, ReadProof(r) PROVE Agreed'
    BY <1>7, SettledStays DEF ReadProof, Settled, ledger
<1>8. ASSUME NEW m, HealthTerminates(m) PROVE Agreed'
    BY <1>8, SettledStays DEF HealthTerminates, Settled, ledger
<1>9. CASE Tick BY <1>9, SettledStays DEF Tick, Settled, ledger
<1>10. CASE UNCHANGED vars BY <1>10, SettledStays DEF vars, Settled
<1> QED BY <1>1, <1>2, <1>3, <1>4, <1>5, <1>6, <1>7, <1>8, <1>9, <1>10 DEF Next

\* CapabilityVerifier.verify allows every task in the queue at every second of its
\* window: what the issuer signs and the coordinator enqueues, the executor accepts.
THEOREM SignedIsAccepted == Spec => []IssuerAndExecutorAgree
<1>1. Agreed => IssuerAndExecutorAgree
    BY DEF Agreed, TasksAccepted, Accepted, IssuerAndExecutorAgree
<1> QED BY <1>1, InitInv, Invariance, InitTimed, TimedInvariance, InitAgreed,
           AgreedInvariance, PTL DEF Spec

=============================================================================
