------------------------- MODULE RootAuthorityProofs -------------------------
(***************************************************************************)
(* RootAuthority is type correct, keeps every evidence chain in one piece  *)
(* and implements ServiceTenure, for every set of calls and commands and   *)
(* any number of late transactions.                                        *)
(*                                                                         *)
(* TypeOK alone is not inductive: a transaction's documents are built from *)
(* a snapshot, and what it writes is right because its snapshot was read   *)
(* under the checks of its kind.  Fits says which snapshots those are, for *)
(* the calls that still hold one and for the transactions that are late.   *)
(*                                                                         *)
(* The answers need a second invariant (HistoryTrue): what a caller was    *)
(* told, and what a denied or failed call relied on, is never taken back.  *)
(***************************************************************************)
EXTENDS RootAuthority, TLAPS

\* The snapshot s is one that a transaction op of command m is built from.
Fits(op, m, s) ==
    /\ op = "create" => s.claim.status \in {"NONE", "RELEASED"} /\ s.head = 0
    /\ op # "create" => m.root \in Root /\ s.claim.root = m.root
    /\ op \in {"revoke", "fence"} => s.claim.status = "ACTIVE"
    /\ op = "finalize" => s.claim.status = "RELEASING"

\* What the call state l may be committing, or about to commit.
CallFits(l) ==
    /\ l.pc # "idle" => l.cmd \in Command
    /\ l.pc \in {"commit", "readback", "adopt"} => l.op \in Ops /\ Fits(l.op, l.cmd, l.snap)
    /\ l.pc = "preflight" => Fits("create", l.cmd, l.snap)
    /\ l.pc = "target" => Fits("finalize", l.cmd, l.snap)

\* Roots that are still to come have no state.
Untouched == \A r \in Root : r > claim.root => epoch[r] = 0 /\ head[r] = 0

IInv ==
    /\ TypeOK
    /\ \A c \in Call : CallFits(call[c])
    /\ \A o \in late : Fits(o.op, o.cmd, o.snap)
    /\ Untouched
    /\ ChainUnforked

-----------------------------------------------------------------------------
\* Local states.

\* The initial values of the local state have their types.
LEMMA NothingTyped == NoClaim \in Claims /\ NoSnap \in Snaps /\ Idle \in Locals
BY RootConstants DEF NoClaim, Claims, NoSnap, Snaps, Unseen, Idle, Locals, Ops, Codes

\* A step of one call to a local state that fits leaves all calls fitting.
LEMMA GoFits ==
    ASSUME TypeOK, \A c \in Call : CallFits(call[c]),
           NEW c \in Call, NEW next \in Locals, CallFits(next), Go(c, next)
    PROVE  call' \in [Call -> Locals] /\ (\A d \in Call : CallFits(call'[d]))
<1>1. call \in [Call -> Locals] BY DEF TypeOK
<1>2. call' = [call EXCEPT ![c] = next] BY DEF Go
<1>3. call' \in [Call -> Locals] BY <1>1, <1>2
<1>4. ASSUME NEW d \in Call PROVE CallFits(call'[d])
    <2>1. call'[d] = next \/ call'[d] = call[d] BY <1>1, <1>2
    <2> QED BY <2>1
<1> QED BY <1>3, <1>4

\* Local states without a snapshot always fit.
LEMMA PlainFits ==
    ASSUME NEW l \in Locals, l.cmd \in Command,
           l.pc \notin {"commit", "readback", "adopt", "preflight", "target"}
    PROVE  CallFits(l)
BY DEF CallFits

\* An answer is a local state.
LEMMA AnsweredFits ==
    ASSUME TypeOK, NEW c \in Call, Cmd(c) \in Command, NEW code \in Codes
    PROVE  Answered(c, code) \in Locals /\ CallFits(Answered(c, code))
<1>1. Answered(c, code) \in Locals
    BY NothingTyped DEF Answered, Locals, Idle
<1>2. Answered(c, code).pc = "done" /\ Answered(c, code).cmd = Cmd(c)
    BY DEF Answered, Idle
<1> QED BY <1>1, <1>2, PlainFits

\* So is a call that goes on without a snapshot, another turn and a denial.
LEMMA AtFits ==
    ASSUME TypeOK, NEW c \in Call, Cmd(c) \in Command,
           NEW pc \in {"raced", "bundle", "read", "audit", "classify", "resolve"}
    PROVE  /\ At(c, pc) \in Locals /\ CallFits(At(c, pc))
           /\ At(c, pc).pc = pc /\ At(c, pc).cmd = Cmd(c)
<1>1. call[c] \in Locals BY DEF TypeOK
<1>2. At(c, pc) \in Locals BY <1>1, NothingTyped DEF At, Locals, Ops
<1>3. At(c, pc).pc = pc /\ At(c, pc).cmd = Cmd(c) BY <1>1 DEF At, Cmd, Locals
<1> QED BY <1>2, <1>3, PlainFits

LEMMA AgainFits ==
    ASSUME TypeOK, NEW c \in Call, Cmd(c) \in Command
    PROVE  Again(c) \in Locals /\ CallFits(Again(c))
<1>1. At(c, "read") \in Locals /\ At(c, "read").pc = "read" /\ At(c, "read").cmd = Cmd(c)
    BY AtFits
<1>2. At(c, "read").tries + 1 \in Nat BY <1>1 DEF Locals
<1>3. Again(c) \in Locals BY <1>1, <1>2 DEF Again, Locals
<1>4. Again(c).pc = "read" /\ Again(c).cmd = Cmd(c) BY <1>1 DEF Again, Locals
<1> QED BY <1>3, <1>4, PlainFits

LEMMA DeniedFits ==
    ASSUME TypeOK, NEW c \in Call, Cmd(c) \in Command, NEW code \in Codes
    PROVE  Denied(c, code) \in Locals /\ CallFits(Denied(c, code))
<1>1. At(c, "audit") \in Locals /\ At(c, "audit").pc = "audit" /\ At(c, "audit").cmd = Cmd(c)
    BY AtFits
<1>2. Denied(c, code) \in Locals BY <1>1 DEF Denied, Locals
<1>3. Denied(c, code).pc = "audit" /\ Denied(c, code).cmd = Cmd(c) BY <1>1 DEF Denied, Locals
<1> QED BY <1>2, <1>3, PlainFits

\* A call that goes on to commit op fits if its snapshot does.
LEMMA BuildingFits ==
    ASSUME TypeOK, NEW c \in Call, Cmd(c) \in Command, NEW op \in Ops,
           NEW snap \in Snaps, Fits(op, Cmd(c), snap)
    PROVE  Building(c, op, snap) \in Locals /\ CallFits(Building(c, op, snap))
<1>1. call[c] \in Locals BY DEF TypeOK
<1>2. Building(c, op, snap) \in Locals BY <1>1 DEF Building, Locals, Ops
<1>3. /\ Building(c, op, snap).pc = "commit" /\ Building(c, op, snap).cmd = Cmd(c)
      /\ Building(c, op, snap).op = op /\ Building(c, op, snap).snap = snap
    BY <1>1 DEF Building, Cmd, Locals
<1> QED BY <1>2, <1>3 DEF CallFits

\* The terminal receipt has an epoch.
LEMMA ReceiptTyped ==
    ASSUME TypeOK, NEW m, m.root \in Root
    PROVE  TerminalReceipt(m) \in Nat
<1> DEFINE mine == {v \in verified[m.root] : v.action = m.action}
<1>1. \A v \in mine : v.epoch \in Nat BY DEF TypeOK
<1> HIDE DEF mine
<1>2. CASE mine = {} BY <1>2 DEF TerminalReceipt, mine
<1>3. CASE mine # {}
    <2>1. (CHOOSE v \in mine : TRUE) \in mine BY <1>3
    <2>2. TerminalReceipt(m) = (CHOOSE v \in mine : TRUE).epoch
        BY <1>3 DEF TerminalReceipt, mine
    <2> QED BY <1>1, <2>1, <2>2
<1> QED BY <1>2, <1>3

\* A snapshot of an existing root is well typed.
LEMMA SnapshotTyped ==
    ASSUME TypeOK, NEW m, m.root \in Root
    PROVE  /\ RevocationSnapshot(m) \in Snaps
           /\ RevocationSnapshot(m).claim = claim
           /\ ReleaseSnapshot(m) \in Snaps
           /\ ReleaseSnapshot(m).claim = claim
<1>1. epoch[m.root] \in Nat /\ head[m.root] \in Nat /\ claim \in Claims BY DEF TypeOK
<1>2. TerminalReceipt(m) \in Nat BY ReceiptTyped
<1>3. Unseen \in [version : Nat, traffic : Traffic \cup {"NONE"}] BY DEF Unseen
<1> QED BY <1>1, <1>2, <1>3 DEF RevocationSnapshot, ReleaseSnapshot, Snaps

\* The denials are codes, and a command that is not denied fits its transaction.
LEMMA RevocationAdmits ==
    ASSUME TypeOK, NEW m \in Command
    PROVE  /\ RevocationDenial(m) \in Codes
           /\ RevocationDenial(m) = "none" =>
                 m.root \in Root /\ claim.root = m.root /\ claim.status = "ACTIVE"
BY DEF RevocationDenial, Codes, Trusted, RootExists

LEMMA ReleaseAdmits ==
    ASSUME TypeOK, NEW m \in Command
    PROVE  /\ ReleaseDenial(m) \in Codes
           /\ ReleaseDenial(m) = "none" =>
                 /\ m.root \in Root /\ claim.root = m.root
                 /\ claim.status = IF m \in progress THEN "RELEASING" ELSE "ACTIVE"
BY DEF ReleaseDenial, Codes, Trusted, RootExists, ProgressIsExact

-----------------------------------------------------------------------------
\* Transactions.

\* s is a sequence of n events to append.
EventSeq(s, n) ==
    /\ DOMAIN s = 1..n /\ Len(s) = n
    /\ \A i \in 1..n : /\ s[i].epoch \in Nat
                       /\ s[i].kind \in {"ROOT_CREATED", "EPOCH_ADVANCED", "TERMINAL",
                                         "CLASSIFIED", "RELEASED"}

\* Appending after the head keeps the chain of a root in one piece.
LEMMA AppendedKeepsChain ==
    ASSUME TypeOK, ChainUnforked, NEW o \in Txs, NEW r \in Root,
           NEW s, NEW n \in Nat, EventSeq(s, n), o.snap.head = head[r], Appended(o, r, s)
    PROVE  events' \subseteq Evidence /\ head' \in [Root -> Nat] /\ ChainUnforked'
<1> DEFINE N(i) == [root |-> r, seq |-> head[r] + i, kind |-> s[i].kind,
                    epoch |-> s[i].epoch, by |-> o.by]
<1>1. /\ events \subseteq Evidence /\ head \in [Root -> Nat] /\ head[r] \in Nat
      /\ o.by \in Call
    BY DEF TypeOK, Txs
<1>2. events' = events \cup {N(i) : i \in 1..n} BY DEF Appended, EventSeq
<1>3. head' = [head EXCEPT ![r] = head[r] + n] BY DEF Appended, EventSeq
<1>4. \A i \in 1..n : N(i) \in Evidence BY <1>1 DEF Evidence, EventSeq
<1>5. head' \in [Root -> Nat] /\ head'[r] = head[r] + n BY <1>1, <1>3
<1>6. \A i \in 1..n : N(i).root = r /\ N(i).seq = head[r] + i OBVIOUS
<1> HIDE DEF N
<1>7. ASSUME NEW q \in Root
      PROVE  LET mine == {e \in events' : e.root = q} IN
             /\ {e.seq : e \in mine} = 1..head'[q]
             /\ \A e, f \in mine : e.seq = f.seq => e = f
    <2> DEFINE old == {e \in events : e.root = q}
               mine == {e \in events' : e.root = q}
    <2>1. {e.seq : e \in old} = 1..head[q] /\ (\A e, f \in old : e.seq = f.seq => e = f)
        BY DEF ChainUnforked
    <2>2. CASE q # r
        <3>1. mine = old BY <1>2, <1>6, <2>2
        <3>2. head'[q] = head[q] BY <1>1, <1>3, <2>2
        <3> QED BY <2>1, <3>1, <3>2
    <2>3. CASE q = r
        <3>1. mine = old \cup {N(i) : i \in 1..n} BY <1>2, <1>6, <2>3
        <3>2. \A e \in old : e.seq \in 1..head[r] BY <2>1, <2>3
        <3>3. \A k \in 1..head[r] : \E e \in old : e.seq = k BY <2>1, <2>3
        <3> HIDE DEF old, mine
        <3>4. \A e \in mine : e.seq \in 1..(head[r] + n) BY <1>1, <1>6, <3>1, <3>2
        <3>5. ASSUME NEW k \in 1..(head[r] + n) PROVE \E e \in mine : e.seq = k
            <4>1. CASE k <= head[r]
                <5>1. PICK e \in old : e.seq = k BY <1>1, <3>3, <4>1
                <5> QED BY <3>1, <5>1
            <4>2. CASE k > head[r]
                <5>1. k - head[r] \in 1..n BY <1>1, <4>2
                <5>2. N(k - head[r]) \in mine BY <3>1, <5>1
                <5>3. N(k - head[r]).seq = k BY <1>1, <1>6, <5>1
                <5> QED BY <5>2, <5>3
            <4> QED BY <1>1, <4>1, <4>2
        <3>6. {e.seq : e \in mine} = 1..(head[r] + n) BY <3>4, <3>5
        <3>7. ASSUME NEW e \in mine, NEW f \in mine, e.seq = f.seq PROVE e = f
            <4>1. CASE e \in old /\ f \in old BY <2>1, <3>7, <4>1 DEF old
            <4>2. CASE e \in old /\ f \notin old
                <5>1. PICK i \in 1..n : f = N(i) BY <3>1, <4>2
                <5> QED BY <1>1, <1>6, <3>2, <3>7, <4>2, <5>1
            <4>3. CASE e \notin old /\ f \in old
                <5>1. PICK i \in 1..n : e = N(i) BY <3>1, <4>3
                <5> QED BY <1>1, <1>6, <3>2, <3>7, <4>3, <5>1
            <4>4. CASE e \notin old /\ f \notin old
                <5>1. PICK i \in 1..n : e = N(i) BY <3>1, <4>4
                <5>2. PICK j \in 1..n : f = N(j) BY <3>1, <4>4
                <5>3. i = j BY <1>1, <1>6, <3>7, <5>1, <5>2
                <5> QED BY <5>1, <5>2, <5>3
            <4> QED BY <4>1, <4>2, <4>3, <4>4
        <3> QED BY <1>5, <2>3, <3>6, <3>7 DEF mine
    <2> QED BY <2>2, <2>3
<1>8. events' \subseteq Evidence BY <1>1, <1>2, <1>4
<1> QED BY <1>5, <1>7, <1>8 DEF ChainUnforked

\* What a step may do to the root that is not in charge: nothing.
OnlyTheOwner ==
    \A r \in Root : epoch[r] # 0 /\ (epoch'[r] # epoch[r] \/ head'[r] # head[r])
                   => claim.root = r /\ claim.status \in {"ACTIVE", "RELEASING"}

StoreTyped ==
    /\ claim \in Claims
    /\ epoch \in [Root -> Nat] /\ head \in [Root -> Nat] /\ events \subseteq Evidence
    /\ creator \in [Root -> Command \cup {NoCommand}]
    /\ progress \subseteq Command /\ done \subseteq Command
    /\ audit \in [Call -> {"NONE", "COMMITTED", "ADOPTED", "DENIED"}]

\* A creation that commits takes the service for a root without a past.
LEMMA WriteRootKeeps ==
    ASSUME IInv, NEW o \in Txs, Fits(o.op, o.cmd, o.snap), CreateMatches(o), WriteRoot(o)
    PROVE  StoreTyped' /\ Untouched' /\ ChainUnforked' /\ Tenure!Take /\ OnlyTheOwner
<1> DEFINE r == o.snap.claim.root + 1
           s == <<Event("ROOT_CREATED", 1)>>
<1>1. /\ TypeOK /\ ChainUnforked /\ Untouched /\ o.cmd \in Command
      /\ claim \in Claims /\ claim.root \in 0..MaxRoots
      /\ epoch \in [Root -> Nat] /\ head \in [Root -> Nat]
    BY DEF IInv, TypeOK, Txs, Claims
<1>2. /\ claim = o.snap.claim /\ claim.status \in {"NONE", "RELEASED"} /\ o.snap.head = 0
      /\ r \in Root /\ r = claim.root + 1
    BY DEF CreateMatches, WriteRoot, Fits
<1>3. epoch[r] = 0 /\ head[r] = 0 BY <1>1, <1>2 DEF Untouched, Root
<1>4. Appended(o, r, s) BY DEF WriteRoot
<1>5. EventSeq(s, 1) BY DEF Event, EventSeq
<1> HIDE DEF s
<1>6. events' \subseteq Evidence /\ head' \in [Root -> Nat] /\ ChainUnforked'
    BY <1>1, <1>2, <1>3, <1>4, <1>5, AppendedKeepsChain
<1>7. \A q \in Root : q # r => head'[q] = head[q] BY <1>1, <1>4 DEF Appended
<1>8. claim' = [root |-> r, status |-> "ACTIVE", owner |-> o.cmd, fence |-> NoCommand]
    BY <1>2 DEF WriteRoot, CreatedClaim
<1>9. epoch' = [epoch EXCEPT ![r] = 1] /\ epoch' \in [Root -> Nat] BY <1>1 DEF WriteRoot
<1>10. claim' \in Claims BY <1>1, <1>2, <1>8, RootConstants DEF Claims, Root
<1>11. creator' \in [Root -> Command \cup {NoCommand}]
    BY <1>1 DEF WriteRoot, TypeOK
<1>12. UNCHANGED <<progress, done, audit>> BY DEF WriteRoot
<1>13. StoreTyped'
    BY <1>1, <1>6, <1>9, <1>10, <1>11, <1>12 DEF StoreTyped, TypeOK
<1>14. Untouched'
    <2> SUFFICES ASSUME NEW q \in Root, q > claim'.root PROVE epoch'[q] = 0 /\ head'[q] = 0
        BY DEF Untouched
    <2>1. q > claim.root /\ q # r BY <1>1, <1>2, <1>8 DEF Root
    <2> QED BY <1>1, <1>7, <1>9, <2>1 DEF Untouched
<1>15. Tenure!Take BY <1>2, <1>8, <1>9 DEF Tenure!Take
<1>16. OnlyTheOwner BY <1>1, <1>3, <1>7, <1>9 DEF OnlyTheOwner
<1> QED BY <1>6, <1>13, <1>14, <1>15, <1>16

\* What the snapshot of an admitted transaction of an existing root says, once
\* the transaction has compared it.
LEMMA Admitted ==
    ASSUME IInv, NEW o \in Txs, Fits(o.op, o.cmd, o.snap), o.op # "create", SameRoot(o)
    PROVE  /\ TypeOK /\ ChainUnforked /\ Untouched
           /\ o.cmd \in Command /\ o.cmd.root \in Root /\ claim = o.snap.claim
           /\ claim.root = o.cmd.root /\ claim \in Claims
           /\ o.snap.epoch = epoch[o.cmd.root] /\ o.snap.head = head[o.cmd.root]
           /\ epoch \in [Root -> Nat] /\ head \in [Root -> Nat]
           /\ o.op \in {"revoke", "fence"} => claim.status = "ACTIVE"
           /\ o.op = "finalize" => claim.status = "RELEASING"
BY DEF IInv, TypeOK, Fits, SameRoot, Txs

LEMMA WriteRevocationKeeps ==
    ASSUME IInv, NEW o \in Txs, Fits(o.op, o.cmd, o.snap), RevocationMatches(o),
           WriteRevocation(o)
    PROVE  StoreTyped' /\ Untouched' /\ ChainUnforked' /\ Tenure!Revoke /\ OnlyTheOwner
<1> DEFINE r == o.cmd.root
           s == <<Event("EPOCH_ADVANCED", o.snap.epoch + 1)>>
<1>1. o.op = "revoke" /\ SameRoot(o) BY DEF RevocationMatches
<1>2. /\ TypeOK /\ ChainUnforked /\ Untouched
      /\ o.cmd \in Command /\ r \in Root /\ claim = o.snap.claim
      /\ claim.root = r /\ claim \in Claims /\ claim.status = "ACTIVE"
      /\ o.snap.epoch = epoch[r] /\ o.snap.head = head[r]
      /\ epoch \in [Root -> Nat] /\ head \in [Root -> Nat]
    BY <1>1, Admitted
<1>3. epoch[r] \in Nat /\ epoch[r] + 1 \in Nat BY <1>2
<1>4. Appended(o, r, s) BY DEF WriteRevocation
<1>5. EventSeq(s, 1) BY <1>2, <1>3 DEF Event, EventSeq
<1> HIDE DEF s
<1>6. events' \subseteq Evidence /\ head' \in [Root -> Nat] /\ ChainUnforked'
    BY <1>2, <1>3, <1>4, <1>5, AppendedKeepsChain
<1>7. \A q \in Root : q # r => head'[q] = head[q] BY <1>2, <1>4 DEF Appended
<1>8. epoch' = [epoch EXCEPT ![r] = epoch[r] + 1] BY <1>2 DEF WriteRevocation
<1>9. epoch' \in [Root -> Nat] BY <1>2, <1>3, <1>8
<1>10. /\ done' = done \cup {o.cmd} /\ audit' = [audit EXCEPT ![o.by] = "COMMITTED"]
       /\ UNCHANGED <<claim, creator, progress>>
    BY DEF WriteRevocation
<1>11. StoreTyped' BY <1>2, <1>6, <1>9, <1>10 DEF StoreTyped, TypeOK
<1>12. Untouched'
    <2> SUFFICES ASSUME NEW q \in Root, q > claim'.root PROVE epoch'[q] = 0 /\ head'[q] = 0
        BY DEF Untouched
    <2>1. q > claim.root /\ q # r BY <1>2, <1>10 DEF Root
    <2> QED BY <1>2, <1>7, <1>8, <2>1 DEF Untouched
<1>13. Tenure!Revoke BY <1>2, <1>8, <1>10 DEF Tenure!Revoke
<1>14. OnlyTheOwner BY <1>2, <1>7, <1>8 DEF OnlyTheOwner
<1> QED BY <1>6, <1>11, <1>12, <1>13, <1>14

LEMMA WriteFenceKeeps ==
    ASSUME IInv, NEW o \in Txs, Fits(o.op, o.cmd, o.snap), FenceMatches(o), WriteFence(o)
    PROVE  StoreTyped' /\ Untouched' /\ ChainUnforked' /\ Tenure!Fence /\ OnlyTheOwner
<1> DEFINE r == o.cmd.root
           s == FenceEvents(o)
<1>1. o.op = "fence" /\ SameRoot(o) BY DEF FenceMatches
<1>2. /\ TypeOK /\ ChainUnforked /\ Untouched
      /\ o.cmd \in Command /\ r \in Root /\ claim = o.snap.claim
      /\ claim.root = r /\ claim \in Claims /\ claim.status = "ACTIVE"
      /\ o.snap.epoch = epoch[r] /\ o.snap.head = head[r]
      /\ epoch \in [Root -> Nat] /\ head \in [Root -> Nat]
    BY <1>1, Admitted
<1>3. epoch[r] \in Nat /\ epoch[r] + 1 \in Nat /\ o.snap.receipt \in Nat
    BY <1>2 DEF Txs, Snaps
<1>4. Appended(o, r, s) BY DEF WriteFence
<1>5. EventSeq(s, 2) BY <1>2, <1>3 DEF Event, EventSeq, FenceEvents, ReleaseEvents
<1> HIDE DEF s
<1>6. events' \subseteq Evidence /\ head' \in [Root -> Nat] /\ ChainUnforked'
    BY <1>2, <1>3, <1>4, <1>5, AppendedKeepsChain
<1>7. \A q \in Root : q # r => head'[q] = head[q] BY <1>2, <1>4 DEF Appended
<1>8. epoch' = [epoch EXCEPT ![r] = epoch[r] + 1] BY <1>2 DEF WriteFence
<1>9. epoch' \in [Root -> Nat] BY <1>2, <1>3, <1>8
<1>10. /\ claim' = [claim EXCEPT !.status = "RELEASING", !.fence = o.cmd]
       /\ progress' = progress \cup {o.cmd} /\ UNCHANGED <<creator, done, audit>>
    BY <1>2 DEF WriteFence
<1>11. claim' \in Claims /\ claim'.root = r /\ claim'.status = "RELEASING"
    BY <1>2, <1>10 DEF Claims
<1>12. StoreTyped' BY <1>2, <1>6, <1>9, <1>10, <1>11 DEF StoreTyped, TypeOK
<1>13. Untouched'
    <2> SUFFICES ASSUME NEW q \in Root, q > claim'.root PROVE epoch'[q] = 0 /\ head'[q] = 0
        BY DEF Untouched
    <2>1. q > claim.root /\ q # r BY <1>2, <1>11 DEF Root
    <2> QED BY <1>2, <1>7, <1>8, <2>1 DEF Untouched
<1>14. Tenure!Fence BY <1>2, <1>8, <1>11 DEF Tenure!Fence
<1>15. OnlyTheOwner BY <1>2, <1>7, <1>8 DEF OnlyTheOwner
<1> QED BY <1>6, <1>12, <1>13, <1>14, <1>15

LEMMA WriteReleaseKeeps ==
    ASSUME IInv, NEW o \in Txs, Fits(o.op, o.cmd, o.snap), ReleaseMatches(o), WriteRelease(o)
    PROVE  StoreTyped' /\ Untouched' /\ ChainUnforked' /\ Tenure!Release /\ OnlyTheOwner
<1> DEFINE r == o.cmd.root
           s == ReleaseEvents(o)
<1>1. o.op = "finalize" /\ SameRoot(o) BY DEF ReleaseMatches
<1>2. /\ TypeOK /\ ChainUnforked /\ Untouched
      /\ o.cmd \in Command /\ r \in Root /\ claim = o.snap.claim
      /\ claim.root = r /\ claim \in Claims /\ claim.status = "RELEASING"
      /\ o.snap.epoch = epoch[r] /\ o.snap.head = head[r]
      /\ epoch \in [Root -> Nat] /\ head \in [Root -> Nat]
    BY <1>1, Admitted
<1>3. epoch[r] \in Nat BY <1>2
<1>4. Appended(o, r, s) BY DEF WriteRelease
<1>5. EventSeq(s, 2) BY <1>2, <1>3 DEF Event, EventSeq, FenceEvents, ReleaseEvents
<1> HIDE DEF s
<1>6. events' \subseteq Evidence /\ head' \in [Root -> Nat] /\ ChainUnforked'
    BY <1>2, <1>3, <1>4, <1>5, AppendedKeepsChain
<1>7. \A q \in Root : q # r => head'[q] = head[q] BY <1>2, <1>4 DEF Appended
<1>8. /\ claim' = [claim EXCEPT !.status = "RELEASED"]
      /\ done' = done \cup {o.cmd} /\ UNCHANGED <<epoch, creator, progress, audit>>
    BY <1>2 DEF WriteRelease
<1>9. claim' \in Claims /\ claim'.root = r /\ claim'.status = "RELEASED"
    BY <1>2, <1>8 DEF Claims
<1>10. StoreTyped' BY <1>2, <1>6, <1>8, <1>9 DEF StoreTyped, TypeOK
<1>11. Untouched'
    <2> SUFFICES ASSUME NEW q \in Root, q > claim'.root PROVE epoch'[q] = 0 /\ head'[q] = 0
        BY DEF Untouched
    <2>1. q > claim.root /\ q # r BY <1>2, <1>9 DEF Root
    <2> QED BY <1>2, <1>7, <1>8, <2>1 DEF Untouched
<1>12. Tenure!Release BY <1>2, <1>8, <1>9 DEF Tenure!Release
<1>13. OnlyTheOwner BY <1>2, <1>7, <1>8 DEF OnlyTheOwner
<1> QED BY <1>6, <1>10, <1>11, <1>12, <1>13

\* Every transaction that commits, at once or late, is a step of the tenure.
LEMMA CommitKeeps ==
    ASSUME IInv, NEW o \in Txs, Fits(o.op, o.cmd, o.snap), Commit(o)
    PROVE  StoreTyped' /\ Untouched' /\ ChainUnforked' /\ Tenure!Next /\ OnlyTheOwner
<1>1. CASE WriteRoot(o)
    <2>1. CreateMatches(o)
        BY <1>1 DEF Commit, Matches, WriteRoot, RevocationMatches, FenceMatches, ReleaseMatches
    <2> QED BY <1>1, <2>1, WriteRootKeeps DEF Tenure!Next
<1>2. CASE WriteRevocation(o)
    <2>1. RevocationMatches(o)
        BY <1>2 DEF Commit, Matches, WriteRevocation, CreateMatches, FenceMatches, ReleaseMatches
    <2> QED BY <1>2, <2>1, WriteRevocationKeeps DEF Tenure!Next
<1>3. CASE WriteFence(o)
    <2>1. FenceMatches(o)
        BY <1>3 DEF Commit, Matches, WriteFence, CreateMatches, RevocationMatches, ReleaseMatches
    <2> QED BY <1>3, <2>1, WriteFenceKeeps DEF Tenure!Next
<1>4. CASE WriteRelease(o)
    <2>1. ReleaseMatches(o)
        BY <1>4 DEF Commit, Matches, WriteRelease, CreateMatches, RevocationMatches, FenceMatches
    <2> QED BY <1>4, <2>1, WriteReleaseKeeps DEF Tenure!Next
<1> QED BY <1>1, <1>2, <1>3, <1>4 DEF Commit

-----------------------------------------------------------------------------
\* Steps that only change the state of one call.

\* The call c moves to a local state that fits.
Moved(c) == \E next \in Locals : CallFits(next) /\ Go(c, next)

\* A call that has begun carries a command.
LEMMA Begun ==
    ASSUME IInv, NEW c \in Call, call[c].pc # "idle"
    PROVE  /\ TypeOK /\ Cmd(c) \in Command /\ call[c] \in Locals
           /\ \A code \in Codes : Answered(c, code) \in Locals /\ CallFits(Answered(c, code))
           /\ \A code \in Codes : Denied(c, code) \in Locals /\ CallFits(Denied(c, code))
           /\ \A pc \in {"raced", "bundle", "read", "audit", "classify", "resolve"} :
                 At(c, pc) \in Locals /\ CallFits(At(c, pc))
           /\ Again(c) \in Locals /\ CallFits(Again(c))
<1>1. TypeOK /\ CallFits(call[c]) BY DEF IInv
<1>2. Cmd(c) \in Command BY <1>1 DEF CallFits, Cmd
<1>3. call[c] \in Locals BY <1>1 DEF TypeOK
<1> QED BY <1>1, <1>2, <1>3, AnsweredFits, DeniedFits, AtFits, AgainFits

LEMMA MovedKeeps ==
    ASSUME IInv, NEW c \in Call, Moved(c), UNCHANGED <<store, world, late>>,
           faults' \in 0..MaxFaults
    PROVE  IInv'
<1>1. PICK next \in Locals : CallFits(next) /\ Go(c, next) BY DEF Moved
<1>2. TypeOK /\ \A d \in Call : CallFits(call[d]) BY DEF IInv
<1>3. call' \in [Call -> Locals] /\ (\A d \in Call : CallFits(call'[d]))
    BY <1>1, <1>2, GoFits
<1>4. UNCHANGED <<claim, epoch, head, events, creator, progress, done, audit, verified,
                 service, late>>
    BY DEF store, world
<1>5. TypeOK' BY <1>2, <1>3, <1>4 DEF TypeOK
<1>6. Untouched' BY <1>4 DEF IInv, Untouched
<1>7. ChainUnforked' BY <1>4 DEF IInv, ChainUnforked
<1>8. \A o \in late' : Fits(o.op, o.cmd, o.snap) BY <1>4 DEF IInv
<1> QED BY <1>3, <1>5, <1>6, <1>7, <1>8 DEF IInv

LEMMA BeginMoves ==
    ASSUME IInv, NEW c \in Call, NEW m \in Command, Begin(c, m) \/ Unauthorized(c, m)
    PROVE  Moved(c)
<1> DEFINE b == [Idle EXCEPT !.cmd = m, !.pc = IF m.kind = "CREATE" THEN "claim" ELSE "read"]
           u == [Idle EXCEPT !.cmd = m, !.code = "CALLER_DENIED",
                             !.pc = IF m.kind = "REVOKE" THEN "audit" ELSE "done"]
<1>1. b \in Locals /\ b.cmd = m /\ b.pc \in {"claim", "read"}
    BY NothingTyped DEF Idle, Locals
<1>2. u \in Locals /\ u.cmd = m /\ u.pc \in {"audit", "done"}
    BY NothingTyped DEF Idle, Locals, Codes
<1>3. Go(c, b) \/ Go(c, u) BY DEF Begin, Unauthorized
<1>4. CallFits(b) /\ CallFits(u) BY <1>1, <1>2 DEF CallFits
<1> QED BY <1>1, <1>2, <1>3, <1>4 DEF Moved

LEMMA CreationMoves ==
    ASSUME IInv, NEW c \in Call, ReadClaim(c) \/ ReadBundle(c) \/ Preflight(c) \/ AdoptRoot(c)
    PROVE  Moved(c)
<1>1. call[c].pc \in {"claim", "raced", "bundle", "preflight", "adopt"}
    BY DEF ReadClaim, ReadBundle, Preflight, AdoptRoot
<1>2. /\ TypeOK /\ Cmd(c) \in Command /\ call[c] \in Locals
      /\ \A code \in Codes : Answered(c, code) \in Locals /\ CallFits(Answered(c, code))
      /\ At(c, "raced") \in Locals /\ CallFits(At(c, "raced"))
    BY <1>1, Begun
<1>3. CASE ReadClaim(c)
    <2> DEFINE b == [At(c, "bundle") EXCEPT !.snap.claim = claim]
               p == [At(c, "preflight") EXCEPT !.snap.claim = claim]
    <2>1. claim \in Claims BY <1>2 DEF TypeOK
    <2>2. [NoSnap EXCEPT !.claim = claim] \in Snaps
        BY <2>1, NothingTyped DEF NoSnap, Snaps
    <2>3. /\ b \in Locals /\ b.pc = "bundle" /\ b.cmd = Cmd(c)
        BY <1>2, <2>2 DEF At, Locals, Cmd
    <2>4. /\ p \in Locals /\ p.pc = "preflight" /\ p.cmd = Cmd(c)
          /\ p.snap = [NoSnap EXCEPT !.claim = claim]
        BY <1>2, <2>2 DEF At, Locals, Cmd
    <2>5. p.snap.claim = claim /\ p.snap.head = 0 BY <2>4 DEF NoSnap
    <2> HIDE DEF b, p
    <2>6. CallFits(b) BY <1>2, <2>3, PlainFits
    <2>7. claim.status \in {"NONE", "RELEASED"} => CallFits(p)
        BY <1>2, <2>4, <2>5 DEF CallFits, Fits
    <2>8. "ACTIVE_CLAIM_CONFLICT" \in Codes BY DEF Codes
    <2>9. Go(c, IF claim.status = "ACTIVE" /\ claim.owner.id = Cmd(c).id THEN b
                ELSE IF claim.status \in {"NONE", "RELEASED"} /\ call[c].pc = "claim" THEN p
                ELSE Answered(c, "ACTIVE_CLAIM_CONFLICT"))
        BY <1>3, Zenon DEF ReadClaim, b, p
    <2> QED BY <1>2, <2>3, <2>4, <2>6, <2>7, <2>8, <2>9 DEF Moved
<1>4. CASE ReadBundle(c)
    <2>1. {"TRUSTED_STATE_INVALID", "OK", "ACTIVE_CLAIM_CONFLICT"} \subseteq Codes
        BY DEF Codes
    <2>2. \E code \in {"TRUSTED_STATE_INVALID", "OK", "ACTIVE_CLAIM_CONFLICT"} :
              Go(c, Answered(c, code))
        BY <1>4 DEF ReadBundle
    <2> QED BY <1>2, <2>1, <2>2 DEF Moved
<1>5. CASE Preflight(c)
    <2>1. call[c].snap \in Snaps /\ Fits("create", Cmd(c), call[c].snap)
        BY <1>2, <1>5 DEF Preflight, IInv, CallFits, Cmd, Locals
    <2>2. Building(c, "create", call[c].snap) \in Locals
          /\ CallFits(Building(c, "create", call[c].snap))
        BY <1>2, <2>1, BuildingFits DEF Ops
    <2>3. "PREFLIGHT_DENIED" \in Codes BY DEF Codes
    <2>4. \/ Go(c, Building(c, "create", call[c].snap))
          \/ Go(c, Answered(c, "PREFLIGHT_DENIED"))
        BY <1>5 DEF Preflight
    <2> QED BY <1>2, <2>2, <2>3, <2>4 DEF Moved
<1>6. CASE AdoptRoot(c)
    <2>1. Go(c, Answered(c, "OK")) \/ Go(c, At(c, "raced")) BY <1>6 DEF AdoptRoot
    <2>2. "OK" \in Codes BY DEF Codes
    <2> QED BY <1>2, <2>1, <2>2 DEF Moved
<1> QED BY <1>3, <1>4, <1>5, <1>6

LEMMA ReadRevocationMoves ==
    ASSUME IInv, NEW c \in Call, ReadRevocation(c)
    PROVE  Moved(c)
<1> DEFINE m == Cmd(c)
<1>1. call[c].pc = "read" BY DEF ReadRevocation
<1>2. /\ TypeOK /\ m \in Command
      /\ \A code \in Codes : Answered(c, code) \in Locals /\ CallFits(Answered(c, code))
      /\ \A code \in Codes : Denied(c, code) \in Locals /\ CallFits(Denied(c, code))
      /\ At(c, "classify") \in Locals /\ CallFits(At(c, "classify"))
    BY <1>1, Begun
<1>3. /\ RevocationDenial(m) \in Codes
      /\ RevocationDenial(m) = "none" =>
            m.root \in Root /\ claim.root = m.root /\ claim.status = "ACTIVE"
    BY <1>2, RevocationAdmits
<1>4. RevocationDenial(m) = "none" =>
          /\ Building(c, "revoke", RevocationSnapshot(m)) \in Locals
          /\ CallFits(Building(c, "revoke", RevocationSnapshot(m)))
    <2> HAVE RevocationDenial(m) = "none"
    <2>1. RevocationSnapshot(m) \in Snaps /\ RevocationSnapshot(m).claim = claim BY <1>2, <1>3, SnapshotTyped
    <2>2. Fits("revoke", m, RevocationSnapshot(m)) BY <1>3, <2>1 DEF Fits
    <2> QED BY <1>2, <2>1, <2>2, BuildingFits DEF Ops
<1>5. {"TRUSTED_STATE_INVALID", "STORE_UNAVAILABLE", "ADOPTED"} \subseteq Codes BY DEF Codes
<1> DEFINE next ==
        IF m \in done /\ ~StoredRevocation(m) THEN Answered(c, "TRUSTED_STATE_INVALID")
        ELSE IF m \in done /\ AttemptSucceeded(c) THEN At(c, "classify")
        ELSE IF m \in done THEN Denied(c, "ADOPTED")
        ELSE IF call[c].tries = MaxAttempts THEN Answered(c, "STORE_UNAVAILABLE")
        ELSE IF RevocationDenial(m) # "none" THEN Denied(c, RevocationDenial(m))
        ELSE Building(c, "revoke", RevocationSnapshot(m))
<1>6. Go(c, next) BY Zenon DEF ReadRevocation
<1>7. next \in Locals /\ CallFits(next) BY <1>2, <1>3, <1>4, <1>5
<1> HIDE DEF next
<1> QED BY <1>6, <1>7 DEF Moved

LEMMA ReadReleaseMoves ==
    ASSUME IInv, NEW c \in Call, ReadRelease(c)
    PROVE  Moved(c)
<1> DEFINE m == Cmd(c)
           t == [At(c, "target") EXCEPT !.snap = ReleaseSnapshot(m)]
<1>1. call[c].pc = "read" BY DEF ReadRelease
<1>2. /\ TypeOK /\ m \in Command /\ call[c] \in Locals
      /\ \A code \in Codes : Answered(c, code) \in Locals /\ CallFits(Answered(c, code))
    BY <1>1, Begun
<1>3. /\ ReleaseDenial(m) \in Codes
      /\ ReleaseDenial(m) = "none" =>
            /\ m.root \in Root /\ claim.root = m.root
            /\ claim.status = IF m \in progress THEN "RELEASING" ELSE "ACTIVE"
    BY <1>2, ReleaseAdmits
<1>4. ReleaseDenial(m) = "none" => ReleaseSnapshot(m) \in Snaps /\ ReleaseSnapshot(m).claim = claim
    BY <1>2, <1>3, SnapshotTyped
<1>5. ReleaseDenial(m) = "none" /\ m \in progress => t \in Locals /\ CallFits(t)
    <2> HAVE ReleaseDenial(m) = "none" /\ m \in progress
    <2>1. t \in Locals /\ t.pc = "target" /\ t.cmd = m /\ t.snap = ReleaseSnapshot(m)
        BY <1>2, <1>4 DEF At, Locals, Ops, Cmd
    <2> HIDE DEF t
    <2>2. Fits("finalize", m, ReleaseSnapshot(m)) BY <1>3, <1>4 DEF Fits
    <2> QED BY <1>2, <2>1, <2>2 DEF CallFits
<1>6. ReleaseDenial(m) = "none" /\ m \notin progress =>
          /\ Building(c, "fence", ReleaseSnapshot(m)) \in Locals
          /\ CallFits(Building(c, "fence", ReleaseSnapshot(m)))
    <2> HAVE ReleaseDenial(m) = "none" /\ m \notin progress
    <2>1. Fits("fence", m, ReleaseSnapshot(m)) BY <1>3, <1>4 DEF Fits
    <2> QED BY <1>2, <1>4, <2>1, BuildingFits DEF Ops
<1>7. {"OK", "TRUSTED_STATE_INVALID", "STORE_UNAVAILABLE"} \subseteq Codes BY DEF Codes
<1> HIDE DEF t
<1> DEFINE next ==
        IF m \in done
        THEN Answered(c, IF StoredRelease(m) THEN "OK" ELSE "TRUSTED_STATE_INVALID")
        ELSE IF call[c].tries = MaxAttempts THEN Answered(c, "STORE_UNAVAILABLE")
        ELSE IF ReleaseDenial(m) # "none" THEN Answered(c, ReleaseDenial(m))
        ELSE IF m \in progress THEN t
        ELSE Building(c, "fence", ReleaseSnapshot(m))
<1>8. Go(c, next) BY Zenon DEF ReadRelease, t
<1>9. next \in Locals /\ CallFits(next) BY <1>2, <1>3, <1>5, <1>6, <1>7
<1> HIDE DEF next
<1> QED BY <1>8, <1>9 DEF Moved

LEMMA ClassifyMoves ==
    ASSUME IInv, NEW c \in Call, ClassifyTarget(c) \/ ClassifyCommitted(c)
    PROVE  Moved(c)
<1>1. call[c].pc \in {"target", "classify"} BY DEF ClassifyTarget, ClassifyCommitted
<1>2. /\ TypeOK /\ Cmd(c) \in Command /\ call[c] \in Locals
      /\ \A code \in Codes : Answered(c, code) \in Locals /\ CallFits(Answered(c, code))
    BY <1>1, Begun
<1>3. {"OK", "OUTCOME_UNKNOWN", "CLASSIFICATION_DENIED"} \subseteq Codes BY DEF Codes
<1>4. CASE ClassifyCommitted(c)
    <2>1. Go(c, Answered(c, "OK")) \/ Go(c, Answered(c, "OUTCOME_UNKNOWN"))
        BY <1>4 DEF ClassifyCommitted
    <2> QED BY <1>2, <1>3, <2>1 DEF Moved
<1>5. CASE ClassifyTarget(c)
    <2>1. call[c].snap \in Snaps /\ Fits("finalize", Cmd(c), call[c].snap)
        BY <1>2, <1>5 DEF ClassifyTarget, IInv, CallFits, Cmd, Locals
    <2> DEFINE seen == [call[c].snap EXCEPT !.seen = service]
    <2>4. seen \in Snaps BY <1>2, <2>1 DEF TypeOK, Snaps
    <2>5. Fits("finalize", Cmd(c), seen) BY <2>1 DEF Fits, Snaps
    <2>3. \/ Go(c, Building(c, "finalize", seen))
          \/ Go(c, Answered(c, "CLASSIFICATION_DENIED"))
        BY <1>5 DEF ClassifyTarget
    <2> HIDE DEF seen
    <2>2. Building(c, "finalize", seen) \in Locals /\ CallFits(Building(c, "finalize", seen))
        BY <1>2, <2>4, <2>5, BuildingFits DEF Ops
    <2> QED BY <1>2, <1>3, <2>2, <2>3 DEF Moved
<1> QED BY <1>4, <1>5

\* What follows a transaction fits.
LEMMA AfterCommit ==
    ASSUME IInv, NEW c \in Call, call[c].pc \in {"commit", "readback"}
    PROVE  /\ Succeeded(c) \in Locals /\ CallFits(Succeeded(c))
           /\ Conflicted(c) \in Locals /\ CallFits(Conflicted(c))
           /\ Unresolved(c) \in Locals /\ CallFits(Unresolved(c))
           /\ Tx(c) \in Txs /\ Fits(Tx(c).op, Tx(c).cmd, Tx(c).snap)
<1>1. /\ TypeOK /\ Cmd(c) \in Command /\ call[c] \in Locals
      /\ \A code \in Codes : Answered(c, code) \in Locals /\ CallFits(Answered(c, code))
      /\ At(c, "classify") \in Locals /\ CallFits(At(c, "classify"))
      /\ Again(c) \in Locals /\ CallFits(Again(c))
    BY Begun
<1>2. call[c].op \in Ops /\ Fits(call[c].op, call[c].cmd, call[c].snap)
    BY DEF IInv, CallFits
<1>3. {"OK", "OUTCOME_UNKNOWN"} \subseteq Codes BY DEF Codes
<1>4. Succeeded(c) \in Locals /\ CallFits(Succeeded(c)) BY <1>1, <1>3 DEF Succeeded
<1>5. Conflicted(c) \in Locals /\ CallFits(Conflicted(c))
    <2> DEFINE a == [call[c] EXCEPT !.pc = "adopt"]
    <2>1. /\ a \in Locals /\ a.pc = "adopt" /\ a.cmd = Cmd(c) /\ a.op = call[c].op
          /\ a.snap = call[c].snap
        BY <1>1 DEF Locals, Cmd
    <2> HIDE DEF a
    <2>2. CallFits(a) BY <1>1, <1>2, <2>1 DEF CallFits, Cmd
    <2> QED BY <1>1, <2>1, <2>2 DEF Conflicted, a
<1>6. Unresolved(c) \in Locals /\ CallFits(Unresolved(c))
    <2> DEFINE u == [At(c, "resolve") EXCEPT !.op = call[c].op]
    <2>1. u \in Locals /\ u.pc = "resolve" /\ u.cmd = Cmd(c)
        BY <1>1, <1>2, NothingTyped DEF At, Locals, Cmd
    <2> HIDE DEF u
    <2>2. CallFits(u) BY <1>1, <2>1, PlainFits
    <2> QED BY <1>1, <1>3, <2>1, <2>2 DEF Unresolved, u
<1>7. Tx(c) \in Txs BY <1>1, <1>2 DEF Tx, Txs, Locals
<1>8. Fits(Tx(c).op, Tx(c).cmd, Tx(c).snap) BY <1>2 DEF Tx, Cmd
<1> QED BY <1>4, <1>5, <1>6, <1>7, <1>8

LEMMA OutcomeMoves ==
    ASSUME IInv, NEW c \in Call, CommitRefused(c) \/ Readback(c) \/ Resolve(c)
    PROVE  Moved(c)
<1>1. call[c].pc \in {"commit", "readback", "resolve"}
    BY DEF CommitRefused, Readback, Resolve
<1>2. CASE CommitRefused(c)
    <2>1. Go(c, Conflicted(c)) \/ Go(c, Answered(c, "TRUSTED_STATE_INVALID"))
        BY <1>2 DEF CommitRefused
    <2>2. call[c].pc = "commit" BY <1>2 DEF CommitRefused
    <2>3. /\ Answered(c, "TRUSTED_STATE_INVALID") \in Locals
          /\ CallFits(Answered(c, "TRUSTED_STATE_INVALID"))
        BY <2>2, Begun DEF Codes
    <2> QED BY <2>1, <2>2, <2>3, AfterCommit DEF Moved
<1>3. CASE Readback(c)
    <2>1. Go(c, Succeeded(c)) \/ Go(c, Conflicted(c)) \/ Go(c, Unresolved(c))
        BY <1>3 DEF Readback
    <2>2. call[c].pc = "readback" BY <1>3 DEF Readback
    <2> QED BY <2>1, <2>2, AfterCommit DEF Moved
<1>4. CASE Resolve(c)
    <2>1. /\ \A code \in Codes : Answered(c, code) \in Locals /\ CallFits(Answered(c, code))
          /\ At(c, "classify") \in Locals /\ CallFits(At(c, "classify"))
          /\ Again(c) \in Locals /\ CallFits(Again(c))
        BY <1>1, Begun
    <2>2. {"OK", "OUTCOME_UNKNOWN", "TRUSTED_STATE_INVALID"} \subseteq Codes BY DEF Codes
    <2>3. \/ Go(c, At(c, "classify")) \/ Go(c, Again(c))
          \/ \E code \in {"OK", "OUTCOME_UNKNOWN", "TRUSTED_STATE_INVALID"} :
                Go(c, Answered(c, code))
        BY <1>4 DEF Resolve
    <2> QED BY <2>1, <2>2, <2>3 DEF Moved
<1> QED BY <1>2, <1>3, <1>4

LEMMA FailureMoves ==
    ASSUME IInv, NEW c \in Call, CallFails(c)
    PROVE  Moved(c)
<1>1. call[c].pc # "idle" BY DEF CallFails
<1>2. /\ \A code \in Codes : Answered(c, code) \in Locals /\ CallFits(Answered(c, code))
      /\ \A code \in Codes : Denied(c, code) \in Locals /\ CallFits(Denied(c, code))
    BY <1>1, Begun
<1>3. {"STORE_UNAVAILABLE", "OUTCOME_UNKNOWN", "EVIDENCE_DENIED"} \subseteq Codes BY DEF Codes
<1>4. \E code \in {"STORE_UNAVAILABLE", "OUTCOME_UNKNOWN", "EVIDENCE_DENIED"} :
          Go(c, Answered(c, code)) \/ Go(c, Denied(c, code))
    BY DEF CallFails
<1> QED BY <1>2, <1>3, <1>4 DEF Moved

-----------------------------------------------------------------------------
\* Steps that change more than one call's state.

\* The audit of an attempt is no authority state.
LEMMA AuditKeeps ==
    ASSUME IInv, NEW c \in Call, RecordAudit(c) \/ AuditLost(c)
    PROVE  IInv' /\ UNCHANGED <<claim, epoch, head>>
<1> DEFINE a == [At(c, "classify") EXCEPT !.code = "none"]
<1>1. call[c].pc = "audit" BY DEF RecordAudit, AuditLost
<1>2. /\ TypeOK /\ Cmd(c) \in Command /\ call[c] \in Locals
      /\ \A code \in Codes : Answered(c, code) \in Locals /\ CallFits(Answered(c, code))
    BY <1>1, Begun
<1>3. At(c, "classify") \in Locals /\ At(c, "classify").pc = "classify"
      /\ At(c, "classify").cmd = Cmd(c)
    BY <1>2, AtFits
<1>4. a \in Locals /\ a.pc = "classify" /\ a.cmd = Cmd(c) BY <1>3 DEF Locals, Codes
<1> HIDE DEF a
<1>5. CallFits(a) BY <1>2, <1>4, PlainFits
<1>6. {"TRUSTED_STATE_INVALID", "STORE_UNAVAILABLE"} \subseteq Codes /\ call[c].code \in Codes
    BY <1>2 DEF Codes, Locals
<1>7. \/ Go(c, a)
      \/ \E code \in {"TRUSTED_STATE_INVALID", "STORE_UNAVAILABLE", call[c].code} :
            Go(c, Answered(c, code))
    BY DEF RecordAudit, AuditLost, a
<1>8. Moved(c) BY <1>2, <1>4, <1>5, <1>6, <1>7 DEF Moved
<1>9. PICK next \in Locals : CallFits(next) /\ Go(c, next) BY <1>8 DEF Moved
<1>10. call' \in [Call -> Locals] /\ (\A d \in Call : CallFits(call'[d]))
    BY <1>9, GoFits DEF IInv
<1>11. UNCHANGED <<claim, epoch, head, events, creator, progress, done, verified, service, late>>
    BY DEF RecordAudit, AuditLost, world
<1>12. audit' \in [Call -> {"NONE", "COMMITTED", "ADOPTED", "DENIED"}]
    <2>1. audit \in [Call -> {"NONE", "COMMITTED", "ADOPTED", "DENIED"}] BY <1>2 DEF TypeOK
    <2>2. \/ UNCHANGED audit \/ audit' = [audit EXCEPT ![c] = "ADOPTED"]
          \/ audit' = [audit EXCEPT ![c] = "DENIED"]
        BY DEF RecordAudit, AuditLost
    <2> QED BY <2>1, <2>2
<1>13. faults' \in 0..MaxFaults
    BY <1>2, RootConstants DEF TypeOK, RecordAudit, AuditLost, NoFault, Fault
<1>14. TypeOK' BY <1>2, <1>10, <1>11, <1>12, <1>13 DEF TypeOK
<1>15. Untouched' /\ ChainUnforked' BY <1>11 DEF IInv, Untouched, ChainUnforked
<1>16. \A o \in late' : Fits(o.op, o.cmd, o.snap) BY <1>11 DEF IInv
<1> QED BY <1>10, <1>11, <1>14, <1>15, <1>16 DEF IInv

\* What a step does to the authority: nothing, or a step of the tenure.
Lawful == UNCHANGED <<claim, epoch, head>> \/ (Tenure!Next /\ OnlyTheOwner)

\* A step of the store and of some calls, given what each part keeps.
LEMMA StoreStep ==
    ASSUME IInv, UNCHANGED store \/ (\E o \in Txs : Fits(o.op, o.cmd, o.snap) /\ Commit(o)),
           call' \in [Call -> Locals], \A d \in Call : CallFits(call'[d]),
           late' \subseteq Txs, \A o \in late' : Fits(o.op, o.cmd, o.snap),
           UNCHANGED world, faults' \in 0..MaxFaults
    PROVE  IInv' /\ Lawful
<1>1. StoreTyped' /\ Untouched' /\ ChainUnforked' /\ Lawful
    <2>1. CASE UNCHANGED store
        <3>1. UNCHANGED <<claim, epoch, head, events, creator, progress, done, audit>>
            BY <2>1 DEF store
        <3>2. StoreTyped' BY <3>1 DEF IInv, TypeOK, StoreTyped
        <3>3. Untouched' /\ ChainUnforked' BY <3>1 DEF IInv, Untouched, ChainUnforked
        <3> QED BY <3>1, <3>2, <3>3 DEF Lawful
    <2>2. CASE \E o \in Txs : Fits(o.op, o.cmd, o.snap) /\ Commit(o)
        <3>1. PICK o \in Txs : Fits(o.op, o.cmd, o.snap) /\ Commit(o) BY <2>2
        <3> QED BY <3>1, CommitKeeps DEF Lawful
    <2> QED BY <2>1, <2>2
<1>2. UNCHANGED <<verified, service>> BY DEF world
<1>3. TypeOK' BY <1>1, <1>2 DEF IInv, TypeOK, StoreTyped
<1> QED BY <1>1, <1>3 DEF IInv

LEMMA CommitStepKeeps ==
    ASSUME IInv, NEW c \in Call,
           CommitConfirmed(c) \/ CommitContended(c) \/ CommitTimesOut(c) \/ Crash(c)
    PROVE  IInv' /\ Lawful
<1>1. call[c].pc # "idle"
    BY DEF CommitConfirmed, CommitContended, CommitTimesOut, Crash
<1>2. TypeOK /\ late \subseteq Txs /\ \A o \in late : Fits(o.op, o.cmd, o.snap)
    BY DEF IInv, TypeOK
<1>3. call[c] \in Locals /\ Answered(c, "NONE") \in Locals /\ CallFits(Answered(c, "NONE"))
    BY <1>1, Begun DEF Codes
<1>4. faults' \in 0..MaxFaults
    BY <1>2, RootConstants
    DEF TypeOK, CommitConfirmed, CommitContended, CommitTimesOut, Crash, NoFault, Fault
<1>5. UNCHANGED world
    BY DEF CommitConfirmed, CommitContended, CommitTimesOut, Crash
<1>6. \/ UNCHANGED store
      \/ \E o \in Txs : Fits(o.op, o.cmd, o.snap) /\ Commit(o)
    BY AfterCommit DEF CommitConfirmed, CommitContended, CommitTimesOut, Crash
<1>7. late' \subseteq Txs /\ \A o \in late' : Fits(o.op, o.cmd, o.snap)
    <2>1. UNCHANGED late \/ (late' = late \cup {Tx(c)} /\ call[c].pc = "commit")
        BY DEF CommitConfirmed, CommitContended, CommitTimesOut, Crash
    <2>2. call[c].pc = "commit" => Tx(c) \in Txs /\ Fits(Tx(c).op, Tx(c).cmd, Tx(c).snap)
        BY AfterCommit
    <2> QED BY <1>2, <2>1, <2>2
<1>8. Moved(c)
    <2>1. CASE CommitConfirmed(c) BY <2>1, AfterCommit DEF CommitConfirmed, Moved
    <2>2. CASE CommitContended(c) BY <2>2, AfterCommit DEF CommitContended, Moved
    <2>3. CASE CommitTimesOut(c)
        <3> DEFINE r == [call[c] EXCEPT !.pc = "readback"]
        <3>1. call[c].pc = "commit" /\ Go(c, r) BY <2>3 DEF CommitTimesOut
        <3>2. r \in Locals /\ r.pc = "readback" /\ r.cmd = call[c].cmd /\ r.op = call[c].op
              /\ r.snap = call[c].snap
            BY <1>3 DEF Locals
        <3> HIDE DEF r
        <3>3. CallFits(call[c]) BY DEF IInv
        <3>4. CallFits(r) BY <3>1, <3>2, <3>3 DEF CallFits
        <3> QED BY <3>1, <3>2, <3>4 DEF Moved
    <2>4. CASE Crash(c) BY <1>3, <2>4 DEF Crash, Moved
    <2> QED BY <2>1, <2>2, <2>3, <2>4
<1>9. PICK next \in Locals : CallFits(next) /\ Go(c, next) BY <1>8 DEF Moved
<1>10. call' \in [Call -> Locals] /\ (\A d \in Call : CallFits(call'[d]))
    BY <1>9, GoFits DEF IInv
<1> QED BY <1>4, <1>5, <1>6, <1>7, <1>10, StoreStep

LEMMA LandKeeps ==
    ASSUME IInv, NEW o \in late, Land(o)
    PROVE  IInv' /\ Lawful
<1>1. TypeOK /\ o \in Txs /\ Fits(o.op, o.cmd, o.snap) BY DEF IInv, TypeOK
<1>2. Commit(o) /\ late' = late \ {o} /\ UNCHANGED <<world, call, faults>>
    BY DEF Land, NoFault
<1>3. call' \in [Call -> Locals] /\ (\A d \in Call : CallFits(call'[d]))
    BY <1>1, <1>2 DEF IInv, TypeOK
<1>4. late' \subseteq Txs /\ (\A p \in late' : Fits(p.op, p.cmd, p.snap))
    BY <1>1, <1>2 DEF IInv, TypeOK
<1>5. faults' \in 0..MaxFaults BY <1>1, <1>2 DEF TypeOK
<1>6. UNCHANGED world BY <1>2
<1> QED BY <1>1, <1>2, <1>3, <1>4, <1>5, <1>6, StoreStep

\* The service changes; no authority does.
LEMMA WorldKeeps ==
    ASSUME IInv, Mutate \/ Reset
    PROVE  IInv' /\ Lawful
<1>1. TypeOK BY DEF IInv
<1>2. UNCHANGED <<store, call, late, faults>> BY DEF Mutate, Reset, NoFault
<1>3. UNCHANGED <<claim, epoch, head, events, creator, progress, done, audit>>
    BY <1>2 DEF store
<1>4. service.version + 1 \in Nat BY <1>1 DEF TypeOK
<1>5. service' \in [version : Nat, traffic : Traffic]
    BY <1>4 DEF Mutate, Reset, Moves, Traffic
<1>6. verified' \in [Root -> SUBSET [action : Actions, epoch : Nat]]
    <2>1. verified \in [Root -> SUBSET [action : Actions, epoch : Nat]] BY <1>1 DEF TypeOK
    <2>2. CASE Reset BY <2>1, <2>2 DEF Reset
    <2>3. CASE Mutate
        <3>1. PICK a \in Actions :
                  verified' = [verified EXCEPT ![claim.root] = @ \cup
                                  {[action |-> a, epoch |-> epoch[claim.root]]}]
            BY <2>3 DEF Mutate, Moves, Actions
        <3>2. CASE claim.root \in Root
            <4>1. epoch[claim.root] \in Nat BY <1>1, <3>2 DEF TypeOK
            <4>2. [action |-> a, epoch |-> epoch[claim.root]] \in [action : Actions, epoch : Nat]
                BY <4>1
            <4> QED BY <2>1, <3>1, <4>2
        <3>3. CASE claim.root \notin Root BY <2>1, <3>1, <3>3
        <3> QED BY <3>2, <3>3
    <2> QED BY <2>2, <2>3
<1>7. TypeOK' BY <1>1, <1>2, <1>3, <1>5, <1>6 DEF TypeOK
<1>8. Untouched' /\ ChainUnforked' BY <1>3 DEF IInv, Untouched, ChainUnforked
<1>9. \A c \in Call : CallFits(call'[c]) BY <1>2 DEF IInv
<1>10. \A o \in late' : Fits(o.op, o.cmd, o.snap) BY <1>2 DEF IInv
<1> QED BY <1>3, <1>7, <1>8, <1>9, <1>10 DEF IInv, Lawful

-----------------------------------------------------------------------------
\* The invariant.

LEMMA InitEstablishes == Init => IInv
<1> SUFFICES ASSUME Init PROVE IInv OBVIOUS
<1>1. TypeOK BY RootConstants, NothingTyped
    DEF Init, TypeOK, Root, Traffic, NoClaim, Evidence, Txs
<1>2. ASSUME NEW c \in Call PROVE CallFits(call[c]) BY DEF Init, Idle, CallFits
<1>3. late = {} BY DEF Init
<1>4. Untouched BY DEF Init, Untouched
<1>5. ChainUnforked
    <2> SUFFICES ASSUME NEW r \in Root
                 PROVE  LET mine == {e \in events : e.root = r} IN
                        /\ {e.seq : e \in mine} = 1..head[r]
                        /\ \A e, f \in mine : e.seq = f.seq => e = f
        BY DEF ChainUnforked
    <2>1. events = {} /\ head[r] = 0 BY DEF Init
    <2>2. 1..0 = {} OBVIOUS
    <2> QED BY <2>1, <2>2
<1> QED BY <1>1, <1>2, <1>3, <1>4, <1>5 DEF IInv

LEMMA NextKeeps == IInv /\ [Next]_vars => IInv' /\ Lawful
<1> SUFFICES ASSUME IInv, [Next]_vars PROVE IInv' /\ Lawful OBVIOUS
<1>1. TypeOK BY DEF IInv
<1>2. ASSUME NEW c \in Call, Moved(c), UNCHANGED <<store, world, late>>, NoFault \/ Fault
      PROVE  IInv' /\ Lawful
    <2>1. faults' \in 0..MaxFaults BY <1>1, <1>2, RootConstants DEF TypeOK, NoFault, Fault
    <2>2. UNCHANGED <<claim, epoch, head>> BY <1>2 DEF store
    <2> QED BY <1>2, <2>1, <2>2, MovedKeeps DEF Lawful
<1>3. ASSUME NEW c \in Call, Step(c) PROVE IInv' /\ Lawful
    <2>1. CASE ReadClaim(c) \/ ReadBundle(c) \/ Preflight(c) \/ AdoptRoot(c)
        BY <1>2, <2>1, CreationMoves DEF ReadClaim, ReadBundle, Preflight, AdoptRoot
    <2>2. CASE ReadRevocation(c) BY <1>2, <2>2, ReadRevocationMoves DEF ReadRevocation
    <2>3. CASE RecordAudit(c) BY <2>3, AuditKeeps DEF Lawful
    <2>4. CASE ClassifyTarget(c) \/ ClassifyCommitted(c)
        BY <1>2, <2>4, ClassifyMoves DEF ClassifyTarget, ClassifyCommitted
    <2>5. CASE ReadRelease(c) BY <1>2, <2>5, ReadReleaseMoves DEF ReadRelease
    <2>6. CASE CommitConfirmed(c) BY <2>6, CommitStepKeeps
    <2>7. CASE CommitRefused(c) \/ Readback(c) \/ Resolve(c)
        BY <1>2, <2>7, OutcomeMoves DEF CommitRefused, Readback, Resolve
    <2> QED BY <1>3, <2>1, <2>2, <2>3, <2>4, <2>5, <2>6, <2>7 DEF Step
<1>4. ASSUME NEW c \in Call, Trouble(c) PROVE IInv' /\ Lawful
    <2>1. CASE AuditLost(c) BY <2>1, AuditKeeps DEF Lawful
    <2>2. CASE CommitContended(c) \/ CommitTimesOut(c) \/ Crash(c) BY <2>2, CommitStepKeeps
    <2>3. CASE CallFails(c) BY <1>2, <2>3, FailureMoves DEF CallFails
    <2> QED BY <1>4, <2>1, <2>2, <2>3 DEF Trouble
<1>5. ASSUME NEW c \in Call, NEW m \in Command, Begin(c, m) \/ Unauthorized(c, m)
      PROVE  IInv' /\ Lawful
    BY <1>2, <1>5, BeginMoves DEF Begin, Unauthorized
<1>6. ASSUME NEW o \in late, Land(o) PROVE IInv' /\ Lawful BY <1>6, LandKeeps
<1>7. CASE Mutate \/ Reset BY <1>7, WorldKeeps
<1>8. CASE UNCHANGED vars
    <2>1. UNCHANGED <<claim, epoch, head, events, creator, progress, done, audit, verified,
                     service, call, late, faults>>
        BY <1>8 DEF vars
    <2>2. TypeOK' BY <1>1, <2>1 DEF TypeOK
    <2>3. Untouched' /\ ChainUnforked' BY <2>1 DEF IInv, Untouched, ChainUnforked
    <2>4. (\A c \in Call : CallFits(call'[c])) /\ (\A o \in late' : Fits(o.op, o.cmd, o.snap))
        BY <2>1 DEF IInv
    <2> QED BY <2>1, <2>2, <2>3, <2>4 DEF IInv, Lawful
<1> QED BY <1>3, <1>4, <1>5, <1>6, <1>7, <1>8 DEF Next

\* The strengthened invariant holds in every reachable state, for all calls,
\* commands and late transactions.
THEOREM Invariance == Spec => []IInv
BY InitEstablishes, NextKeeps, PTL DEF Spec

\* Every record the coordinators write, and every call's local state, has the
\* shape its contract gives it.
THEOREM TypeCorrect == Spec => []TypeOK
<1>1. IInv => TypeOK BY DEF IInv
<1> QED BY <1>1, Invariance, PTL

\* Concurrent revocations, fences, releases and late transactions never fork a
\* root's evidence chain nor leave a gap in it.
THEOREM ChainsStayWhole == Spec => []ChainUnforked
<1>1. IInv => ChainUnforked BY DEF IInv
<1> QED BY <1>1, Invariance, PTL

\* Once a root has given the service up, no call and no late transaction
\* changes its epoch or its chain.
THEOREM FormerRootsStayFrozen == Spec => FormerRootsFrozen
<1> DEFINE Frozen == \A r \in Root :
                epoch[r] # 0 /\ (epoch'[r] # epoch[r] \/ head'[r] # head[r])
                => claim.root = r /\ claim.status \in {"ACTIVE", "RELEASING"}
<1>1. Lawful => Frozen BY DEF Lawful, OnlyTheOwner
<1>2. IInv /\ [Next]_vars => [Frozen]_vars BY <1>1, NextKeeps
<1> QED BY <1>2, Invariance, PTL DEF Spec, FormerRootsFrozen

\* The transactions implement the abstract tenure: one root at a time, epochs
\* that count up one by one, a fence that closes the last epoch, and a next
\* root only after the release.
THEOREM ImplementsTheTenure == Spec => ImplementsTenure
<1>1. Init => Tenure!Init BY DEF Init, Tenure!Init, NoClaim
<1>2. Lawful => [Tenure!Next]_<<[root |-> claim.root, status |-> claim.status], epoch>>
    BY DEF Lawful
<1>3. IInv /\ [Next]_vars
        => [Tenure!Next]_<<[root |-> claim.root, status |-> claim.status], epoch>>
    BY <1>2, NextKeeps
<1> QED BY <1>1, <1>3, Invariance, PTL DEF Spec, ImplementsTenure, Tenure!Spec

-----------------------------------------------------------------------------
(***************************************************************************)
(* Answers.  What a call is told stays true because nothing it relied on   *)
(* is ever taken back: claims go forward, epochs, results, receipts and    *)
(* versions grow, and a transaction lands only on the store that it was    *)
(* built from.  HistoryTrue says what a call, and a transaction in flight, *)
(* may rely on, and what the store owes to those that landed.              *)
(***************************************************************************)

\* The claim was k; if nobody owned the service then, it has found no owner
\* since, or a root after that of k.
Unowned(k) == k.status \in {"NONE", "RELEASED"}
Reached(k) ==
    \/ k.root < claim.root
    \/ k.root = claim.root /\ (Unowned(k) => Unowned(claim))

\* What the transaction op of the command m, built from s, relies on.
TxTrue(op, m, s) ==
    /\ (op = "create") = (m.kind = "CREATE") /\ (op = "revoke") = (m.kind = "REVOKE")
    /\ Reached(s.claim)
    /\ op = "create" =>
          \A r \in Root : r <= s.claim.root => creator[r].snapshot < m.snapshot
    /\ op # "create" => epoch[m.root] > 0
    /\ op \in {"revoke", "fence"} => s.epoch <= epoch[m.root]
    /\ op = "fence" => ReceiptIsExact(m)
    /\ op = "finalize" => s.seen.version <= service.version /\ m \in progress

\* A transaction that cannot land any more.
Spent(o) ==
    \/ ~CommitValid(o)
    \/ o.op = "fence" /\ Taken(o.cmd)
    \/ o.op = "fence" /\ o.snap.epoch < epoch[o.cmd.root]
    \/ o.op = "fence" /\ claim.root = o.snap.claim.root /\ claim.status # "ACTIVE"
    \/ o.op = "fence" /\ claim.root > o.snap.claim.root

\* The call c has sent nothing; it has changed nothing and never will.
Free(c) == (\A e \in events : e.by # c) /\ (\A o \in late : o.by # c)
Quiet(c) == (\A e \in events : e.by # c) /\ (\A o \in late : o.by = c => Spent(o))

Success(m) ==
    IF m.kind = "CREATE" THEN \E r \in Root : creator[r] = m
    ELSE m \in done /\ epoch[m.root] > m.epoch

\* The call c may be in the local state l.
LocalTrue(c, l) ==
    /\ l.pc = "idle" => audit[c] = "NONE"
    /\ l.pc \in {"idle", "claim", "preflight"} => Free(c)
    /\ l.pc \in {"claim", "adopt", "raced", "bundle", "preflight"} => l.cmd.kind = "CREATE"
    /\ l.pc \in {"read", "resolve"} => l.cmd.kind # "CREATE"
    /\ l.pc \in {"audit", "classify"} => l.cmd.kind = "REVOKE"
    /\ l.pc = "audit" => l.code # "OK"
    /\ l.pc = "target" => l.cmd.kind \in Releases /\ l.cmd \in progress
    /\ l.pc \in {"preflight", "target"} => Reached(l.snap.claim)
    /\ l.pc = "bundle" => l.snap.claim.root > 0
    /\ l.pc \in {"commit", "readback", "adopt"} => TxTrue(l.op, l.cmd, l.snap)
    /\ l.pc = "classify" \/ (l.pc = "audit" /\ l.code = "ADOPTED") => l.cmd \in done
    /\ l.pc = "done" /\ l.code = "OK" => Success(l.cmd)
    /\ l.pc = "done" /\ l.code \in Denials =>
          IF l.cmd.kind = "REVOKE" THEN audit[c] = "DENIED" ELSE Quiet(c)

LocalsTrue == \A c \in Call : LocalTrue(c, call[c])

LateTrue == \A o \in late : o.cmd = Cmd(o.by) /\ TxTrue(o.op, o.cmd, o.snap)

\* Each root is its creator's, and each creator's snapshot was left behind
\* before the next root was created.
ClaimTrue ==
    /\ (claim.root = 0) = (claim.status = "NONE")
    /\ claim.root > 0 => creator[claim.root] = claim.owner
    /\ \A r \in Root : /\ r <= claim.root => creator[r] \in Command /\ epoch[r] > 0
                       /\ r > claim.root => creator[r] = NoCommand
    /\ \A r, s \in Root : r < s /\ s <= claim.root =>
                              creator[r].snapshot < creator[s].snapshot
    /\ \A r \in Root : r < claim.root \/ (r = claim.root /\ claim.status = "RELEASED") =>
                           creator[r].snapshot < service.version

ResultsTrue ==
    /\ \A m \in done : m.kind # "CREATE" /\ m.root \in Root /\ epoch[m.root] > m.epoch
    /\ \A m \in progress : m.kind \in Releases /\ m.root \in Root /\ epoch[m.root] > 0

\* The call of each event has the record that its kind of command leaves.
RecordsTrue ==
    /\ \A e \in events : /\ Cmd(e.by).kind = "REVOKE" => audit[e.by] = "COMMITTED"
                         /\ Cmd(e.by).kind \in Releases => Cmd(e.by) \in progress
    /\ \A c \in Call : /\ audit[c] # "NONE" => Cmd(c).kind = "REVOKE"
                       /\ audit[c] = "COMMITTED" => Cmd(c) \in done

Opens(e) == e.kind \in {"ROOT_CREATED", "EPOCH_ADVANCED"}
Openers(r, n) == {e \in events : e.root = r /\ e.epoch = n /\ Opens(e)}
EpochsOpened ==
    /\ \A e \in events : Opens(e) => e.epoch <= epoch[e.root]
    /\ \A r \in Root : \A n \in 1..epoch[r] : \E e \in Openers(r, n) :
          /\ Openers(r, n) = {e}
          /\ n > 1 => Cmd(e.by).epoch = n - 1 /\ Cmd(e.by) \in progress \cup done

FenceWhole ==
    claim.status = "RELEASING" =>
        LET m == claim.fence IN
        /\ m \in progress /\ m \notin done /\ m.root = claim.root
        /\ epoch[m.root] = m.epoch + 1
        /\ ReceiptIsExact(m) /\ ProgressEvidenceExact(m) /\ FenceIsHead(m)

HistoryTrue ==
    /\ LocalsTrue
    /\ LateTrue
    /\ ClaimTrue
    /\ ResultsTrue
    /\ RecordsTrue
    /\ EpochsOpened
    /\ FenceWhole

-----------------------------------------------------------------------------
\* What grows stays true.

\* What any step does to what calls rely on.
Onward ==
    /\ \/ claim' = claim
       \/ /\ claim.status \in {"NONE", "RELEASED"}
          /\ claim'.root = claim.root + 1 /\ claim'.status = "ACTIVE"
       \/ /\ claim'.root = claim.root
          /\ \/ claim.status = "ACTIVE" /\ claim'.status = "RELEASING"
             \/ claim.status = "RELEASING" /\ claim'.status = "RELEASED"
    /\ \A r \in Root : /\ epoch[r] <= epoch'[r] /\ verified[r] \subseteq verified'[r]
                       /\ r <= claim.root => creator'[r] = creator[r]
    /\ progress \subseteq progress' /\ done \subseteq done' /\ events \subseteq events'
    /\ service.version <= service'.version

\* A call that has begun keeps its command.
Kept == \A c \in Call : call[c].pc # "idle" => Cmd(c)' = Cmd(c)

LEMMA ReachedStays ==
    ASSUME TypeOK, TypeOK', Onward, NEW k \in Claims, Reached(k)
    PROVE  Reached(k)'
<1>1. claim.root \in Nat /\ claim'.root \in Nat /\ k.root \in Nat
    BY RootConstants DEF TypeOK, Claims
<1>2. /\ k.root < claim.root \/ k.root = claim.root
      /\ k.root = claim.root /\ Unowned(k) => Unowned(claim)
    BY <1>1 DEF Reached
<1>3. \/ claim' = claim
      \/ claim'.root = claim.root + 1
      \/ claim'.root = claim.root /\ ~Unowned(claim)
    BY DEF Onward, Unowned
<1> QED BY <1>1, <1>2, <1>3 DEF Reached, Unowned

LEMMA ReceiptStays ==
    ASSUME TypeOK, TypeOK', Onward, NEW m, m.root \in Root, ReceiptIsExact(m)
    PROVE  ReceiptIsExact(m)'
<1>1. PICK v \in verified[m.root] :
          /\ v.action = m.action
          /\ IF m.kind = "STRANDED" THEN v.epoch = m.epoch ELSE v.epoch <= epoch[m.root]
    BY DEF ReceiptIsExact
<1>2. v \in verified'[m.root] /\ epoch[m.root] <= epoch'[m.root] BY DEF Onward
<1>3. epoch[m.root] \in Nat /\ epoch'[m.root] \in Nat /\ v.epoch \in Nat BY DEF TypeOK
<1> QED BY <1>1, <1>2, <1>3 DEF ReceiptIsExact

LEMMA TxStays ==
    ASSUME TypeOK, TypeOK', Onward, NEW op, NEW m \in Command, NEW s \in Snaps,
           Fits(op, m, s), TxTrue(op, m, s)
    PROVE  TxTrue(op, m, s)'
<1>1. s.claim \in Claims /\ s.claim.root \in Nat /\ claim.root \in Nat
      /\ s.epoch \in Nat /\ s.seen.version \in Nat
    BY RootConstants DEF TypeOK, Snaps, Claims
<1>2. Reached(s.claim) /\ Reached(s.claim)' BY <1>1, ReachedStays DEF TxTrue
<1>3. op # "create" => m.root \in Root BY DEF Fits
<1>4. op = "create" => \A r \in Root : r <= s.claim.root => creator'[r].snapshot < m.snapshot
    <2> SUFFICES ASSUME op = "create", NEW r \in Root, r <= s.claim.root
                 PROVE  creator'[r].snapshot < m.snapshot
        OBVIOUS
    <2>1. r <= claim.root BY <1>1, <1>2 DEF Reached, Root
    <2>2. creator'[r] = creator[r] BY <2>1 DEF Onward
    <2> QED BY <2>2 DEF TxTrue
<1>5. op # "create" => epoch'[m.root] > 0 /\ (s.epoch <= epoch[m.root] => s.epoch <= epoch'[m.root])
    <2> HAVE op # "create"
    <2>1. epoch[m.root] \in Nat /\ epoch'[m.root] \in Nat /\ epoch[m.root] <= epoch'[m.root]
        BY <1>3 DEF TypeOK, Onward
    <2>2. epoch[m.root] > 0 BY DEF TxTrue
    <2> QED BY <1>1, <2>1, <2>2
<1>6. op = "fence" => ReceiptIsExact(m)' BY <1>3, ReceiptStays DEF TxTrue
<1>7. op = "finalize" => s.seen.version <= service'.version /\ m \in progress'
    <2>1. service.version \in Nat /\ service'.version \in Nat BY DEF TypeOK
    <2> QED BY <1>1, <2>1 DEF TxTrue, Onward
<1>8. op \in {"revoke", "fence"} => s.epoch <= epoch'[m.root] BY <1>5 DEF TxTrue
<1>9. op # "create" => epoch'[m.root] > 0 BY <1>5
<1>10. (op = "create") = (m.kind = "CREATE") /\ (op = "revoke") = (m.kind = "REVOKE")
    BY DEF TxTrue
<1> QED BY <1>2, <1>4, <1>6, <1>7, <1>8, <1>9, <1>10 DEF TxTrue

LEMMA TakenStays ==
    ASSUME Onward, NEW m, Taken(m)
    PROVE  Taken(m)'
BY DEF Onward, Taken, RevocationHolders, ReleaseHolders

LEMMA SpentStays ==
    ASSUME TypeOK, TypeOK', Onward, NEW o \in Txs, Fits(o.op, o.cmd, o.snap), Spent(o)
    PROVE  Spent(o)'
<1>1. CASE ~CommitValid(o) BY <1>1 DEF Spent
<1>2. CASE o.op = "fence"
    <2>1. o.cmd.root \in Root BY <1>2 DEF Fits
    <2>2. /\ epoch[o.cmd.root] \in Nat /\ epoch'[o.cmd.root] \in Nat /\ o.snap.epoch \in Nat
          /\ epoch[o.cmd.root] <= epoch'[o.cmd.root]
        BY <2>1 DEF TypeOK, Onward, Txs, Snaps
    <2>3. claim.root \in Nat /\ claim'.root \in Nat /\ o.snap.claim.root \in Nat
        BY RootConstants DEF TypeOK, Claims, Txs, Snaps
    <2>4. CASE Taken(o.cmd) BY <1>2, <2>4, TakenStays DEF Spent
    <2>5. CASE o.snap.epoch < epoch[o.cmd.root] BY <1>2, <2>2, <2>5 DEF Spent
    <2>6. CASE claim.root = o.snap.claim.root /\ claim.status # "ACTIVE"
        <3>1. \/ claim'.root = o.snap.claim.root /\ claim'.status # "ACTIVE"
              \/ claim'.root > o.snap.claim.root
            BY <2>3, <2>6 DEF Onward
        <3> QED BY <1>2, <3>1 DEF Spent
    <2>7. CASE claim.root > o.snap.claim.root
        <3>1. claim'.root > o.snap.claim.root BY <2>3, <2>7 DEF Onward
        <3> QED BY <1>2, <3>1 DEF Spent
    <2> QED BY <1>1, <2>4, <2>5, <2>6, <2>7 DEF Spent
<1> QED BY <1>1, <1>2 DEF Spent

\* The call c has news of its own: only then its promises may change.
Undisturbed(c) ==
    /\ Free(c) => Free(c)' /\ audit'[c] = audit[c]
    /\ Quiet(c) => Quiet(c)'
    /\ audit[c] = "DENIED" => audit'[c] = "DENIED"

LEMMA LocalStays ==
    ASSUME TypeOK, TypeOK', HistoryTrue, Onward, NEW c \in Call, NEW l \in Locals,
           CallFits(l), LocalTrue(c, l), Undisturbed(c)
    PROVE  LocalTrue(c, l)'
<1>1. l.pc = "idle" => audit'[c] = "NONE" BY DEF LocalTrue, Undisturbed
<1>2. l.pc \in {"idle", "claim", "preflight"} => Free(c)' BY DEF LocalTrue, Undisturbed
<1>3. l.pc \in {"preflight", "target"} => Reached(l.snap.claim)'
    BY ReachedStays DEF LocalTrue, Locals, Snaps
<1>4. l.pc \in {"commit", "readback", "adopt"} => TxTrue(l.op, l.cmd, l.snap)'
    <2> HAVE l.pc \in {"commit", "readback", "adopt"}
    <2>1. TxTrue(l.op, l.cmd, l.snap) /\ Fits(l.op, l.cmd, l.snap) /\ l.cmd \in Command
        BY DEF LocalTrue, CallFits
    <2>2. l.snap \in Snaps BY DEF Locals
    <2> QED BY <2>1, <2>2, TxStays
<1>5. l.pc \in {"classify", "audit"} /\ l.cmd \in done => l.cmd \in done' BY DEF Onward
<1>6. l.pc = "target" => l.cmd \in progress' BY DEF LocalTrue, Onward
<1>7. l.pc = "done" /\ l.code = "OK" => Success(l.cmd)'
    <2> HAVE l.pc = "done" /\ l.code = "OK"
    <2>1. Success(l.cmd) BY DEF LocalTrue
    <2>2. CASE l.cmd.kind = "CREATE"
        <3>1. PICK r \in Root : creator[r] = l.cmd BY <2>1, <2>2 DEF Success
        <3>2. l.cmd \in Command BY DEF CallFits
        <3>3. claim.root \in Nat /\ r \in Nat BY RootConstants DEF TypeOK, Claims, Root
        <3>4. r <= claim.root BY <3>1, <3>2, <3>3, RootConstants DEF HistoryTrue, ClaimTrue
        <3>5. creator'[r] = creator[r] BY <3>4 DEF Onward
        <3> QED BY <2>2, <3>1, <3>5 DEF Success
    <2>3. CASE l.cmd.kind # "CREATE"
        <3>1. l.cmd \in done /\ epoch[l.cmd.root] > l.cmd.epoch BY <2>1, <2>3 DEF Success
        <3>2. l.cmd.root \in Root /\ l.cmd.epoch \in Nat
            BY <3>1, RootConstants DEF HistoryTrue, ResultsTrue, TypeOK
        <3>3. epoch[l.cmd.root] \in Nat /\ epoch'[l.cmd.root] \in Nat
              /\ epoch[l.cmd.root] <= epoch'[l.cmd.root]
            BY <3>2 DEF TypeOK, Onward
        <3>4. epoch'[l.cmd.root] > l.cmd.epoch /\ l.cmd \in done' BY <3>1, <3>2, <3>3 DEF Onward
        <3> QED BY <2>3, <3>4 DEF Success
    <2> QED BY <2>2, <2>3
<1>8. l.pc = "done" /\ l.code \in Denials =>
          IF l.cmd.kind = "REVOKE" THEN audit'[c] = "DENIED" ELSE Quiet(c)'
    BY DEF LocalTrue, Undisturbed
<1>9. /\ l.pc \in {"claim", "adopt", "raced", "bundle", "preflight"} => l.cmd.kind = "CREATE"
      /\ l.pc \in {"read", "resolve"} => l.cmd.kind # "CREATE"
      /\ l.pc \in {"audit", "classify"} => l.cmd.kind = "REVOKE"
      /\ l.pc = "audit" => l.code # "OK"
      /\ l.pc = "target" => l.cmd.kind \in Releases
      /\ l.pc = "bundle" => l.snap.claim.root > 0
    BY DEF LocalTrue
<1>10. l.pc = "classify" \/ (l.pc = "audit" /\ l.code = "ADOPTED") => l.cmd \in done'
    BY <1>5 DEF LocalTrue
<1> QED BY <1>1, <1>2, <1>3, <1>4, <1>6, <1>7, <1>8, <1>9, <1>10 DEF LocalTrue

-----------------------------------------------------------------------------
\* What holds of the store.

\* The call of an event, of a late transaction and of an audit has begun.
LEMMA SendersBegan ==
    ASSUME TypeOK, HistoryTrue
    PROVE  /\ \A e \in events : e.by \in Call /\ call[e.by].pc # "idle"
           /\ \A o \in late : o.by \in Call /\ call[o.by].pc # "idle"
           /\ \A c \in Call : audit[c] # "NONE" => call[c].pc # "idle"
<1>1. \A e \in events : e.by \in Call BY DEF TypeOK, Evidence
<1>2. \A o \in late : o.by \in Call BY DEF TypeOK, Txs
<1>3. \A c \in Call : call[c].pc = "idle" => Free(c) /\ audit[c] = "NONE"
    BY DEF HistoryTrue, LocalsTrue, LocalTrue
<1> QED BY <1>1, <1>2, <1>3 DEF Free

\* Evidence of a stage is never lost, and has the same commands.
LEMMA StagesStay ==
    ASSUME TypeOK, HistoryTrue, Kept, events' = events, NEW m, NEW k
    PROVE  StageEvidence(m, k)' = StageEvidence(m, k)
<1>1. \A e \in events : Cmd(e.by)' = Cmd(e.by) BY SendersBegan DEF Kept
<1> QED BY <1>1 DEF StageEvidence

\* A step that leaves the authority documents alone.
LEMMA QuietStore ==
    ASSUME TypeOK, TypeOK', HistoryTrue, Kept,
           UNCHANGED <<claim, epoch, head, events, creator, progress, done>>,
           service.version <= service'.version,
           claim.status = "RELEASING" => verified' = verified
    PROVE  ClaimTrue' /\ ResultsTrue' /\ EpochsOpened' /\ FenceWhole'
<1>1. ClaimTrue'
    <2>1. service.version \in Nat /\ service'.version \in Nat BY DEF TypeOK
    <2>2. \A r \in Root : r <= claim.root => creator[r].snapshot \in Nat
        BY RootConstants DEF HistoryTrue, ClaimTrue
    <2>3. ASSUME NEW r \in Root, r < claim.root \/ (r = claim.root /\ claim.status = "RELEASED")
          PROVE  creator[r].snapshot < service'.version
        <3>1. creator[r].snapshot < service.version BY <2>3 DEF HistoryTrue, ClaimTrue
        <3>2. claim.root \in Nat /\ r \in Nat BY RootConstants DEF TypeOK, Claims, Root
        <3>3. creator[r].snapshot \in Nat BY <2>2, <2>3, <3>2
        <3> QED BY <2>1, <3>1, <3>3
    <2> QED BY <2>3 DEF HistoryTrue, ClaimTrue
<1>2. ResultsTrue' BY DEF HistoryTrue, ResultsTrue
<1>3. EpochsOpened'
    <2>1. \A e \in events : Cmd(e.by)' = Cmd(e.by) BY SendersBegan DEF Kept
    <2>2. \A r, n : Openers(r, n)' = Openers(r, n) BY DEF Openers, Opens
    <2>3. ASSUME NEW r \in Root, NEW n \in 1..epoch[r]
          PROVE  \E e \in Openers(r, n)' :
                    /\ Openers(r, n)' = {e}
                    /\ n > 1 => Cmd(e.by)'.epoch = n - 1 /\ Cmd(e.by)' \in progress' \cup done'
        <3>1. PICK e \in Openers(r, n) :
                    /\ Openers(r, n) = {e}
                    /\ n > 1 => Cmd(e.by).epoch = n - 1 /\ Cmd(e.by) \in progress \cup done
            BY <2>3 DEF HistoryTrue, EpochsOpened
        <3>2. Cmd(e.by)' = Cmd(e.by) BY <2>1 DEF Openers
        <3> QED BY <2>2, <3>1, <3>2
    <2>4. \A e \in events' : Opens(e) => e.epoch <= epoch'[e.root]
        BY DEF HistoryTrue, EpochsOpened
    <2> QED BY <2>3, <2>4 DEF EpochsOpened, Opens
<1>4. FenceWhole'
    <2> SUFFICES ASSUME claim.status = "RELEASING"
                 PROVE  LET m == claim.fence IN
                        /\ m \in progress /\ m \notin done /\ m.root = claim.root
                        /\ epoch[m.root] = m.epoch + 1
                        /\ ReceiptIsExact(m)' /\ ProgressEvidenceExact(m)' /\ FenceIsHead(m)'
        BY DEF FenceWhole
    <2>0. PICK m : m = claim.fence OBVIOUS
    <2>1. /\ m \in progress /\ m \notin done /\ m.root = claim.root
          /\ epoch[m.root] = m.epoch + 1
          /\ ReceiptIsExact(m) /\ ProgressEvidenceExact(m) /\ FenceIsHead(m)
        BY <2>0 DEF HistoryTrue, FenceWhole
    <2>2. verified' = verified OBVIOUS
    <2>3. ReceiptIsExact(m)' BY <2>1, <2>2 DEF ReceiptIsExact
    <2>4. StageEvidence(m, "TERMINAL")' = StageEvidence(m, "TERMINAL")
          /\ StageEvidence(m, "EPOCH_ADVANCED")' = StageEvidence(m, "EPOCH_ADVANCED")
        BY StagesStay
    <2>5. TerminalReceipt(m)' = TerminalReceipt(m) BY <2>2 DEF TerminalReceipt
    <2>6. ProgressEvidenceExact(m)' BY <2>1, <2>4, <2>5 DEF ProgressEvidenceExact
    <2>7. FenceIsHead(m)' BY <2>1, <2>4 DEF FenceIsHead
    <2> QED BY <2>0, <2>1, <2>3, <2>6, <2>7
<1> QED BY <1>1, <1>2, <1>3, <1>4

\* A step that leaves the audits alone, too.
LEMMA QuietRecords ==
    ASSUME TypeOK, HistoryTrue, Kept, UNCHANGED <<events, progress, done, audit>>
    PROVE  RecordsTrue'
<1>1. \A e \in events : Cmd(e.by)' = Cmd(e.by) BY SendersBegan DEF Kept
<1>2. \A c \in Call : audit[c] # "NONE" => Cmd(c)' = Cmd(c) BY SendersBegan DEF Kept
<1> QED BY <1>1, <1>2 DEF HistoryTrue, RecordsTrue

-----------------------------------------------------------------------------
\* Commits.

Stamped(o, r, i, k, e) ==
    [root |-> r, seq |-> o.snap.head + i, kind |-> k, epoch |-> e, by |-> o.by]

LEMMA AppendOne ==
    ASSUME NEW o, NEW r, NEW k, NEW e, Appended(o, r, <<Event(k, e)>>)
    PROVE  /\ events' = events \cup {Stamped(o, r, 1, k, e)}
           /\ head' = [head EXCEPT ![r] = o.snap.head + 1]
<1> DEFINE s == <<Event(k, e)>>
<1>1. DOMAIN s = {1} /\ Len(s) = 1 /\ s[1].kind = k /\ s[1].epoch = e BY DEF Event
<1>2. Appended(o, r, s) OBVIOUS
<1> HIDE DEF s
<1> QED BY <1>1, <1>2 DEF Appended, Stamped

LEMMA AppendTwo ==
    ASSUME NEW o, NEW r, NEW k, NEW e, NEW l, NEW f, Appended(o, r, <<Event(k, e), Event(l, f)>>)
    PROVE  /\ events' = events \cup {Stamped(o, r, 1, k, e), Stamped(o, r, 2, l, f)}
           /\ head' = [head EXCEPT ![r] = o.snap.head + 2]
<1> DEFINE s == <<Event(k, e), Event(l, f)>>
<1>1. /\ DOMAIN s = {1, 2} /\ Len(s) = 2 /\ s[1].kind = k /\ s[1].epoch = e
      /\ s[2].kind = l /\ s[2].epoch = f
    BY DEF Event
<1>2. Appended(o, r, s) OBVIOUS
<1> HIDE DEF s
<1>3. events' = events \cup {Stamped(o, r, i, s[i].kind, s[i].epoch) : i \in {1, 2}}
    BY <1>1, <1>2 DEF Appended, Stamped
<1>4. head' = [head EXCEPT ![r] = o.snap.head + 2] BY <1>1, <1>2 DEF Appended
<1> QED BY <1>1, <1>3, <1>4

\* The transaction o is admitted by the call that sent it, and the step that
\* commits it leaves everything but the store to that call.
Sent(o) ==
    /\ o \in Txs /\ Fits(o.op, o.cmd, o.snap) /\ TxTrue(o.op, o.cmd, o.snap)
    /\ call[o.by].pc # "idle" /\ Cmd(o.by) = o.cmd /\ Cmd(o.by)' = o.cmd

\* What a commit gives notice of.
News(o) ==
    /\ \A e \in events' : e \in events \/ e.by = o.by
    /\ \A d \in Call : audit'[d] = audit[d] \/ (d = o.by /\ audit[d] = "NONE")

\* One new event opens the next epoch of r.
LEMMA EpochOpens ==
    ASSUME TypeOK, TypeOK', HistoryTrue, Kept, NEW r \in Root, NEW e0, NEW m,
           e0 \in events', e0 \notin events, Opens(e0), e0.root = r, e0.epoch = epoch[r] + 1,
           Cmd(e0.by)' = m,
           events \subseteq events', \A e \in events' : Opens(e) => e \in events \/ e = e0,
           epoch' = [epoch EXCEPT ![r] = epoch[r] + 1],
           progress \subseteq progress', done \subseteq done',
           epoch[r] # 0 => m.epoch = epoch[r] /\ m \in progress' \cup done'
    PROVE  EpochsOpened'
<1>1. epoch \in [Root -> Nat] /\ epoch[r] \in Nat BY DEF TypeOK
<1>2. \A q \in Root : epoch'[q] = IF q = r THEN epoch[r] + 1 ELSE epoch[q] BY <1>1
<1>3. \A e \in events : Cmd(e.by)' = Cmd(e.by) BY SendersBegan DEF Kept
<1>4. \A e \in events : e.root \in Root /\ e.epoch \in Nat /\ e.seq \in Nat
    BY DEF TypeOK, Evidence
<1>5. \A e \in events : Opens(e) => e.epoch <= epoch[e.root] BY DEF HistoryTrue, EpochsOpened
<1>6. ASSUME NEW e \in events', Opens(e) PROVE e.epoch <= epoch'[e.root]
    <2>1. CASE e = e0 BY <1>1, <1>2, <2>1
    <2>2. CASE e \in events
        <3>1. e.epoch <= epoch[e.root] BY <1>5, <1>6, <2>2
        <3>2. e.root \in Root /\ e.epoch \in Nat BY <1>4, <2>2
        <3>3. epoch[e.root] \in Nat BY <1>1, <3>2
        <3> QED BY <1>1, <1>2, <3>1, <3>2, <3>3
    <2> QED BY <1>6, <2>1, <2>2
<1>7. ASSUME NEW q \in Root, NEW n \in 1..epoch'[q]
      PROVE  \E e \in Openers(q, n)' :
                /\ Openers(q, n)' = {e}
                /\ n > 1 => Cmd(e.by)'.epoch = n - 1 /\ Cmd(e.by)' \in progress' \cup done'
    <2>1. CASE q = r /\ n = epoch[r] + 1
        <3>1. ASSUME NEW e \in events', e.root = q, e.epoch = n, Opens(e) PROVE e = e0
            <4>1. e \notin events BY <1>1, <1>5, <2>1, <3>1
            <4> QED BY <3>1, <4>1
        <3>2. Openers(q, n)' = {e0} BY <2>1, <3>1 DEF Openers, Opens
        <3>3. n > 1 => m.epoch = n - 1 /\ m \in progress' \cup done' BY <1>1, <2>1
        <3> QED BY <3>2, <3>3
    <2>2. CASE ~(q = r /\ n = epoch[r] + 1)
        <3>1. n \in 1..epoch[q] BY <1>1, <1>2, <2>2
        <3>2. PICK e \in Openers(q, n) :
                    /\ Openers(q, n) = {e}
                    /\ n > 1 => Cmd(e.by).epoch = n - 1 /\ Cmd(e.by) \in progress \cup done
            BY <3>1 DEF HistoryTrue, EpochsOpened
        <3>3. Openers(q, n)' = Openers(q, n) BY <2>2 DEF Openers, Opens
        <3>4. Cmd(e.by)' = Cmd(e.by) BY <1>3, <3>2 DEF Openers
        <3> QED BY <3>2, <3>3, <3>4
    <2> QED BY <2>1, <2>2
<1> QED BY <1>6, <1>7 DEF EpochsOpened, Opens

\* The new events open no epoch.
LEMMA EpochsKept ==
    ASSUME TypeOK, HistoryTrue, Kept, events \subseteq events',
           \A e \in events' : Opens(e) => e \in events,
           epoch' = epoch, progress \subseteq progress', done \subseteq done'
    PROVE  EpochsOpened'
<1>1. \A e \in events : Cmd(e.by)' = Cmd(e.by) BY SendersBegan DEF Kept
<1>2. \A e \in events' : Opens(e) => e.epoch <= epoch'[e.root]
    BY DEF HistoryTrue, EpochsOpened
<1>3. ASSUME NEW q \in Root, NEW n \in 1..epoch'[q]
      PROVE  \E e \in Openers(q, n)' :
                /\ Openers(q, n)' = {e}
                /\ n > 1 => Cmd(e.by)'.epoch = n - 1 /\ Cmd(e.by)' \in progress' \cup done'
    <2>1. PICK e \in Openers(q, n) :
                /\ Openers(q, n) = {e}
                /\ n > 1 => Cmd(e.by).epoch = n - 1 /\ Cmd(e.by) \in progress \cup done
        BY <1>3 DEF HistoryTrue, EpochsOpened
    <2>2. Openers(q, n)' = Openers(q, n) BY DEF Openers, Opens
    <2>3. Cmd(e.by)' = Cmd(e.by) BY <1>1, <2>1 DEF Openers
    <2> QED BY <2>1, <2>2, <2>3
<1> QED BY <1>2, <1>3 DEF EpochsOpened, Opens

\* The calls of the old events keep their records, and o has its own.
LEMMA RecordsGrow ==
    ASSUME TypeOK, HistoryTrue, Kept, NEW o, Sent(o), News(o),
           progress \subseteq progress', done \subseteq done',
           o.cmd.kind = "REVOKE" /\ events' # events => audit'[o.by] = "COMMITTED",
           o.cmd.kind \in Releases => o.cmd \in progress',
           audit'[o.by] # audit[o.by] =>
               o.cmd.kind = "REVOKE" /\ audit'[o.by] = "COMMITTED" /\ o.cmd \in done'
    PROVE  RecordsTrue'
<1>1. \A e \in events : Cmd(e.by)' = Cmd(e.by) BY SendersBegan DEF Kept
<1>2. \A c \in Call : audit[c] # "NONE" => Cmd(c)' = Cmd(c) BY SendersBegan DEF Kept
<1>3. Cmd(o.by)' = o.cmd BY DEF Sent
<1>4. ASSUME NEW e \in events'
      PROVE  /\ Cmd(e.by)'.kind = "REVOKE" => audit'[e.by] = "COMMITTED"
             /\ Cmd(e.by)'.kind \in Releases => Cmd(e.by)' \in progress'
    <2>1. CASE e \in events
        <3>1. /\ Cmd(e.by).kind = "REVOKE" => audit[e.by] = "COMMITTED"
              /\ Cmd(e.by).kind \in Releases => Cmd(e.by) \in progress
            BY <2>1 DEF HistoryTrue, RecordsTrue
        <3>2. e.by \in Call BY <2>1 DEF TypeOK, Evidence
        <3>3. audit[e.by] = "COMMITTED" => audit'[e.by] = "COMMITTED" BY <3>2 DEF News
        <3> QED BY <1>1, <2>1, <3>1, <3>3
    <2>2. CASE e \notin events
        <3>1. e.by = o.by /\ events' # events BY <2>2 DEF News
        <3> QED BY <1>3, <3>1
    <2> QED BY <2>1, <2>2
<1>5. ASSUME NEW c \in Call
      PROVE  /\ audit'[c] # "NONE" => Cmd(c)'.kind = "REVOKE"
             /\ audit'[c] = "COMMITTED" => Cmd(c)' \in done'
    <2>1. CASE audit'[c] = audit[c] BY <1>2, <2>1 DEF HistoryTrue, RecordsTrue
    <2>2. CASE audit'[c] # audit[c]
        <3>1. c = o.by BY <2>2 DEF News
        <3> QED BY <1>3, <2>2, <3>1
    <2> QED BY <2>1, <2>2
<1> QED BY <1>4, <1>5 DEF RecordsTrue

\* What a commit leaves behind.
Committed(o) ==
    /\ Onward /\ News(o)
    /\ ClaimTrue' /\ ResultsTrue' /\ RecordsTrue' /\ EpochsOpened' /\ FenceWhole'

\* Epochs that do not shrink keep the results true.
LEMMA ResultsGrow ==
    ASSUME TypeOK, TypeOK', HistoryTrue,
           \A r \in Root : epoch[r] <= epoch'[r],
           \A n \in done' : \/ n \in done
                            \/ n.kind # "CREATE" /\ n.root \in Root /\ epoch'[n.root] > n.epoch,
           \A n \in progress' : \/ n \in progress
                                \/ n.kind \in Releases /\ n.root \in Root /\ epoch'[n.root] > 0
    PROVE  ResultsTrue'
<1>1. \A r \in Root : epoch[r] \in Nat /\ epoch'[r] \in Nat BY DEF TypeOK
<1>2. \A n \in done : n.epoch \in Nat BY RootConstants DEF TypeOK
<1>3. ASSUME NEW n \in done PROVE n.kind # "CREATE" /\ n.root \in Root /\ epoch'[n.root] > n.epoch
    <2>1. n.kind # "CREATE" /\ n.root \in Root /\ epoch[n.root] > n.epoch
        BY <1>3 DEF HistoryTrue, ResultsTrue
    <2> QED BY <1>1, <1>2, <2>1
<1>4. ASSUME NEW n \in progress
      PROVE  n.kind \in Releases /\ n.root \in Root /\ epoch'[n.root] > 0
    <2>1. n.kind \in Releases /\ n.root \in Root /\ epoch[n.root] > 0
        BY <1>4 DEF HistoryTrue, ResultsTrue
    <2> QED BY <1>1, <2>1
<1> QED BY <1>3, <1>4 DEF ResultsTrue

\* A new root is younger than every root before it.
LEMMA CreationCommits ==
    ASSUME IInv, TypeOK', HistoryTrue, Kept, NEW o, Sent(o), CreateMatches(o), WriteRoot(o),
           UNCHANGED world
    PROVE  Committed(o)
<1> DEFINE r == o.snap.claim.root + 1
           e0 == Stamped(o, r, 1, "ROOT_CREATED", 1)
<1>1. /\ TypeOK /\ ChainUnforked /\ Untouched /\ o \in Txs /\ o.cmd \in Command /\ o.by \in Call
      /\ claim \in Claims /\ claim.root \in 0..MaxRoots /\ MaxRoots \in Nat
      /\ epoch \in [Root -> Nat] /\ creator \in [Root -> Command \cup {NoCommand}]
      /\ NoCommand \notin Command /\ service.version \in Nat
      /\ UNCHANGED <<verified, service>>
    BY RootConstants DEF IInv, TypeOK, Txs, Claims, Sent, world
<1>2. /\ claim = o.snap.claim /\ claim.status \in {"NONE", "RELEASED"}
      /\ r \in Root /\ r = claim.root + 1 /\ o.op = "create" /\ o.cmd.kind = "CREATE"
    BY DEF CreateMatches, WriteRoot, Sent, Fits, TxTrue
<1>3. epoch[r] = 0 /\ head[r] = 0 BY <1>1, <1>2 DEF Untouched, Root
<1>4. \A e \in events : e.root # r
    <2> SUFFICES ASSUME NEW e \in events, e.root = r PROVE FALSE OBVIOUS
    <2>1. e.seq \in 1..head[r] BY <1>1, <1>2 DEF ChainUnforked
    <2> QED BY <1>3, <2>1
<1>5. events' = events \cup {e0} BY AppendOne DEF WriteRoot
<1>6. e0.root = r /\ e0.epoch = 1 /\ e0.by = o.by /\ e0.kind = "ROOT_CREATED"
    BY DEF Stamped
<1>7. /\ claim'.root = r /\ claim'.status = "ACTIVE" /\ claim'.owner = o.cmd
      /\ epoch' = [epoch EXCEPT ![r] = 1] /\ creator' = [creator EXCEPT ![r] = o.cmd]
      /\ UNCHANGED <<progress, done, audit>>
    BY <1>2 DEF WriteRoot, CreatedClaim
<1>8. \A q \in Root : /\ epoch'[q] = IF q = r THEN 1 ELSE epoch[q]
                      /\ creator'[q] = IF q = r THEN o.cmd ELSE creator[q]
    BY <1>1, <1>7
<1> HIDE DEF e0, r
<1>9. \A q \in Root : q \in Nat /\ q > 0 /\ epoch[q] \in Nat BY <1>1 DEF Root
<1>10. Onward
    <2>1. \A q \in Root : epoch[q] <= epoch'[q] BY <1>3, <1>8, <1>9
    <2>2. \A q \in Root : q <= claim.root => creator'[q] = creator[q] BY <1>1, <1>2, <1>8, <1>9
    <2> QED BY <1>1, <1>2, <1>5, <1>7, <2>1, <2>2 DEF Onward
<1>11. News(o) BY <1>5, <1>6, <1>7 DEF News
<1>12. ClaimTrue'
    <2>0. ClaimTrue BY DEF HistoryTrue
    <2>1. (claim'.root = 0) = (claim'.status = "NONE") BY <1>2, <1>7, <1>9
    <2>2. creator'[claim'.root] = claim'.owner BY <1>2, <1>7, <1>8
    <2>3. ASSUME NEW q \in Root
          PROVE  /\ q <= claim'.root => creator'[q] \in Command /\ epoch'[q] > 0
                 /\ q > claim'.root => creator'[q] = NoCommand
        <3>1. CASE q = r BY <1>1, <1>2, <1>7, <1>8, <1>9, <3>1
        <3>2. CASE q # r
            <4>1. q <= claim'.root => q <= claim.root BY <1>1, <1>2, <1>7, <1>9, <3>2
            <4>2. q > claim'.root => q > claim.root BY <1>1, <1>2, <1>7, <1>9, <3>2
            <4> QED BY <1>8, <2>0, <3>2, <4>1, <4>2 DEF ClaimTrue
        <3> QED BY <3>1, <3>2
    <2>4. \A q \in Root : q <= claim.root => creator[q].snapshot < o.cmd.snapshot
        BY <1>2 DEF Sent, TxTrue
    <2>5. ASSUME NEW q \in Root, NEW s \in Root, q < s, s <= claim'.root
          PROVE  creator'[q].snapshot < creator'[s].snapshot
        <3>1. q <= claim.root /\ q # r BY <1>1, <1>2, <1>7, <1>9, <2>5
        <3>2. CASE s = r BY <1>8, <2>4, <3>1, <3>2
        <3>3. CASE s # r
            <4>1. s <= claim.root BY <1>1, <1>2, <1>7, <1>9, <2>5, <3>3
            <4> QED BY <1>8, <2>0, <2>5, <3>1, <3>3, <4>1 DEF ClaimTrue
        <3> QED BY <3>2, <3>3
    <2>6. ASSUME NEW q \in Root, q < claim'.root PROVE creator'[q].snapshot < service'.version
        <3>1. q # r /\ (q < claim.root \/ q = claim.root) BY <1>1, <1>2, <1>7, <1>9, <2>6
        <3>2. q = claim.root => claim.status = "RELEASED" BY <1>2, <1>9, <2>0 DEF ClaimTrue
        <3>3. creator[q].snapshot < service.version BY <2>0, <3>1, <3>2 DEF ClaimTrue
        <3> QED BY <1>1, <1>8, <3>1, <3>3
    <2> QED BY <1>7, <2>1, <2>2, <2>3, <2>5, <2>6 DEF ClaimTrue
<1>13. ResultsTrue'
    <2>1. \A q \in Root : epoch[q] <= epoch'[q] BY <1>10 DEF Onward
    <2> QED BY <1>1, <1>7, <2>1, ResultsGrow
<1>14. RecordsTrue'
    <2>1. o.cmd.kind \notin Releases BY <1>2 DEF Releases
    <2> QED BY <1>1, <1>2, <1>7, <1>11, <2>1, RecordsGrow
<1>15. EpochsOpened'
    <2>1. e0 \in events' /\ e0 \notin events /\ Opens(e0) /\ Cmd(e0.by)' = o.cmd
        BY <1>4, <1>5, <1>6 DEF Opens, Sent
    <2>2. e0.epoch = epoch[r] + 1 /\ epoch' = [epoch EXCEPT ![r] = epoch[r] + 1]
        BY <1>3, <1>6, <1>7
    <2>3. events \subseteq events' /\ \A e \in events' : Opens(e) => e \in events \/ e = e0
        BY <1>5
    <2>4. progress \subseteq progress' /\ done \subseteq done' BY <1>7
    <2> QED BY <1>1, <1>2, <1>3, <1>6, <2>1, <2>2, <2>3, <2>4, EpochOpens
<1>16. FenceWhole' BY <1>7 DEF FenceWhole
<1> QED BY <1>10, <1>11, <1>12, <1>13, <1>14, <1>15, <1>16 DEF Committed

\* The same root keeps its claim, until the service has moved on.
LEMMA ClaimGrows ==
    ASSUME TypeOK, TypeOK', HistoryTrue, creator' = creator, service' = service,
           \A q \in Root : epoch[q] <= epoch'[q],
           claim'.root = claim.root, claim'.owner = claim.owner,
           claim.status # "NONE", claim'.status # "NONE",
           claim.status # "RELEASED",
           claim'.status = "RELEASED" => creator[claim.root].snapshot < service.version
    PROVE  ClaimTrue'
<1>1. ClaimTrue BY DEF HistoryTrue
<1>2. \A q \in Root : epoch[q] \in Nat /\ epoch'[q] \in Nat BY DEF TypeOK
<1>3. \A q \in Root : /\ q <= claim'.root => creator'[q] \in Command /\ epoch'[q] > 0
                      /\ q > claim'.root => creator'[q] = NoCommand
    <2> SUFFICES ASSUME NEW q \in Root
                 PROVE  /\ q <= claim.root => creator[q] \in Command /\ epoch'[q] > 0
                        /\ q > claim.root => creator[q] = NoCommand
        OBVIOUS
    <2>1. /\ q <= claim.root => creator[q] \in Command /\ epoch[q] > 0
          /\ q > claim.root => creator[q] = NoCommand
        BY <1>1 DEF ClaimTrue
    <2> QED BY <1>2, <2>1
<1>4. (claim'.root = 0) = (claim'.status = "NONE") BY <1>1 DEF ClaimTrue
<1>5. claim'.root > 0 => creator'[claim'.root] = claim'.owner BY <1>1 DEF ClaimTrue
<1>6. \A r, s \in Root : r < s /\ s <= claim'.root => creator'[r].snapshot < creator'[s].snapshot
    BY <1>1 DEF ClaimTrue
<1>7. \A r \in Root : r < claim'.root \/ (r = claim'.root /\ claim'.status = "RELEASED") =>
                          creator'[r].snapshot < service'.version
    BY <1>1 DEF ClaimTrue
<1> QED BY <1>3, <1>4, <1>5, <1>6, <1>7 DEF ClaimTrue

\* A revocation opens the epoch after the one that it names.
LEMMA RevocationCommits ==
    ASSUME IInv, TypeOK', HistoryTrue, Kept, NEW o, Sent(o), CommitValid(o),
           RevocationMatches(o), WriteRevocation(o), UNCHANGED world
    PROVE  Committed(o)
<1> DEFINE r == o.cmd.root
           e0 == Stamped(o, r, 1, "EPOCH_ADVANCED", o.snap.epoch + 1)
<1>1. o.op = "revoke" /\ SameRoot(o) /\ audit[o.by] = "NONE" BY DEF RevocationMatches
<1>2. /\ TypeOK /\ o \in Txs /\ o.cmd \in Command /\ o.by \in Call
      /\ UNCHANGED <<verified, service>>
    BY DEF IInv, TypeOK, Txs, Sent, world
<1>3. /\ r \in Root /\ claim = o.snap.claim /\ claim.root = r /\ claim.status = "ACTIVE"
      /\ o.snap.epoch = epoch[r] /\ epoch \in [Root -> Nat]
    BY <1>1, Admitted DEF Sent
<1>4. o.cmd.epoch = epoch[r] /\ o.cmd.kind = "REVOKE"
    BY <1>1, <1>3 DEF CommitValid, RevocationValid, Sent, TxTrue
<1>5. events' = events \cup {e0} BY AppendOne DEF WriteRevocation
<1>6. /\ e0.root = r /\ e0.epoch = epoch[r] + 1 /\ e0.by = o.by /\ e0.kind = "EPOCH_ADVANCED"
    BY <1>3 DEF Stamped
<1>7. /\ epoch' = [epoch EXCEPT ![r] = epoch[r] + 1] /\ done' = done \cup {o.cmd}
      /\ audit' = [audit EXCEPT ![o.by] = "COMMITTED"] /\ UNCHANGED <<claim, creator, progress>>
    BY <1>3 DEF WriteRevocation
<1> HIDE DEF e0
<1>8. \A q \in Root : /\ epoch'[q] = IF q = r THEN epoch[q] + 1 ELSE epoch[q]
                      /\ epoch[q] \in Nat /\ epoch[q] <= epoch'[q]
    BY <1>3, <1>7
<1>9. \A d \in Call : audit'[d] = IF d = o.by THEN "COMMITTED" ELSE audit[d]
    BY <1>2, <1>7 DEF TypeOK
<1>10. Onward BY <1>2, <1>5, <1>7, <1>8 DEF Onward, TypeOK
<1>11. News(o) BY <1>1, <1>5, <1>6, <1>9 DEF News
<1>12. ClaimTrue' BY <1>2, <1>3, <1>7, <1>8, ClaimGrows
<1>13. ResultsTrue'
    <2>1. o.cmd.kind # "CREATE" /\ o.cmd.root \in Root /\ epoch'[o.cmd.root] > o.cmd.epoch
        BY <1>3, <1>4, <1>8
    <2>2. \A q \in Root : epoch[q] <= epoch'[q] BY <1>8
    <2>3. \A n \in done' : n \in done \/ n = o.cmd BY <1>7
    <2>4. \A n \in progress' : n \in progress BY <1>7
    <2> QED BY <1>2, <2>1, <2>2, <2>3, <2>4, ResultsGrow
<1>14. RecordsTrue'
    <2>1. audit'[o.by] = "COMMITTED" /\ o.cmd \in done' /\ o.cmd.kind \notin Releases
        BY <1>2, <1>4, <1>7, <1>9 DEF Releases
    <2>2. progress \subseteq progress' /\ done \subseteq done' BY <1>7
    <2> QED BY <1>2, <1>4, <1>11, <2>1, <2>2, RecordsGrow
<1>15. EpochsOpened'
    <2>1. e0 \in events' /\ Opens(e0) /\ Cmd(e0.by)' = o.cmd BY <1>5, <1>6 DEF Opens, Sent
    <2>2. e0 \notin events BY <1>3, <1>6, <1>8, <2>1 DEF HistoryTrue, EpochsOpened
    <2>3. events \subseteq events' /\ \A e \in events' : Opens(e) => e \in events \/ e = e0
        BY <1>5
    <2>4. progress \subseteq progress' /\ done \subseteq done' /\ o.cmd \in progress' \cup done'
        BY <1>7
    <2> QED BY <1>2, <1>3, <1>4, <1>6, <1>7, <2>1, <2>2, <2>3, <2>4, EpochOpens
<1>16. FenceWhole' BY <1>3, <1>7 DEF FenceWhole
<1> QED BY <1>10, <1>11, <1>12, <1>13, <1>14, <1>15, <1>16 DEF Committed

\* A release is of the command that fenced, and the service has moved past the
\* snapshot that its root was created on.
LEMMA ReleaseCommits ==
    ASSUME IInv, TypeOK', HistoryTrue, Kept, NEW o, Sent(o), CommitValid(o),
           ReleaseMatches(o), WriteRelease(o), UNCHANGED world
    PROVE  Committed(o)
<1> DEFINE r == o.cmd.root
           e1 == Stamped(o, r, 1, "CLASSIFIED", o.snap.epoch)
           e2 == Stamped(o, r, 2, "RELEASED", o.snap.epoch)
<1>1. o.op = "finalize" /\ SameRoot(o) BY DEF ReleaseMatches
<1>2. /\ TypeOK /\ o \in Txs /\ o.cmd \in Command /\ o.by \in Call
      /\ o.snap.claim \in Claims
      /\ UNCHANGED <<verified, service>>
    BY DEF IInv, TypeOK, Txs, Snaps, Sent, world
<1>3. /\ r \in Root /\ claim = o.snap.claim /\ claim.root = r /\ claim.status = "RELEASING"
      /\ o.snap.epoch = epoch[r] /\ epoch \in [Root -> Nat]
    BY <1>1, Admitted DEF Sent
<1>4. ReleaseValid(o, ReleaseCommit(o)) BY <1>1 DEF CommitValid
<1>5. epoch[r] = o.cmd.epoch + 1 /\ o.cmd.kind \in Releases /\ o.cmd \in progress
    <2>1. o.snap.epoch = o.cmd.epoch + 1 BY <1>4 DEF ReleaseValid, FenceStands
    <2>2. o.cmd \in progress BY DEF ReleaseMatches
    <2>3. o.cmd.kind \in Releases BY <2>2 DEF HistoryTrue, ResultsTrue
    <2> QED BY <1>3, <2>1, <2>2, <2>3
<1>6. events' = events \cup {e1, e2} BY AppendTwo DEF WriteRelease, ReleaseEvents
<1>7. e1.by = o.by /\ e2.by = o.by /\ ~Opens(e1) /\ ~Opens(e2) BY DEF Stamped, Opens
<1> HIDE DEF e1, e2
<1>8. /\ claim' = [claim EXCEPT !.status = "RELEASED"] /\ done' = done \cup {o.cmd}
      /\ UNCHANGED <<epoch, creator, progress, audit>>
    BY <1>3 DEF WriteRelease
<1>9. claim'.root = r /\ claim'.status = "RELEASED" /\ claim'.owner = claim.owner
    BY <1>2, <1>3, <1>8 DEF Claims
<1>10. creator[r].snapshot < service.version
    <2>1. o.snap.seen.version > ReleaseCommit(o).claim.owner.snapshot
        BY <1>4 DEF ReleaseValid, ClassificationExact, ReleaseCommit
    <2>2. ReleaseCommit(o).claim.owner = claim.owner
        BY <1>2, <1>3 DEF ReleaseCommit, Claims
    <2>3. creator[r] = claim.owner /\ creator[r] \in Command
        <3>1. claim.root \in Nat /\ r > 0 BY <1>3 DEF Root
        <3> QED BY <1>3, <3>1 DEF HistoryTrue, ClaimTrue
    <2>4. o.snap.seen.version <= service.version BY <1>1 DEF Sent, TxTrue
    <2>5. o.snap.seen.version \in Nat /\ service.version \in Nat /\ creator[r].snapshot \in Nat
        BY <1>2, <2>3, RootConstants DEF Txs, Snaps, TypeOK
    <2> QED BY <2>1, <2>2, <2>3, <2>4, <2>5
<1>11. \A q \in Root : epoch[q] <= epoch'[q] BY <1>3, <1>8
<1>12. Onward BY <1>2, <1>3, <1>6, <1>8, <1>9, <1>11 DEF Onward, TypeOK
<1>13. News(o) BY <1>6, <1>7, <1>8 DEF News
<1>14. ClaimTrue' BY <1>2, <1>3, <1>8, <1>9, <1>10, <1>11, ClaimGrows
<1>15. ResultsTrue'
    <2>1. o.cmd.kind # "CREATE" /\ o.cmd.root \in Root /\ epoch'[o.cmd.root] > o.cmd.epoch
        BY <1>2, <1>3, <1>5, <1>8, RootConstants DEF Releases
    <2>3. \A n \in done' : n \in done \/ n = o.cmd BY <1>8
    <2>4. \A n \in progress' : n \in progress BY <1>8
    <2> QED BY <1>2, <1>11, <2>1, <2>3, <2>4, ResultsGrow
<1>16. RecordsTrue'
    <2>1. o.cmd.kind # "REVOKE" /\ o.cmd \in progress' BY <1>5, <1>8 DEF Releases
    <2>2. progress \subseteq progress' /\ done \subseteq done' /\ audit' = audit BY <1>8
    <2> QED BY <1>2, <1>13, <2>1, <2>2, RecordsGrow
<1>17. EpochsOpened'
    <2>1. events \subseteq events' /\ \A e \in events' : Opens(e) => e \in events BY <1>6, <1>7
    <2> QED BY <1>2, <1>8, <2>1, EpochsKept
<1>18. FenceWhole' BY <1>9 DEF FenceWhole
<1> QED BY <1>12, <1>13, <1>14, <1>15, <1>16, <1>17, <1>18 DEF Committed

\* A fence leaves everything that its release will ask for.
LEMMA FenceCommits ==
    ASSUME IInv, TypeOK', HistoryTrue, Kept, NEW o, Sent(o), CommitValid(o),
           FenceMatches(o), WriteFence(o), UNCHANGED world
    PROVE  Committed(o)
<1> DEFINE r == o.cmd.root
           e1 == Stamped(o, r, 1, "TERMINAL", o.snap.receipt)
           e2 == Stamped(o, r, 2, "EPOCH_ADVANCED", o.snap.epoch + 1)
<1>1. o.op = "fence" /\ SameRoot(o) BY DEF FenceMatches
<1>2. /\ TypeOK /\ o \in Txs /\ o.cmd \in Command /\ o.by \in Call
      /\ o.snap.claim \in Claims /\ head \in [Root -> Nat]
      /\ UNCHANGED <<verified, service>>
    BY DEF IInv, TypeOK, Txs, Snaps, Sent, world
<1>3. /\ r \in Root /\ claim = o.snap.claim /\ claim.root = r /\ claim.status = "ACTIVE"
      /\ o.snap.epoch = epoch[r] /\ o.snap.head = head[r] /\ epoch \in [Root -> Nat]
    BY <1>1, Admitted DEF Sent
<1>4. o.cmd.epoch = epoch[r]
    BY <1>1, <1>3 DEF CommitValid, FenceValid
<1>5. o.cmd.kind \in Releases
    BY <1>1, <1>2, RootConstants DEF Sent, TxTrue, Releases, Kinds
<1>6. events' = events \cup {e1, e2} /\ head' = [head EXCEPT ![r] = o.snap.head + 2]
    BY AppendTwo DEF WriteFence, FenceEvents
<1>7. /\ e1.by = o.by /\ e1.root = r /\ e1.kind = "TERMINAL" /\ e1.epoch = o.snap.receipt
      /\ e1.seq = head[r] + 1 /\ ~Opens(e1)
      /\ e2.by = o.by /\ e2.root = r /\ e2.kind = "EPOCH_ADVANCED" /\ e2.epoch = epoch[r] + 1
      /\ e2.seq = head[r] + 2 /\ Opens(e2)
    BY <1>3 DEF Stamped, Opens
<1> HIDE DEF e1, e2
<1>8. /\ claim' = [claim EXCEPT !.status = "RELEASING", !.fence = o.cmd]
      /\ epoch' = [epoch EXCEPT ![r] = epoch[r] + 1]
      /\ progress' = progress \cup {o.cmd} /\ UNCHANGED <<creator, done, audit>>
    BY <1>3 DEF WriteFence
<1>9. /\ claim'.root = r /\ claim'.status = "RELEASING" /\ claim'.owner = claim.owner
      /\ claim'.fence = o.cmd
    BY <1>2, <1>3, <1>8 DEF Claims
<1>10. \A q \in Root : /\ epoch'[q] = IF q = r THEN epoch[q] + 1 ELSE epoch[q]
                       /\ epoch[q] \in Nat /\ epoch[q] <= epoch'[q]
    BY <1>3, <1>8
<1>11. Onward BY <1>2, <1>3, <1>6, <1>8, <1>9, <1>10 DEF Onward, TypeOK
<1>12. News(o) BY <1>6, <1>7, <1>8 DEF News
<1>13. ClaimTrue' BY <1>2, <1>3, <1>8, <1>9, <1>10, ClaimGrows
<1>14. ResultsTrue'
    <2>1. o.cmd.root \in Root /\ epoch'[o.cmd.root] > 0 BY <1>3, <1>10
    <2>2. \A q \in Root : epoch[q] <= epoch'[q] BY <1>10
    <2>3. \A n \in done' : n \in done BY <1>8
    <2>4. \A n \in progress' : n \in progress \/ n = o.cmd BY <1>8
    <2> QED BY <1>2, <1>5, <2>1, <2>2, <2>3, <2>4, ResultsGrow
<1>15. RecordsTrue'
    <2>1. o.cmd.kind # "REVOKE" /\ o.cmd \in progress' BY <1>5, <1>8 DEF Releases
    <2>2. progress \subseteq progress' /\ done \subseteq done' /\ audit' = audit BY <1>8
    <2> QED BY <1>2, <1>12, <2>1, <2>2, RecordsGrow
<1>16. EpochsOpened'
    <2>1. e2 \in events' /\ Cmd(e2.by)' = o.cmd BY <1>6, <1>7 DEF Sent
    <2>2. e2 \notin events BY <1>3, <1>7, <1>10 DEF HistoryTrue, EpochsOpened
    <2>3. events \subseteq events' /\ \A e \in events' : Opens(e) => e \in events \/ e = e2
        BY <1>6, <1>7
    <2>4. progress \subseteq progress' /\ done \subseteq done' /\ o.cmd \in progress' \cup done'
        BY <1>8
    <2> QED BY <1>2, <1>3, <1>4, <1>7, <1>8, <2>1, <2>2, <2>3, <2>4, EpochOpens
<1>17. FenceWhole'
    <2>1. o.cmd \in progress' /\ o.cmd \notin done' /\ o.cmd.root = claim'.root
        BY <1>8, <1>9 DEF FenceMatches
    <2>2. epoch'[o.cmd.root] = o.cmd.epoch + 1 BY <1>3, <1>4, <1>10
    <2>3. ReceiptIsExact(o.cmd)'
        BY <1>1, <1>2, <1>3, <1>11, ReceiptStays DEF Sent, TxTrue
    <2>4. TerminalReceipt(o.cmd)' = o.snap.receipt
        <3>1. TerminalReceipt(o.cmd) = o.snap.receipt BY DEF FenceMatches, SameReceipt
        <3>2. verified' = verified BY <1>2
        <3>3. TerminalReceipt(o.cmd)' = TerminalReceipt(o.cmd) BY <3>2 DEF TerminalReceipt
        <3> QED BY <3>1, <3>3
    <2>5. e1 \in StageEvidence(o.cmd, "TERMINAL")' /\ e2 \in StageEvidence(o.cmd, "EPOCH_ADVANCED")'
        BY <1>6, <1>7 DEF StageEvidence, Sent
    <2>6. head[r] \in Nat /\ e2.seq = e1.seq + 1 BY <1>2, <1>3, <1>7
    <2>7. ProgressEvidenceExact(o.cmd)'
        BY <1>4, <1>7, <2>4, <2>5, <2>6 DEF ProgressEvidenceExact
    <2>8. head'[r] = e2.seq BY <1>2, <1>3, <1>6, <1>7
    <2>9. FenceIsHead(o.cmd)' BY <1>4, <1>7, <2>5, <2>8 DEF FenceIsHead
    <2> QED BY <1>9, <2>1, <2>2, <2>3, <2>7, <2>9 DEF FenceWhole
<1> QED BY <1>11, <1>12, <1>13, <1>14, <1>15, <1>16, <1>17 DEF Committed

LEMMA CommitCommits ==
    ASSUME IInv, TypeOK', HistoryTrue, Kept, NEW o, Sent(o), Commit(o), UNCHANGED world
    PROVE  Committed(o)
<1>0. CommitValid(o) BY DEF Commit, Matches
<1>1. CASE WriteRoot(o)
    <2>1. CreateMatches(o)
        BY <1>1 DEF Commit, Matches, WriteRoot, RevocationMatches, FenceMatches, ReleaseMatches
    <2> QED BY <1>1, <2>1, CreationCommits
<1>2. CASE WriteRevocation(o)
    <2>1. RevocationMatches(o)
        BY <1>2 DEF Commit, Matches, WriteRevocation, CreateMatches, FenceMatches, ReleaseMatches
    <2> QED BY <1>0, <1>2, <2>1, RevocationCommits
<1>3. CASE WriteFence(o)
    <2>1. FenceMatches(o)
        BY <1>3 DEF Commit, Matches, WriteFence, CreateMatches, RevocationMatches, ReleaseMatches
    <2> QED BY <1>0, <1>3, <2>1, FenceCommits
<1>4. CASE WriteRelease(o)
    <2>1. ReleaseMatches(o)
        BY <1>4 DEF Commit, Matches, WriteRelease, CreateMatches, RevocationMatches, FenceMatches
    <2> QED BY <1>0, <1>4, <2>1, ReleaseCommits
<1> QED BY <1>1, <1>2, <1>3, <1>4 DEF Commit

-----------------------------------------------------------------------------
\* What a step means for the calls.

\* A step that brings no news of d leaves it undisturbed.
LEMMA NoNews ==
    ASSUME IInv, TypeOK', Onward, NEW d \in Call, audit'[d] = audit[d],
           \A e \in events' : e \in events \/ e.by # d,
           \A o \in late' : o \in late \/ o.by # d
    PROVE  Undisturbed(d)
<1>1. Free(d) => Free(d)' BY DEF Free
<1>2. ASSUME NEW o \in late, Spent(o) PROVE Spent(o)'
    <2>1. TypeOK /\ o \in Txs /\ Fits(o.op, o.cmd, o.snap) BY DEF IInv, TypeOK
    <2> QED BY <1>2, <2>1, SpentStays
<1>3. Quiet(d) => Quiet(d)' BY <1>2 DEF Quiet
<1> QED BY <1>1, <1>3 DEF Undisturbed

LEMMA SpentNeverCommits ==
    ASSUME TypeOK, NEW o \in Txs, Fits(o.op, o.cmd, o.snap), Commit(o)
    PROVE  ~Spent(o)
<1>1. CommitValid(o) BY DEF Commit, Matches
<1>2. ASSUME o.op = "fence"
      PROVE  /\ ~Taken(o.cmd) /\ epoch[o.cmd.root] = o.snap.epoch
             /\ claim = o.snap.claim /\ claim.status = "ACTIVE"
    BY <1>2 DEF Commit, Matches, CreateMatches, RevocationMatches, FenceMatches, ReleaseMatches,
                SameRoot, Fits
<1>3. claim.root \in Nat BY RootConstants DEF TypeOK, Claims
<1>4. o.snap.epoch \in Nat BY DEF Txs, Snaps
<1> QED BY <1>1, <1>2, <1>3, <1>4 DEF Spent

\* A transaction that lands is news of its sender only, which has not been
\* denied.
LEMMA LandingIsKnown ==
    ASSUME IInv, TypeOK', NEW o \in late, Commit(o), Committed(o), late' \subseteq late,
           NEW d \in Call
    PROVE  Undisturbed(d)
<1>1. TypeOK /\ o \in Txs /\ Fits(o.op, o.cmd, o.snap) BY DEF IInv, TypeOK
<1>2. Onward /\ News(o) BY DEF Committed
<1>3. CASE d # o.by
    <2>1. audit'[d] = audit[d] BY <1>2, <1>3 DEF News
    <2>2. \A e \in events' : e \in events \/ e.by # d BY <1>2, <1>3 DEF News
    <2>3. \A p \in late' : p \in late \/ p.by # d OBVIOUS
    <2> QED BY <1>2, <2>1, <2>2, <2>3, NoNews
<1>4. CASE d = o.by
    <2>1. ~Free(d) BY <1>4 DEF Free
    <2>2. ~Quiet(d) BY <1>1, <1>4, SpentNeverCommits DEF Quiet
    <2>3. audit[d] = "DENIED" => audit'[d] = "DENIED" BY <1>2 DEF News
    <2> QED BY <2>1, <2>2, <2>3 DEF Undisturbed
<1> QED BY <1>3, <1>4

\* The transactions that are late stay true, and so does one that becomes late.
LEMMA LateStays ==
    ASSUME IInv, TypeOK', HistoryTrue, Onward, Kept,
           \A o \in late' : o \in late \/ (Sent(o) /\ o \in Txs)
    PROVE  LateTrue'
<1>1. TypeOK BY DEF IInv
<1>2. ASSUME NEW o \in late' PROVE o.cmd = Cmd(o.by)' /\ TxTrue(o.op, o.cmd, o.snap)'
    <2>1. CASE o \in late
        <3>1. o \in Txs /\ Fits(o.op, o.cmd, o.snap) BY <2>1 DEF IInv, TypeOK
        <3>2. o.cmd = Cmd(o.by) /\ TxTrue(o.op, o.cmd, o.snap)
            BY <2>1 DEF HistoryTrue, LateTrue
        <3>3. Cmd(o.by)' = Cmd(o.by) BY <1>1, <2>1, SendersBegan DEF Kept
        <3>4. o.cmd \in Command /\ o.snap \in Snaps BY <3>1 DEF Txs
        <3>5. TxTrue(o.op, o.cmd, o.snap)' BY <1>1, <3>1, <3>2, <3>4, TxStays
        <3> QED BY <3>2, <3>3, <3>5
    <2>2. CASE Sent(o) /\ o \in Txs
        <3>1. /\ Fits(o.op, o.cmd, o.snap) /\ TxTrue(o.op, o.cmd, o.snap) /\ Cmd(o.by)' = o.cmd
              /\ o.cmd \in Command /\ o.snap \in Snaps
            BY <2>2 DEF Sent, Txs
        <3>2. TxTrue(o.op, o.cmd, o.snap)' BY <1>1, <3>1, TxStays
        <3> QED BY <3>1, <3>2
    <2> QED BY <1>2, <2>1, <2>2
<1> QED BY <1>2 DEF LateTrue

\* All calls but c stay where they are.
LEMMA OthersStay ==
    ASSUME IInv, TypeOK', HistoryTrue, Onward, NEW c \in Call, NEW next \in Locals, Go(c, next),
           LocalTrue(c, next)', \A d \in Call \ {c} : Undisturbed(d)
    PROVE  LocalsTrue'
<1>1. TypeOK /\ call \in [Call -> Locals] BY DEF IInv, TypeOK
<1>2. call' = [call EXCEPT ![c] = next] BY DEF Go
<1>3. ASSUME NEW d \in Call PROVE LocalTrue(d, call[d])'
    <2>1. CASE d = c
        <3>1. call'[d] = next BY <1>1, <1>2, <2>1
        <3>2. LocalTrue(d, next)' BY <2>1
        <3> QED BY <3>1, <3>2 DEF LocalTrue, TxTrue, Reached, Unowned, ReceiptIsExact, Success
    <2>2. CASE d # c
        <3>1. PICK l \in Locals : l = call[d] BY <1>1
        <3>2. call'[d] = l BY <1>1, <1>2, <2>2, <3>1
        <3>3. LocalTrue(d, l) /\ CallFits(l) BY <3>1 DEF HistoryTrue, LocalsTrue, IInv
        <3>4. LocalTrue(d, l)' BY <1>1, <2>2, <3>3, LocalStays
        <3> QED BY <3>2, <3>4 DEF LocalTrue, TxTrue, Reached, Unowned, ReceiptIsExact, Success
    <2> QED BY <2>1, <2>2
<1> QED BY <1>3 DEF LocalsTrue

\* c goes on with its command.
GoesOn(c, next) == Go(c, next) /\ (call[c].pc # "idle" => next.cmd = Cmd(c))

LEMMA GoingKeeps ==
    ASSUME TypeOK, NEW c \in Call, NEW next \in Locals, GoesOn(c, next)
    PROVE  Kept
<1>1. call \in [Call -> Locals] /\ call' = [call EXCEPT ![c] = next]
    BY DEF TypeOK, GoesOn, Go
<1>2. \A d \in Call : call'[d] = IF d = c THEN next ELSE call[d] BY <1>1
<1> QED BY <1>2 DEF Kept, Cmd, GoesOn

\* A step of c that only c sees.
LEMMA PrivateStep ==
    ASSUME IInv, IInv', HistoryTrue, NEW c \in Call, NEW next \in Locals, GoesOn(c, next),
           LocalTrue(c, next), UNCHANGED <<store, world, late>>
    PROVE  HistoryTrue'
<1>1. TypeOK /\ TypeOK' BY DEF IInv
<1>2. UNCHANGED <<claim, epoch, head, events, creator, progress, done, audit, verified,
                 service, late>>
    BY DEF store, world
<1>3. Kept BY <1>1, GoingKeeps
<1>4. Onward
    <2>1. \A r \in Root : epoch[r] \in Nat BY <1>1 DEF TypeOK
    <2>2. service.version \in Nat BY <1>1 DEF TypeOK
    <2> QED BY <1>2, <2>1, <2>2 DEF Onward
<1>5. \A d \in Call : Undisturbed(d)
    <2> SUFFICES ASSUME NEW d \in Call PROVE Undisturbed(d) OBVIOUS
    <2>1. audit'[d] = audit[d] BY <1>2
    <2> QED BY <1>1, <1>2, <1>4, <2>1, NoNews
<1>6. LocalTrue(c, next)'
    <2>1. TxTrue(next.op, next.cmd, next.snap) => TxTrue(next.op, next.cmd, next.snap)'
        BY <1>2 DEF TxTrue, Reached, Unowned, ReceiptIsExact
    <2>2. Success(next.cmd) => Success(next.cmd)' BY <1>2 DEF Success
    <2>3. Reached(next.snap.claim) => Reached(next.snap.claim)' BY <1>2 DEF Reached, Unowned
    <2> QED BY <1>2, <1>5, <2>1, <2>2, <2>3 DEF LocalTrue, Undisturbed
<1>7. LocalsTrue' BY <1>1, <1>4, <1>5, <1>6, OthersStay DEF GoesOn
<1>8. LateTrue' BY <1>1, <1>2, <1>3, <1>4, LateStays
<1>9. service.version <= service'.version BY <1>4 DEF Onward
<1>10. ClaimTrue' /\ ResultsTrue' /\ EpochsOpened' /\ FenceWhole'
    BY <1>1, <1>2, <1>3, <1>9, QuietStore
<1>11. RecordsTrue' BY <1>1, <1>2, <1>3, QuietRecords
<1> QED BY <1>7, <1>8, <1>10, <1>11 DEF HistoryTrue

-----------------------------------------------------------------------------
\* The local states that steps lead to.

\* Answers that promise nothing, that promise success and that deny.
LEMMA AnswersTrue ==
    ASSUME TypeOK, NEW c \in Call, NEW code \in Codes
    PROVE  /\ code \notin Denials \cup {"OK"} => LocalTrue(c, Answered(c, code))
           /\ code = "OK" /\ Success(Cmd(c)) => LocalTrue(c, Answered(c, code))
           /\ code # "OK" /\ Cmd(c).kind # "REVOKE" /\ Quiet(c) => LocalTrue(c, Answered(c, code))
           /\ Answered(c, code).cmd = Cmd(c)
<1> DEFINE l == Answered(c, code)
<1>1. l.pc = "done" /\ l.cmd = Cmd(c) /\ l.code = code BY DEF Answered, Idle
<1> HIDE DEF l
<1>2. "OK" \notin Denials BY DEF Denials
<1>3. code \notin Denials \cup {"OK"} => LocalTrue(c, l) BY <1>1 DEF LocalTrue
<1>4. code = "OK" /\ Success(Cmd(c)) => LocalTrue(c, l) BY <1>1, <1>2 DEF LocalTrue
<1>5. code # "OK" /\ Cmd(c).kind # "REVOKE" /\ Quiet(c) => LocalTrue(c, l)
    BY <1>1 DEF LocalTrue
<1> QED BY <1>1, <1>3, <1>4, <1>5 DEF l

\* The steps that go on without a snapshot.
LEMMA TurnsTrue ==
    ASSUME TypeOK, NEW c \in Call, call[c].pc # "idle"
    PROVE  /\ Cmd(c).kind = "CREATE" => LocalTrue(c, At(c, "raced"))
           /\ Cmd(c).kind = "REVOKE" /\ Cmd(c) \in done => LocalTrue(c, At(c, "classify"))
           /\ Cmd(c).kind # "CREATE" => LocalTrue(c, Again(c))
           /\ \A code \in Codes : /\ Denied(c, code).cmd = Cmd(c)
                                  /\ (/\ Cmd(c).kind = "REVOKE" /\ code # "OK"
                                      /\ code = "ADOPTED" => Cmd(c) \in done)
                                     => LocalTrue(c, Denied(c, code))
           /\ At(c, "raced").cmd = Cmd(c) /\ At(c, "classify").cmd = Cmd(c)
           /\ Again(c).cmd = Cmd(c)
<1>1. call[c] \in Locals BY DEF TypeOK
<1>2. ASSUME NEW pc \in {"raced", "classify", "read", "audit"}
      PROVE  At(c, pc).pc = pc /\ At(c, pc).cmd = Cmd(c) /\ At(c, pc) \in Locals
    BY <1>1, <1>2, NothingTyped DEF At, Locals, Cmd, Ops
<1>3. Cmd(c).kind = "CREATE" => LocalTrue(c, At(c, "raced"))
    <2>1. At(c, "raced").pc = "raced" /\ At(c, "raced").cmd = Cmd(c) BY <1>2
    <2> QED BY <2>1 DEF LocalTrue
<1>4. Cmd(c).kind = "REVOKE" /\ Cmd(c) \in done => LocalTrue(c, At(c, "classify"))
    <2>1. At(c, "classify").pc = "classify" /\ At(c, "classify").cmd = Cmd(c) BY <1>2
    <2> QED BY <2>1 DEF LocalTrue
<1>5. Again(c).pc = "read" /\ Again(c).cmd = Cmd(c) BY <1>2 DEF Again, Locals
<1>6. Cmd(c).kind # "CREATE" => LocalTrue(c, Again(c)) BY <1>5 DEF LocalTrue
<1>7. ASSUME NEW code \in Codes
      PROVE  /\ Denied(c, code).cmd = Cmd(c)
             /\ (/\ Cmd(c).kind = "REVOKE" /\ code # "OK"
                 /\ code = "ADOPTED" => Cmd(c) \in done)
                => LocalTrue(c, Denied(c, code))
    <2>1. /\ Denied(c, code).pc = "audit" /\ Denied(c, code).cmd = Cmd(c)
          /\ Denied(c, code).code = code
        BY <1>2 DEF Denied, Locals
    <2> QED BY <2>1 DEF LocalTrue
<1> QED BY <1>2, <1>3, <1>4, <1>5, <1>6, <1>7

\* A step to a snapshot.
LEMMA BuildingTrue ==
    ASSUME TypeOK, NEW c \in Call, NEW op \in Ops, NEW snap \in Snaps, TxTrue(op, Cmd(c), snap)
    PROVE  LocalTrue(c, Building(c, op, snap)) /\ Building(c, op, snap).cmd = Cmd(c)
<1>1. call[c] \in Locals BY DEF TypeOK
<1>2. /\ Building(c, op, snap).pc = "commit" /\ Building(c, op, snap).cmd = Cmd(c)
      /\ Building(c, op, snap).op = op /\ Building(c, op, snap).snap = snap
    BY <1>1 DEF Building, Cmd, Locals
<1> QED BY <1>2 DEF LocalTrue

-----------------------------------------------------------------------------
\* Every step that only its call sees leads to what that call may rely on.

Turns(c) == \E next \in Locals : GoesOn(c, next) /\ LocalTrue(c, next)

\* An answer that is no denial, or a success that is one.
LEMMA AnswerTurns ==
    ASSUME IInv, NEW c \in Call, call[c].pc # "idle", NEW code \in Codes,
           Go(c, Answered(c, code)),
           \/ code \notin Denials \cup {"OK"}
           \/ code = "OK" /\ Success(Cmd(c))
           \/ code # "OK" /\ Cmd(c).kind # "REVOKE" /\ Quiet(c)
    PROVE  Turns(c)
<1>1. TypeOK BY DEF IInv
<1>2. Answered(c, code) \in Locals BY Begun
<1>3. LocalTrue(c, Answered(c, code)) /\ Answered(c, code).cmd = Cmd(c) BY <1>1, AnswersTrue
<1> QED BY <1>2, <1>3 DEF Turns, GoesOn

\* A call begins with nothing sent; one that is refused at the door never
\* sends anything.
LEMMA BeginTurns ==
    ASSUME IInv, HistoryTrue, NEW c \in Call, NEW m \in Command, Begin(c, m) \/ Unauthorized(c, m)
    PROVE  Turns(c)
<1> DEFINE b == [Idle EXCEPT !.cmd = m, !.pc = IF m.kind = "CREATE" THEN "claim" ELSE "read"]
           u == [Idle EXCEPT !.cmd = m, !.code = "CALLER_DENIED",
                             !.pc = IF m.kind = "REVOKE" THEN "audit" ELSE "done"]
<1>1. /\ b \in Locals /\ b.cmd = m
      /\ (b.pc = "claim" /\ m.kind = "CREATE") \/ (b.pc = "read" /\ m.kind # "CREATE")
    BY NothingTyped DEF Idle, Locals
<1>2. /\ u \in Locals /\ u.cmd = m /\ u.code = "CALLER_DENIED"
      /\ (u.pc = "audit" /\ m.kind = "REVOKE") \/ (u.pc = "done" /\ m.kind # "REVOKE")
    BY NothingTyped DEF Idle, Locals, Codes
<1>3. Go(c, b) \/ Go(c, u) BY DEF Begin, Unauthorized
<1>4. call[c].pc = "idle" BY DEF Begin, Unauthorized, Idle
<1>5. Free(c) BY <1>4 DEF HistoryTrue, LocalsTrue, LocalTrue
<1>6. Quiet(c) BY <1>5 DEF Free, Quiet
<1> HIDE DEF b, u
<1>7. LocalTrue(c, b) BY <1>1, <1>5 DEF LocalTrue
<1>8. LocalTrue(c, u) BY <1>2, <1>6 DEF LocalTrue
<1>9. GoesOn(c, b) \/ GoesOn(c, u) BY <1>3, <1>4 DEF GoesOn
<1> QED BY <1>1, <1>2, <1>7, <1>8, <1>9 DEF Turns

\* What a call that has begun may rely on already.
LEMMA Relied ==
    ASSUME IInv, HistoryTrue, NEW c \in Call, call[c].pc # "idle"
    PROVE  /\ TypeOK /\ Cmd(c) \in Command /\ call[c] \in Locals
           /\ LocalTrue(c, call[c]) /\ CallFits(call[c]) /\ call[c].cmd = Cmd(c)
BY Begun DEF IInv, HistoryTrue, LocalsTrue, Cmd

\* The claim is read: adoption is of an existing root, and a new root would be
\* the first call to send anything.
LEMMA ReadClaimTurns ==
    ASSUME IInv, HistoryTrue, NEW c \in Call, ReadClaim(c)
    PROVE  Turns(c)
<1> DEFINE b == [At(c, "bundle") EXCEPT !.snap.claim = claim]
           p == [At(c, "preflight") EXCEPT !.snap.claim = claim]
<1>1. call[c].pc \in {"claim", "raced"} BY DEF ReadClaim
<1>2. /\ TypeOK /\ Cmd(c) \in Command /\ call[c] \in Locals
      /\ LocalTrue(c, call[c]) /\ call[c].cmd = Cmd(c)
    BY <1>1, Relied
<1>3. claim \in Claims BY <1>2 DEF TypeOK
<1>4. [NoSnap EXCEPT !.claim = claim] \in Snaps BY <1>3, NothingTyped DEF NoSnap, Snaps
<1>5. /\ b \in Locals /\ b.pc = "bundle" /\ b.cmd = Cmd(c)
      /\ b.snap = [NoSnap EXCEPT !.claim = claim]
    BY <1>2, <1>4 DEF At, Locals, Cmd
<1>6. /\ p \in Locals /\ p.pc = "preflight" /\ p.cmd = Cmd(c)
      /\ p.snap = [NoSnap EXCEPT !.claim = claim]
    BY <1>2, <1>4 DEF At, Locals, Cmd
<1>7. b.snap.claim = claim /\ p.snap.claim = claim BY <1>5, <1>6 DEF NoSnap
<1> HIDE DEF b, p
<1>8. Cmd(c).kind = "CREATE" BY <1>1, <1>2 DEF LocalTrue
<1>9. Reached(claim) BY DEF Reached
<1>10. claim.status = "ACTIVE" => LocalTrue(c, b)
    <2> HAVE claim.status = "ACTIVE"
    <2>1. claim.root > 0
        <3>1. claim.root \in 0..MaxRoots BY <1>3 DEF Claims
        <3>2. claim.root # 0 BY DEF HistoryTrue, ClaimTrue
        <3> QED BY <3>1, <3>2
    <2> QED BY <1>5, <1>7, <1>8, <2>1 DEF LocalTrue
<1>11. call[c].pc = "claim" => LocalTrue(c, p)
    <2> HAVE call[c].pc = "claim"
    <2>1. Free(c) BY <1>2 DEF LocalTrue
    <2> QED BY <1>6, <1>7, <1>8, <1>9, <2>1 DEF LocalTrue
<1>12. Go(c, IF claim.status = "ACTIVE" /\ claim.owner.id = Cmd(c).id THEN b
             ELSE IF claim.status \in {"NONE", "RELEASED"} /\ call[c].pc = "claim" THEN p
             ELSE Answered(c, "ACTIVE_CLAIM_CONFLICT"))
    BY Zenon DEF ReadClaim, b, p
<1>13. CASE Go(c, Answered(c, "ACTIVE_CLAIM_CONFLICT"))
    <2>1. "ACTIVE_CLAIM_CONFLICT" \in Codes /\ "ACTIVE_CLAIM_CONFLICT" \notin Denials \cup {"OK"}
        BY DEF Codes, Denials
    <2> QED BY <1>1, <1>13, <2>1, AnswerTurns
<1>14. CASE claim.status = "ACTIVE" /\ Go(c, b)
    BY <1>5, <1>10, <1>14 DEF Turns, GoesOn
<1>15. CASE call[c].pc = "claim" /\ Go(c, p)
    BY <1>6, <1>11, <1>15 DEF Turns, GoesOn
<1> QED BY <1>12, <1>13, <1>14, <1>15

\* An adopted root is the command's own.
LEMMA ReadBundleTurns ==
    ASSUME IInv, HistoryTrue, NEW c \in Call, ReadBundle(c)
    PROVE  Turns(c)
<1> DEFINE r == call[c].snap.claim.root
<1>1. call[c].pc = "bundle" BY DEF ReadBundle
<1>2. TypeOK /\ call[c] \in Locals /\ LocalTrue(c, call[c]) /\ call[c].cmd = Cmd(c)
    BY <1>1, Relied
<1>3. r \in Root /\ Cmd(c).kind = "CREATE"
    <2>1. r \in 0..MaxRoots BY <1>2 DEF Locals, Snaps, Claims
    <2>2. r > 0 /\ Cmd(c).kind = "CREATE" BY <1>1, <1>2 DEF LocalTrue
    <2> QED BY <2>1, <2>2 DEF Root
<1>4. {"OK", "TRUSTED_STATE_INVALID", "ACTIVE_CLAIM_CONFLICT"} \subseteq Codes
      /\ {"TRUSTED_STATE_INVALID", "ACTIVE_CLAIM_CONFLICT"} \cap (Denials \cup {"OK"}) = {}
    BY DEF Codes, Denials
<1>5. \/ Go(c, Answered(c, "OK")) /\ creator[r] = Cmd(c)
      \/ Go(c, Answered(c, "TRUSTED_STATE_INVALID"))
      \/ Go(c, Answered(c, "ACTIVE_CLAIM_CONFLICT"))
    BY DEF ReadBundle
<1>6. creator[r] = Cmd(c) => Success(Cmd(c)) BY <1>3 DEF Success
<1> HIDE DEF r
<1> QED BY <1>1, <1>4, <1>5, <1>6, AnswerTurns

\* The service is the one of the command's snapshot, and it has left the
\* snapshots of all roots behind: the last of them gave it up.
LEMMA PreflightTurns ==
    ASSUME IInv, HistoryTrue, NEW c \in Call, Preflight(c)
    PROVE  Turns(c)
<1>1. call[c].pc = "preflight" BY DEF Preflight
<1>2. /\ TypeOK /\ call[c] \in Locals /\ LocalTrue(c, call[c]) /\ CallFits(call[c])
      /\ call[c].cmd = Cmd(c)
    BY <1>1, Relied
<1>3. PICK s \in Snaps : s = call[c].snap BY <1>2 DEF Locals
<1>4. Free(c) /\ Cmd(c).kind = "CREATE" /\ Reached(s.claim) BY <1>1, <1>2, <1>3 DEF LocalTrue
<1>5. Unowned(s.claim) BY <1>1, <1>2, <1>3 DEF CallFits, Fits, Unowned
<1>6. CASE Go(c, Answered(c, "PREFLIGHT_DENIED"))
    <2>1. Quiet(c) BY <1>4 DEF Free, Quiet
    <2> QED BY <1>1, <1>4, <1>6, <2>1, AnswerTurns DEF Codes
<1>7. CASE /\ service = [version |-> Cmd(c).snapshot, traffic |-> "STABLE"]
           /\ Go(c, Building(c, "create", s))
    <2>1. service.version = Cmd(c).snapshot BY <1>7
    <2>2. ASSUME NEW r \in Root, r <= s.claim.root
          PROVE  creator[r].snapshot < Cmd(c).snapshot
        <3>1. claim.root \in Nat /\ s.claim.root \in Nat /\ r \in Nat /\ r > 0
            BY <1>2, RootConstants DEF TypeOK, Claims, Snaps, Root
        <3>2. r < claim.root \/ (r = claim.root /\ Unowned(claim))
            BY <1>4, <1>5, <2>2, <3>1 DEF Reached
        <3>3. r = claim.root => claim.status # "NONE" BY <3>1 DEF HistoryTrue, ClaimTrue
        <3> QED BY <2>1, <3>2, <3>3 DEF HistoryTrue, ClaimTrue, Unowned
    <2>3. TxTrue("create", Cmd(c), s) BY <1>4, <2>2 DEF TxTrue
    <2>4. Building(c, "create", s) \in Locals
        BY <1>2, <1>3 DEF Building, Locals, Ops
    <2>5. LocalTrue(c, Building(c, "create", s)) /\ Building(c, "create", s).cmd = Cmd(c)
        BY <1>2, <2>3, BuildingTrue DEF Ops
    <2> QED BY <1>7, <2>4, <2>5 DEF Turns, GoesOn
<1> QED BY <1>3, <1>6, <1>7 DEF Preflight

\* What the store adopts for a call is the root of its command.
LEMMA AdoptRootTurns ==
    ASSUME IInv, HistoryTrue, NEW c \in Call, AdoptRoot(c)
    PROVE  Turns(c)
<1>1. call[c].pc = "adopt" BY DEF AdoptRoot
<1>2. /\ TypeOK /\ call[c] \in Locals /\ LocalTrue(c, call[c]) /\ call[c].cmd = Cmd(c)
    BY <1>1, Relied
<1>3. call[c].op = "create" /\ Cmd(c).kind = "CREATE" BY <1>1, <1>2 DEF LocalTrue, TxTrue
<1>4. CASE AllSame(Tx(c)) /\ Go(c, Answered(c, "OK"))
    <2>1. RootStored(Tx(c)) BY <1>3, <1>4 DEF AllSame, Tx
    <2>2. claim.status = "ACTIVE" /\ claim.owner = Cmd(c) BY <2>1 DEF RootStored, Tx
    <2>3. claim.root \in Root
        <3>1. claim.root \in 0..MaxRoots BY <1>2 DEF TypeOK, Claims
        <3>2. claim.root # 0 BY <2>2 DEF HistoryTrue, ClaimTrue
        <3> QED BY <3>1, <3>2 DEF Root
    <2>4. creator[claim.root] = Cmd(c) BY <2>2, <2>3 DEF HistoryTrue, ClaimTrue, Root
    <2>5. Success(Cmd(c)) BY <1>3, <2>3, <2>4 DEF Success
    <2> QED BY <1>1, <1>4, <2>5, AnswerTurns DEF Codes
<1>5. CASE Go(c, At(c, "raced"))
    <2>1. LocalTrue(c, At(c, "raced")) /\ At(c, "raced").cmd = Cmd(c)
        BY <1>1, <1>2, <1>3, TurnsTrue
    <2>2. At(c, "raced") \in Locals BY <1>1, Begun
    <2> QED BY <1>5, <2>1, <2>2 DEF Turns, GoesOn
<1> QED BY <1>4, <1>5 DEF AdoptRoot

\* A denial of a revocation is recorded; a revocation that is admitted is of the
\* epoch that was read.
LEMMA ReadRevocationTurns ==
    ASSUME IInv, HistoryTrue, NEW c \in Call, ReadRevocation(c)
    PROVE  Turns(c)
<1> DEFINE m == Cmd(c)
<1>1. call[c].pc = "read" /\ m.kind = "REVOKE" BY DEF ReadRevocation
<1>2. TypeOK /\ m \in Command /\ call[c] \in Locals BY <1>1, Relied
<1>3. {"TRUSTED_STATE_INVALID", "STORE_UNAVAILABLE", "ADOPTED", RevocationDenial(m)} \subseteq Codes
    BY <1>2, RevocationAdmits DEF Codes
<1>4. RevocationDenial(m) \notin {"OK", "ADOPTED"} BY DEF RevocationDenial
<1>5. ASSUME NEW code \in Codes, code # "OK", code = "ADOPTED" => m \in done, Go(c, Denied(c, code))
      PROVE  Turns(c)
    <2>1. Denied(c, code) \in Locals BY <1>1, Begun
    <2>2. LocalTrue(c, Denied(c, code)) /\ Denied(c, code).cmd = m
        BY <1>1, <1>2, <1>5, TurnsTrue
    <2> QED BY <1>5, <2>1, <2>2 DEF Turns, GoesOn
<1>6. ASSUME NEW code \in {"TRUSTED_STATE_INVALID", "STORE_UNAVAILABLE"}, Go(c, Answered(c, code))
      PROVE  Turns(c)
    <2>1. code \in Codes /\ code \notin Denials \cup {"OK"} BY <1>6 DEF Codes, Denials
    <2> QED BY <1>1, <1>6, <2>1, AnswerTurns
<1>7. CASE m \in done /\ Go(c, At(c, "classify"))
    <2>1. At(c, "classify") \in Locals BY <1>1, Begun
    <2>2. LocalTrue(c, At(c, "classify")) /\ At(c, "classify").cmd = m
        BY <1>1, <1>2, <1>7, TurnsTrue
    <2> QED BY <1>7, <2>1, <2>2 DEF Turns, GoesOn
<1>8. CASE RevocationDenial(m) = "none" /\ Go(c, Building(c, "revoke", RevocationSnapshot(m)))
    <2> DEFINE s == RevocationSnapshot(m)
    <2>1. m.root \in Root /\ epoch[m.root] > 0
        BY <1>8 DEF RevocationDenial, RootExists
    <2>2. s \in Snaps /\ s.claim = claim /\ s.epoch = epoch[m.root]
        BY <1>2, <2>1, SnapshotTyped DEF RevocationSnapshot
    <2> HIDE DEF s
    <2>3. s.epoch <= epoch[m.root] BY <2>1, <2>2, <1>2 DEF TypeOK
    <2>4. Reached(claim) BY DEF Reached
    <2>5. TxTrue("revoke", m, s) BY <1>1, <2>1, <2>2, <2>3, <2>4 DEF TxTrue
    <2>6. LocalTrue(c, Building(c, "revoke", s)) /\ Building(c, "revoke", s).cmd = m
        BY <1>2, <2>2, <2>5, BuildingTrue DEF Ops
    <2>7. Building(c, "revoke", s) \in Locals
        BY <1>2, <2>2 DEF Building, Locals, Ops
    <2>8. Go(c, Building(c, "revoke", s)) BY <1>8 DEF s
    <2> QED BY <2>6, <2>7, <2>8 DEF Turns, GoesOn
<1>9. \/ \E code \in {"TRUSTED_STATE_INVALID", "STORE_UNAVAILABLE"} : Go(c, Answered(c, code))
      \/ m \in done /\ Go(c, At(c, "classify"))
      \/ m \in done /\ Go(c, Denied(c, "ADOPTED"))
      \/ Go(c, Denied(c, RevocationDenial(m)))
      \/ RevocationDenial(m) = "none" /\ Go(c, Building(c, "revoke", RevocationSnapshot(m)))
    BY DEF ReadRevocation
<1> QED BY <1>3, <1>4, <1>5, <1>6, <1>7, <1>8, <1>9

\* A release is denied only when nothing of its call has landed or can: the
\* transaction that may be late is a fence, and the denial dooms it.
LEMMA ReleaseDenialIsFinal ==
    ASSUME IInv, HistoryTrue, NEW c \in Call, call[c].pc # "idle", Cmd(c).kind \in Releases,
           ReleaseDenial(Cmd(c)) \in Denials
    PROVE  Quiet(c)
<1> DEFINE m == Cmd(c)
<1>1. TypeOK /\ m \in Command BY Relied
<1>2. m \notin progress
    <2> SUFFICES ASSUME m \in progress PROVE FALSE OBVIOUS
    <2>1. RootExists(m) BY DEF HistoryTrue, ResultsTrue, RootExists
    <2>2. ReleaseDenial(m) \in {"TRUSTED_STATE_INVALID", "none"} BY <2>1 DEF ReleaseDenial
    <2> QED BY <2>2 DEF Denials
<1>3. \A e \in events : e.by # c BY <1>2 DEF HistoryTrue, RecordsTrue
<1>4. ASSUME NEW o \in late, o.by = c PROVE Spent(o)
    <2>1. o \in Txs /\ Fits(o.op, o.cmd, o.snap) BY <1>1 DEF IInv, TypeOK
    <2>2. o.cmd = m /\ TxTrue(o.op, m, o.snap) BY <1>4 DEF HistoryTrue, LateTrue
    <2>3. o.op = "fence" BY <1>2, <2>1, <2>2 DEF TxTrue, Txs, Ops, Releases
    <2>4. /\ m.root \in Root /\ o.snap.claim.root = m.root
          /\ epoch[m.root] > 0 /\ o.snap.epoch <= epoch[m.root] /\ ReceiptIsExact(m)
        BY <2>1, <2>2, <2>3 DEF Fits, TxTrue
    <2>5. RootExists(m) BY <2>4 DEF RootExists
    <2>6. epoch[m.root] \in Nat /\ o.snap.epoch \in Nat BY <1>1, <2>1, <2>4 DEF TypeOK, Txs, Snaps
    <2>7. \/ Taken(m)
          \/ claim.root = m.root /\ claim.status # "ACTIVE"
          \/ epoch[m.root] # m.epoch
        BY <1>2, <2>4, <2>5 DEF ReleaseDenial, Trusted, Denials
    <2>8. CASE epoch[m.root] # m.epoch
        <3>1. CASE o.snap.epoch < epoch[m.root] BY <2>2, <2>3, <3>1 DEF Spent
        <3>2. CASE o.snap.epoch = epoch[m.root]
            <4>1. o.snap.epoch # o.cmd.epoch BY <2>2, <2>8, <3>2
            <4>2. ~CommitValid(o) BY <2>3, <4>1 DEF CommitValid, FenceValid
            <4> QED BY <4>2 DEF Spent
        <3> QED BY <2>4, <2>6, <3>1, <3>2
    <2> QED BY <2>2, <2>3, <2>4, <2>7, <2>8 DEF Spent
<1> QED BY <1>3, <1>4 DEF Quiet

\* One turn of a release.
LEMMA ReadReleaseTurns ==
    ASSUME IInv, HistoryTrue, NEW c \in Call, ReadRelease(c)
    PROVE  Turns(c)
<1> DEFINE m == Cmd(c)
           s == ReleaseSnapshot(m)
           t == [At(c, "target") EXCEPT !.snap = s]
<1>1. call[c].pc = "read" /\ m.kind \in Releases BY DEF ReadRelease
<1>2. TypeOK /\ m \in Command /\ call[c] \in Locals BY <1>1, Relied
<1>3. m.kind \notin {"CREATE", "REVOKE"} BY <1>1 DEF Releases
<1>4. Reached(claim) BY DEF Reached
<1>5. ASSUME NEW code \in {"TRUSTED_STATE_INVALID", "STORE_UNAVAILABLE"}, Go(c, Answered(c, code))
      PROVE  Turns(c)
    <2>1. code \in Codes /\ code \notin Denials \cup {"OK"} BY <1>5 DEF Codes, Denials
    <2> QED BY <1>1, <1>5, <2>1, AnswerTurns
<1>6. CASE m \in done /\ Go(c, Answered(c, "OK"))
    <2>1. Success(m) BY <1>3, <1>6 DEF HistoryTrue, ResultsTrue, Success
    <2> QED BY <1>1, <1>6, <2>1, AnswerTurns DEF Codes
<1>7. CASE Go(c, Answered(c, ReleaseDenial(m)))
    <2>1. ReleaseDenial(m) \in Codes /\ ReleaseDenial(m) # "OK"
        BY <1>2, ReleaseAdmits DEF ReleaseDenial
    <2>2. ReleaseDenial(m) \in Denials => Quiet(c) BY <1>1, ReleaseDenialIsFinal
    <2>3. \/ ReleaseDenial(m) \notin Denials \cup {"OK"}
          \/ ReleaseDenial(m) # "OK" /\ m.kind # "REVOKE" /\ Quiet(c)
        BY <1>3, <2>1, <2>2
    <2>4. PICK code \in Codes : code = ReleaseDenial(m) BY <2>1
    <2> QED BY <1>1, <1>7, <2>3, <2>4, AnswerTurns
<1>8. CASE ReleaseDenial(m) = "none" /\ m \in progress /\ Go(c, t)
    <2>1. m.root \in Root BY <1>8 DEF ReleaseDenial, RootExists
    <2>2. s \in Snaps /\ s.claim = claim BY <1>2, <2>1, SnapshotTyped
    <2> HIDE DEF s
    <2>3. t \in Locals /\ t.pc = "target" /\ t.cmd = m /\ t.snap = s
        BY <1>2, <2>2 DEF At, Locals, Ops, Cmd
    <2> HIDE DEF t
    <2>4. LocalTrue(c, t) BY <1>1, <1>4, <1>8, <2>2, <2>3 DEF LocalTrue
    <2> QED BY <1>8, <2>3, <2>4 DEF Turns, GoesOn
<1>9. CASE ReleaseDenial(m) = "none" /\ m \notin progress /\ Go(c, Building(c, "fence", s))
    <2>1. m.root \in Root /\ epoch[m.root] > 0 /\ ReceiptIsExact(m)
        BY <1>9 DEF ReleaseDenial, RootExists
    <2>2. s \in Snaps /\ s.claim = claim BY <1>2, <2>1, SnapshotTyped
    <2>3. s.epoch = epoch[m.root] BY DEF ReleaseSnapshot, RevocationSnapshot
    <2> HIDE DEF s
    <2>4. s.epoch <= epoch[m.root] BY <1>2, <2>1, <2>3 DEF TypeOK
    <2>5. TxTrue("fence", m, s) BY <1>3, <1>4, <2>1, <2>2, <2>4 DEF TxTrue
    <2>6. LocalTrue(c, Building(c, "fence", s)) /\ Building(c, "fence", s).cmd = m
        BY <1>2, <2>2, <2>5, BuildingTrue DEF Ops
    <2>7. Building(c, "fence", s) \in Locals BY <1>2, <2>2 DEF Building, Locals, Ops
    <2> QED BY <1>9, <2>6, <2>7 DEF Turns, GoesOn
<1> HIDE DEF s, t
<1>10. Go(c, IF m \in done
             THEN Answered(c, IF StoredRelease(m) THEN "OK" ELSE "TRUSTED_STATE_INVALID")
             ELSE IF call[c].tries = MaxAttempts THEN Answered(c, "STORE_UNAVAILABLE")
             ELSE IF ReleaseDenial(m) # "none" THEN Answered(c, ReleaseDenial(m))
             ELSE IF m \in progress THEN t
             ELSE Building(c, "fence", s))
    BY Zenon DEF ReadRelease, s, t
<1> QED BY <1>5, <1>6, <1>7, <1>8, <1>9, <1>10

\* The classification is of the service as it is, or as it was.
LEMMA ClassifyTargetTurns ==
    ASSUME IInv, HistoryTrue, NEW c \in Call, ClassifyTarget(c)
    PROVE  Turns(c)
<1> DEFINE m == Cmd(c)
           t == [call[c].snap EXCEPT !.seen = service]
<1>1. call[c].pc = "target" BY DEF ClassifyTarget
<1>2. /\ TypeOK /\ m \in Command /\ call[c] \in Locals
      /\ LocalTrue(c, call[c]) /\ call[c].cmd = m
    BY <1>1, Relied
<1>3. m.kind \in Releases /\ m \in progress /\ Reached(call[c].snap.claim)
    BY <1>1, <1>2 DEF LocalTrue
<1>4. t \in Snaps /\ t.claim = call[c].snap.claim /\ t.seen = service
    BY <1>2 DEF Locals, Snaps, TypeOK
<1> HIDE DEF t
<1>5. TxTrue("finalize", m, t)
    <2>1. epoch[m.root] > 0 BY <1>3 DEF HistoryTrue, ResultsTrue
    <2>2. t.seen.version <= service.version BY <1>2, <1>4 DEF TypeOK
    <2> QED BY <1>3, <1>4, <2>1, <2>2 DEF TxTrue, Releases
<1>6. LocalTrue(c, Building(c, "finalize", t)) /\ Building(c, "finalize", t).cmd = m
    BY <1>2, <1>4, <1>5, BuildingTrue DEF Ops
<1>7. Building(c, "finalize", t) \in Locals BY <1>2, <1>4 DEF Building, Locals, Ops
<1>8. \/ Go(c, Building(c, "finalize", t))
      \/ Go(c, Answered(c, "CLASSIFICATION_DENIED"))
    BY DEF ClassifyTarget, t
<1>9. CASE Go(c, Answered(c, "CLASSIFICATION_DENIED"))
    <2>1. "CLASSIFICATION_DENIED" \in Codes /\ "CLASSIFICATION_DENIED" \notin Denials \cup {"OK"}
        BY DEF Codes, Denials
    <2> QED BY <1>1, <1>9, <2>1, AnswerTurns
<1> QED BY <1>6, <1>7, <1>8, <1>9 DEF Turns, GoesOn

\* A revocation that is answered is stored.
LEMMA ClassifyCommittedTurns ==
    ASSUME IInv, HistoryTrue, NEW c \in Call, ClassifyCommitted(c)
    PROVE  Turns(c)
<1>1. call[c].pc = "classify" BY DEF ClassifyCommitted
<1>2. LocalTrue(c, call[c]) /\ call[c].cmd = Cmd(c) BY <1>1, Relied
<1>3. Cmd(c) \in done BY <1>1, <1>2 DEF LocalTrue
<1>4. Success(Cmd(c)) BY <1>3 DEF HistoryTrue, ResultsTrue, Success
<1>5. {"OK", "OUTCOME_UNKNOWN"} \subseteq Codes /\ "OUTCOME_UNKNOWN" \notin Denials \cup {"OK"}
    BY DEF Codes, Denials
<1>6. Go(c, Answered(c, "OK")) \/ Go(c, Answered(c, "OUTCOME_UNKNOWN"))
    BY DEF ClassifyCommitted
<1> QED BY <1>1, <1>4, <1>5, <1>6, AnswerTurns

\* Where a call goes after its transaction.
LEMMA OutcomeShapes ==
    ASSUME IInv, HistoryTrue, NEW c \in Call, call[c].pc \in {"commit", "readback"}
    PROVE  /\ (call[c].op = "create") = (Cmd(c).kind = "CREATE")
           /\ (call[c].op = "revoke") = (Cmd(c).kind = "REVOKE")
           /\ Succeeded(c).cmd = Cmd(c) /\ Conflicted(c).cmd = Cmd(c) /\ Unresolved(c).cmd = Cmd(c)
           /\ IF call[c].op = "fence" THEN Succeeded(c).pc = "read"
              ELSE IF call[c].op = "revoke" THEN Succeeded(c).pc = "classify"
              ELSE Succeeded(c).pc = "done" /\ Succeeded(c).code = "OK"
           /\ IF call[c].op = "create"
              THEN /\ Conflicted(c).pc = "adopt" /\ Conflicted(c).op = call[c].op
                   /\ Conflicted(c).snap = call[c].snap
                   /\ Unresolved(c).pc = "done" /\ Unresolved(c).code = "OUTCOME_UNKNOWN"
              ELSE Conflicted(c).pc = "read" /\ Unresolved(c).pc = "resolve"
<1>1. TypeOK /\ call[c] \in Locals /\ LocalTrue(c, call[c]) /\ call[c].cmd = Cmd(c) BY Relied
<1>2. /\ (call[c].op = "create") = (Cmd(c).kind = "CREATE")
      /\ (call[c].op = "revoke") = (Cmd(c).kind = "REVOKE")
    BY <1>1 DEF LocalTrue, TxTrue
<1>3. \A code : /\ Answered(c, code).pc = "done" /\ Answered(c, code).cmd = Cmd(c)
                /\ Answered(c, code).code = code
    BY DEF Answered, Idle
<1>4. \A pc \in {"classify", "read", "resolve"} :
          At(c, pc).pc = pc /\ At(c, pc).cmd = Cmd(c) /\ At(c, pc) \in Locals
    BY <1>1, NothingTyped DEF At, Locals, Ops
<1>5. Again(c).pc = "read" /\ Again(c).cmd = Cmd(c) BY <1>4 DEF Again, Locals
<1>6. /\ Succeeded(c).cmd = Cmd(c)
      /\ IF call[c].op = "fence" THEN Succeeded(c).pc = "read"
         ELSE IF call[c].op = "revoke" THEN Succeeded(c).pc = "classify"
         ELSE Succeeded(c).pc = "done" /\ Succeeded(c).code = "OK"
    BY <1>3, <1>4, <1>5 DEF Succeeded
<1>7. /\ Conflicted(c).cmd = Cmd(c)
      /\ IF call[c].op = "create"
         THEN /\ Conflicted(c).pc = "adopt" /\ Conflicted(c).op = call[c].op
              /\ Conflicted(c).snap = call[c].snap
         ELSE Conflicted(c).pc = "read"
    BY <1>1, <1>5 DEF Conflicted, Locals
<1>8. /\ Unresolved(c).cmd = Cmd(c)
      /\ IF call[c].op = "create"
         THEN Unresolved(c).pc = "done" /\ Unresolved(c).code = "OUTCOME_UNKNOWN"
         ELSE Unresolved(c).pc = "resolve"
    BY <1>3, <1>4 DEF Unresolved, Locals
<1> QED BY <1>2, <1>6, <1>7, <1>8

\* A conflict and an unknown outcome promise nothing.
LEMMA OutcomesTrue ==
    ASSUME IInv, HistoryTrue, NEW c \in Call, call[c].pc \in {"commit", "readback"}
    PROVE  LocalTrue(c, Conflicted(c)) /\ LocalTrue(c, Unresolved(c))
<1>1. LocalTrue(c, call[c]) /\ call[c].cmd = Cmd(c) BY Relied
<1>2. TxTrue(call[c].op, Cmd(c), call[c].snap) BY <1>1 DEF LocalTrue
<1>3. "OUTCOME_UNKNOWN" \notin Denials BY DEF Denials
<1>4. PICK l : l = Conflicted(c) OBVIOUS
<1>5. PICK u : u = Unresolved(c) OBVIOUS
<1>6. LocalTrue(c, l) BY <1>2, <1>4, OutcomeShapes DEF LocalTrue
<1>7. LocalTrue(c, u) BY <1>3, <1>5, OutcomeShapes DEF LocalTrue
<1> QED BY <1>4, <1>5, <1>6, <1>7

\* What a readback finds stored is the commit of its command.
LEMMA StoredIsTrue ==
    ASSUME IInv, HistoryTrue, NEW c \in Call, call[c].pc \in {"commit", "readback"},
           AllSame(Tx(c))
    PROVE  LocalTrue(c, Succeeded(c))
<1>1. TypeOK /\ call[c] \in Locals BY Relied
<1>2. PICK l : l = Succeeded(c) OBVIOUS
<1>3. CASE call[c].op = "create"
    <2>1. RootStored(Tx(c)) BY <1>3 DEF AllSame, Tx
    <2>2. claim.status = "ACTIVE" /\ claim.owner = Cmd(c) BY <2>1 DEF RootStored, Tx
    <2>3. claim.root \in Root
        <3>1. claim.root \in 0..MaxRoots BY <1>1 DEF TypeOK, Claims
        <3>2. claim.root # 0 BY <2>2 DEF HistoryTrue, ClaimTrue
        <3> QED BY <3>1, <3>2 DEF Root
    <2>4. creator[claim.root] = Cmd(c) BY <2>2, <2>3 DEF HistoryTrue, ClaimTrue, Root
    <2>5. Success(Cmd(c)) BY <1>3, <2>3, <2>4, OutcomeShapes DEF Success
    <2>6. LocalTrue(c, l) BY <1>2, <1>3, <2>5, OutcomeShapes DEF LocalTrue, Denials
    <2> QED BY <1>2, <2>6
<1>4. CASE call[c].op = "revoke"
    <2>1. audit[c] = "COMMITTED" BY <1>4 DEF AllSame, Tx, RevocationStored
    <2>2. Cmd(c) \in done BY <2>1 DEF HistoryTrue, RecordsTrue
    <2>3. LocalTrue(c, l) BY <1>2, <1>4, <2>2, OutcomeShapes DEF LocalTrue
    <2> QED BY <1>2, <2>3
<1>5. CASE call[c].op = "fence"
    <2>1. LocalTrue(c, l) BY <1>2, <1>5, OutcomeShapes DEF LocalTrue
    <2> QED BY <1>2, <2>1
<1>6. CASE call[c].op \notin {"create", "revoke", "fence"}
    <2>1. ReleaseStored(Tx(c)) BY <1>6 DEF AllSame, Tx
    <2>2. Cmd(c) \in done BY <2>1 DEF ReleaseStored, Tx
    <2>3. Success(Cmd(c)) BY <2>2 DEF HistoryTrue, ResultsTrue, Success
    <2>4. LocalTrue(c, l) BY <1>2, <1>6, <2>3, OutcomeShapes DEF LocalTrue, Denials
    <2> QED BY <1>2, <2>4
<1> QED BY <1>3, <1>4, <1>5, <1>6

LEMMA OutcomeTurns ==
    ASSUME IInv, HistoryTrue, NEW c \in Call, CommitRefused(c) \/ Readback(c)
    PROVE  Turns(c)
<1>1. call[c].pc \in {"commit", "readback"} BY DEF CommitRefused, Readback
<1>2. /\ Succeeded(c) \in Locals /\ Conflicted(c) \in Locals /\ Unresolved(c) \in Locals
      /\ Succeeded(c).cmd = Cmd(c) /\ Conflicted(c).cmd = Cmd(c) /\ Unresolved(c).cmd = Cmd(c)
      /\ LocalTrue(c, Conflicted(c)) /\ LocalTrue(c, Unresolved(c))
      /\ AllSame(Tx(c)) => LocalTrue(c, Succeeded(c))
    BY <1>1, AfterCommit, OutcomeShapes, OutcomesTrue, StoredIsTrue
<1>3. CASE Go(c, Answered(c, "TRUSTED_STATE_INVALID"))
    BY <1>1, <1>3, AnswerTurns DEF Codes, Denials
<1>4. \/ AllSame(Tx(c)) /\ Go(c, Succeeded(c))
      \/ Go(c, Conflicted(c)) \/ Go(c, Unresolved(c))
      \/ Go(c, Answered(c, "TRUSTED_STATE_INVALID"))
    BY DEF CommitRefused, Readback
<1> QED BY <1>2, <1>3, <1>4 DEF Turns, GoesOn

\* The coordinators' own readback claims what it finds stored, and no more.
LEMMA ResolveTurns ==
    ASSUME IInv, HistoryTrue, NEW c \in Call, Resolve(c)
    PROVE  Turns(c)
<1> DEFINE m == Cmd(c)
<1>1. call[c].pc = "resolve" BY DEF Resolve
<1>2. TypeOK /\ LocalTrue(c, call[c]) /\ call[c].cmd = m BY <1>1, Relied
<1>3. m.kind # "CREATE" BY <1>1, <1>2 DEF LocalTrue
<1>4. /\ At(c, "classify") \in Locals /\ Again(c) \in Locals
      /\ At(c, "classify").cmd = m /\ Again(c).cmd = m
      /\ LocalTrue(c, Again(c))
      /\ m.kind = "REVOKE" /\ m \in done => LocalTrue(c, At(c, "classify"))
    BY <1>1, <1>2, <1>3, Begun, TurnsTrue
<1>5. ASSUME NEW code \in {"OUTCOME_UNKNOWN", "TRUSTED_STATE_INVALID"}, Go(c, Answered(c, code))
      PROVE  Turns(c)
    <2>1. code \in Codes /\ code \notin Denials \cup {"OK"} BY <1>5 DEF Codes, Denials
    <2> QED BY <1>1, <1>5, <2>1, AnswerTurns
<1>6. CASE m \in done /\ Go(c, Answered(c, "OK"))
    <2>1. Success(m) BY <1>6 DEF HistoryTrue, ResultsTrue, Success
    <2> QED BY <1>1, <1>6, <2>1, AnswerTurns DEF Codes
<1>7. CASE m \in done /\ audit[c] = "COMMITTED" /\ Go(c, At(c, "classify"))
    <2>1. m.kind = "REVOKE" BY <1>7 DEF HistoryTrue, RecordsTrue
    <2> QED BY <1>4, <1>7, <2>1 DEF Turns, GoesOn
<1>8. CASE Go(c, Again(c)) BY <1>4, <1>8 DEF Turns, GoesOn
<1>9. \/ \E code \in {"OUTCOME_UNKNOWN", "TRUSTED_STATE_INVALID"} : Go(c, Answered(c, code))
      \/ m \in done /\ Go(c, Answered(c, "OK"))
      \/ m \in done /\ audit[c] = "COMMITTED" /\ Go(c, At(c, "classify"))
      \/ Go(c, Again(c))
    BY DEF Resolve
<1> QED BY <1>5, <1>6, <1>7, <1>8, <1>9

\* A failure claims nothing.
LEMMA FailureTurns ==
    ASSUME IInv, HistoryTrue, NEW c \in Call, CallFails(c)
    PROVE  Turns(c)
<1>1. call[c].pc # "idle" BY DEF CallFails
<1>2. TypeOK /\ LocalTrue(c, call[c]) /\ call[c].cmd = Cmd(c) BY <1>1, Relied
<1>3. {"STORE_UNAVAILABLE", "OUTCOME_UNKNOWN", "EVIDENCE_DENIED"} \subseteq Codes
      /\ {"STORE_UNAVAILABLE", "OUTCOME_UNKNOWN", "EVIDENCE_DENIED"} \cap (Denials \cup {"OK"}) = {}
    BY DEF Codes, Denials
<1>4. \/ \E code \in {"STORE_UNAVAILABLE", "OUTCOME_UNKNOWN", "EVIDENCE_DENIED"} :
             Go(c, Answered(c, code))
      \/ call[c].pc = "commit" /\ call[c].op = "revoke" /\ Go(c, Denied(c, "EVIDENCE_DENIED"))
    BY DEF CallFails
<1>5. ASSUME NEW code \in {"STORE_UNAVAILABLE", "OUTCOME_UNKNOWN", "EVIDENCE_DENIED"},
             Go(c, Answered(c, code))
      PROVE  Turns(c)
    BY <1>1, <1>3, <1>5, AnswerTurns
<1>6. CASE call[c].pc = "commit" /\ call[c].op = "revoke" /\ Go(c, Denied(c, "EVIDENCE_DENIED"))
    <2>1. Cmd(c).kind = "REVOKE" BY <1>6, OutcomeShapes
    <2>2. "EVIDENCE_DENIED" \notin {"OK", "ADOPTED"} OBVIOUS
    <2>3. LocalTrue(c, Denied(c, "EVIDENCE_DENIED"))
          /\ Denied(c, "EVIDENCE_DENIED").cmd = Cmd(c)
        BY <1>1, <1>2, <1>3, <2>1, <2>2, TurnsTrue
    <2>4. Denied(c, "EVIDENCE_DENIED") \in Locals BY <1>1, <1>3, Begun
    <2> QED BY <1>6, <2>3, <2>4 DEF Turns, GoesOn
<1> QED BY <1>4, <1>5, <1>6

\* The steps that only their call sees, together.
LEMMA PrivateTurns ==
    ASSUME IInv, IInv', HistoryTrue, NEW c \in Call, Turns(c), UNCHANGED <<store, world, late>>
    PROVE  HistoryTrue'
BY PrivateStep DEF Turns

-----------------------------------------------------------------------------
\* Steps that others see.

\* A step that changes neither the store nor any call.
LEMMA CallsStay ==
    ASSUME IInv, TypeOK', HistoryTrue, Onward, call' = call, \A d \in Call : Undisturbed(d)
    PROVE  LocalsTrue'
<1>1. TypeOK BY DEF IInv
<1>2. ASSUME NEW d \in Call PROVE LocalTrue(d, call[d])'
    <2>1. PICK l \in Locals : l = call[d] BY <1>1 DEF TypeOK
    <2>2. LocalTrue(d, l) /\ CallFits(l) BY <2>1 DEF HistoryTrue, LocalsTrue, IInv
    <2>3. LocalTrue(d, l)' BY <1>1, <2>2, LocalStays
    <2>4. call'[d] = l BY <2>1
    <2> QED BY <2>3, <2>4 DEF LocalTrue, TxTrue, Reached, Unowned, ReceiptIsExact, Success
<1> QED BY <1>2 DEF LocalsTrue

LEMMA WorldTrue ==
    ASSUME IInv, TypeOK', HistoryTrue, UNCHANGED <<store, call, late>>,
           \A r \in Root : verified[r] \subseteq verified'[r],
           service.version <= service'.version,
           claim.status = "RELEASING" => verified' = verified
    PROVE  HistoryTrue'
<1>1. TypeOK BY DEF IInv
<1>2. UNCHANGED <<claim, epoch, head, events, creator, progress, done, audit, call, late>>
    BY DEF store
<1>3. Kept BY <1>2 DEF Kept, Cmd
<1>4. Onward
    <2>1. \A r \in Root : epoch[r] \in Nat BY <1>1 DEF TypeOK
    <2> QED BY <1>2, <2>1 DEF Onward
<1>5. ASSUME NEW d \in Call PROVE Undisturbed(d) BY <1>2, <1>4, NoNews
<1>6. LocalsTrue' BY <1>2, <1>4, <1>5, CallsStay
<1>7. LateTrue' BY <1>2, <1>3, <1>4, LateStays
<1>8. ClaimTrue' /\ ResultsTrue' /\ EpochsOpened' /\ FenceWhole'
    BY <1>1, <1>2, <1>3, QuietStore
<1>9. RecordsTrue' BY <1>1, <1>2, <1>3, QuietRecords
<1> QED BY <1>6, <1>7, <1>8, <1>9 DEF HistoryTrue

\* A mutation runs only while its root is active: it cannot change the receipts
\* that a fence was built on.
LEMMA MutateTrue ==
    ASSUME IInv, TypeOK', HistoryTrue, Mutate \/ Reset
    PROVE  HistoryTrue'
<1>1. TypeOK BY DEF IInv
<1>2. UNCHANGED <<store, call, late>> BY DEF Mutate, Reset
<1>3. service.version <= service'.version
    <2>1. service'.version = service.version + 1 BY DEF Mutate, Reset, Moves
    <2> QED BY <1>1, <2>1 DEF TypeOK
<1>4. claim.status = "RELEASING" => verified' = verified BY DEF Mutate, Reset
<1>5. \A r \in Root : verified[r] \subseteq verified'[r]
    <2>1. verified \in [Root -> SUBSET [action : Actions, epoch : Nat]] BY <1>1 DEF TypeOK
    <2>2. \/ verified' = verified
          \/ \E a : verified' = [verified EXCEPT ![claim.root] = @ \cup
                                    {[action |-> a, epoch |-> epoch[claim.root]]}]
        BY DEF Mutate, Reset, Moves
    <2> QED BY <2>1, <2>2
<1> QED BY <1>2, <1>3, <1>4, <1>5, WorldTrue

\* An attempt writes one audit, and says in it what it is told.
LEMMA AuditTrue ==
    ASSUME IInv, IInv', HistoryTrue, NEW c \in Call, RecordAudit(c) \/ AuditLost(c)
    PROVE  HistoryTrue'
<1> DEFINE a == [At(c, "classify") EXCEPT !.code = "none"]
<1>1. call[c].pc = "audit" BY DEF RecordAudit, AuditLost
<1>2. /\ TypeOK /\ TypeOK' /\ Cmd(c) \in Command /\ call[c] \in Locals
      /\ LocalTrue(c, call[c]) /\ call[c].cmd = Cmd(c)
    BY <1>1, Relied DEF IInv
<1>3. /\ Cmd(c).kind = "REVOKE" /\ call[c].code # "OK"
      /\ call[c].code = "ADOPTED" => Cmd(c) \in done
    BY <1>1, <1>2 DEF LocalTrue
<1>4. UNCHANGED <<claim, epoch, head, events, creator, progress, done, verified, service, late>>
    BY DEF RecordAudit, AuditLost, world
<1>5. audit' \in [Call -> {"NONE", "COMMITTED", "ADOPTED", "DENIED"}] BY <1>2 DEF TypeOK
<1>6. /\ audit'[c] = audit[c] \/ (audit[c] = "NONE" /\ audit'[c] \in {"ADOPTED", "DENIED"})
      /\ \A d \in Call \ {c} : audit'[d] = audit[d]
    <2>1. audit \in [Call -> {"NONE", "COMMITTED", "ADOPTED", "DENIED"}] BY <1>2 DEF TypeOK
    <2>2. \/ UNCHANGED audit
          \/ audit[c] = "NONE" /\ \/ audit' = [audit EXCEPT ![c] = "ADOPTED"]
                                  \/ audit' = [audit EXCEPT ![c] = "DENIED"]
        BY DEF RecordAudit, AuditLost
    <2> QED BY <2>1, <2>2
<1>7. \E next \in Locals : next.cmd = Cmd(c) /\ Go(c, next) /\ LocalTrue(c, next)'
    <2>1. CASE call[c].code = "ADOPTED" /\ Go(c, a)
        <3>1. At(c, "classify") \in Locals /\ At(c, "classify").pc = "classify"
              /\ At(c, "classify").cmd = Cmd(c)
            BY <1>2, AtFits
        <3>2. a \in Locals /\ a.pc = "classify" /\ a.cmd = Cmd(c) BY <3>1 DEF Locals, Codes
        <3>3. PICK l \in Locals : l = a BY <3>2
        <3>4. LocalTrue(c, l)' BY <1>3, <1>4, <2>1, <3>2, <3>3 DEF LocalTrue
        <3> QED BY <2>1, <3>2, <3>3, <3>4
    <2>2. ASSUME NEW code \in Codes, Go(c, Answered(c, code)), code # "OK",
                 code \in Denials => audit'[c] = "DENIED"
          PROVE  \E next \in Locals : next.cmd = Cmd(c) /\ Go(c, next) /\ LocalTrue(c, next)'
        <3>1. PICK l \in Locals : l = Answered(c, code) BY <1>1, Begun
        <3>2. l.pc = "done" /\ l.code = code /\ l.cmd = Cmd(c) BY <3>1 DEF Answered, Idle
        <3>3. LocalTrue(c, l)' BY <1>3, <2>2, <3>2 DEF LocalTrue
        <3> QED BY <2>2, <3>1, <3>2, <3>3
    <2>3. ASSUME NEW code \in {"TRUSTED_STATE_INVALID", "STORE_UNAVAILABLE"}
          PROVE  code \in Codes /\ code \notin Denials \cup {"OK"}
        BY <2>3 DEF Codes, Denials
    <2>4. call[c].code \in Codes BY <1>2 DEF Locals
    <2>5. CASE RecordAudit(c) /\ audit[c] = "NONE" /\ call[c].code # "ADOPTED"
        <3>1. audit' = [audit EXCEPT ![c] = "DENIED"] /\ Go(c, Answered(c, call[c].code))
            BY <2>5 DEF RecordAudit
        <3>2. audit'[c] = "DENIED" BY <1>2, <3>1 DEF TypeOK
        <3> QED BY <1>3, <2>2, <2>4, <3>1, <3>2
    <2>6. CASE RecordAudit(c) /\ audit[c] = "NONE" /\ call[c].code = "ADOPTED"
        BY <2>1, <2>6 DEF RecordAudit
    <2>7. CASE RecordAudit(c) /\ audit[c] # "NONE"
        <3>1. Go(c, Answered(c, "TRUSTED_STATE_INVALID")) BY <2>7 DEF RecordAudit
        <3> QED BY <2>2, <2>3, <3>1
    <2>8. CASE AuditLost(c)
        <3>1. Go(c, Answered(c, "STORE_UNAVAILABLE")) BY <2>8 DEF AuditLost
        <3> QED BY <2>2, <2>3, <3>1
    <2> QED BY <2>5, <2>6, <2>7, <2>8
<1>8. PICK next \in Locals : next.cmd = Cmd(c) /\ Go(c, next) /\ LocalTrue(c, next)' BY <1>7
<1>9. Kept BY <1>2, <1>8, GoingKeeps DEF GoesOn
<1>10. Onward
    <2>1. \A r \in Root : epoch[r] \in Nat BY <1>2 DEF TypeOK
    <2>2. service.version \in Nat BY <1>2 DEF TypeOK
    <2> QED BY <1>4, <2>1, <2>2 DEF Onward
<1>11. \A d \in Call \ {c} : Undisturbed(d)
    <2> SUFFICES ASSUME NEW d \in Call \ {c} PROVE Undisturbed(d) OBVIOUS
    <2>1. audit'[d] = audit[d] BY <1>6
    <2> QED BY <1>2, <1>4, <1>10, <2>1, NoNews
<1>12. LocalsTrue' BY <1>2, <1>8, <1>10, <1>11, OthersStay
<1>13. LateTrue' BY <1>2, <1>4, <1>9, <1>10, LateStays
<1>14. ClaimTrue' /\ ResultsTrue' /\ EpochsOpened' /\ FenceWhole'
    <2>1. service.version <= service'.version BY <1>10 DEF Onward
    <2> QED BY <1>2, <1>4, <1>9, <2>1, QuietStore
<1>15. RecordsTrue'
    <2>1. \A e \in events : Cmd(e.by)' = Cmd(e.by) BY <1>2, <1>9, SendersBegan DEF Kept
    <2>2. ASSUME NEW e \in events'
          PROVE  /\ Cmd(e.by)'.kind = "REVOKE" => audit'[e.by] = "COMMITTED"
                 /\ Cmd(e.by)'.kind \in Releases => Cmd(e.by)' \in progress'
        <3>1. e \in events /\ e.by \in Call BY <1>2, <1>4, <2>2 DEF TypeOK, Evidence
        <3>2. audit[e.by] = "COMMITTED" => audit'[e.by] = "COMMITTED" BY <1>6, <3>1
        <3> QED BY <1>4, <2>1, <3>1, <3>2 DEF HistoryTrue, RecordsTrue
    <2>3. ASSUME NEW d \in Call
          PROVE  /\ audit'[d] # "NONE" => Cmd(d)'.kind = "REVOKE"
                 /\ audit'[d] = "COMMITTED" => Cmd(d)' \in done'
        <3>1. call[d].pc # "idle" => Cmd(d)' = Cmd(d) BY <1>9 DEF Kept
        <3>2. CASE audit'[d] = audit[d]
            <4>1. audit[d] # "NONE" => Cmd(d)' = Cmd(d) BY <1>2, <3>1, SendersBegan
            <4> QED BY <1>4, <3>2, <4>1 DEF HistoryTrue, RecordsTrue
        <3>3. CASE audit'[d] # audit[d]
            <4>1. d = c /\ audit'[d] \in {"ADOPTED", "DENIED"} BY <1>6, <3>3
            <4> QED BY <1>1, <1>3, <3>1, <4>1
        <3> QED BY <3>2, <3>3
    <2> QED BY <2>2, <2>3 DEF RecordsTrue
<1> QED BY <1>12, <1>13, <1>14, <1>15 DEF HistoryTrue

\* A transaction of c, when it commits or becomes late.
LEMMA TxSent ==
    ASSUME IInv, HistoryTrue, NEW c \in Call, call[c].pc = "commit", Cmd(c)' = Cmd(c)
    PROVE  \E o \in Txs : o = Tx(c) /\ o.by = c /\ Sent(o)
<1>1. Tx(c) \in Txs /\ Fits(Tx(c).op, Tx(c).cmd, Tx(c).snap) BY AfterCommit
<1>2. LocalTrue(c, call[c]) /\ call[c].cmd = Cmd(c) BY Relied
<1>3. TxTrue(Tx(c).op, Tx(c).cmd, Tx(c).snap) BY <1>2 DEF LocalTrue, Tx
<1>4. Tx(c).by = c /\ Tx(c).cmd = Cmd(c) BY DEF Tx
<1>5. PICK o \in Txs : o = Tx(c) BY <1>1
<1>6. Fits(o.op, o.cmd, o.snap) /\ TxTrue(o.op, o.cmd, o.snap) /\ o.by = c /\ o.cmd = Cmd(c)
    BY <1>1, <1>3, <1>4, <1>5
<1>7. Sent(o) BY <1>6 DEF Sent
<1> QED BY <1>5, <1>6, <1>7

\* A commit that its call waits for: the call goes on as succeeded, or as if it
\* had met a conflict.
LEMMA CommitTrue ==
    ASSUME IInv, IInv', HistoryTrue, NEW c \in Call, call[c].pc = "commit", Commit(Tx(c)),
           Go(c, Succeeded(c)) \/ Go(c, Conflicted(c)), UNCHANGED <<world, late>>
    PROVE  HistoryTrue'
<1>1. /\ TypeOK /\ TypeOK' /\ Cmd(c) \in Command /\ call[c] \in Locals
      /\ LocalTrue(c, call[c]) /\ CallFits(call[c]) /\ call[c].cmd = Cmd(c)
    BY Relied DEF IInv
<1>2. PICK next \in Locals : Go(c, next) /\ (next = Succeeded(c) \/ next = Conflicted(c))
    BY AfterCommit
<1>3. next.cmd = Cmd(c) BY <1>2, OutcomeShapes
<1>4. Kept BY <1>1, <1>2, <1>3, GoingKeeps DEF GoesOn
<1>5. PICK o \in Txs : o = Tx(c) /\ Sent(o) BY <1>4, TxSent DEF Kept
<1>6. o.by = c /\ o.cmd = Cmd(c) /\ o.op = call[c].op /\ o.snap = call[c].snap
    BY <1>5 DEF Tx
<1>7. Sent(o) BY <1>5
<1>8. Commit(o) BY <1>5
<1>9. UNCHANGED world OBVIOUS
<1>10. Committed(o) BY <1>1, <1>4, <1>7, <1>8, <1>9, CommitCommits
<1>11. Onward /\ News(o) BY <1>10 DEF Committed
<1>12. LocalTrue(c, next)'
    <2>1. /\ (call[c].op = "create") = (Cmd(c).kind = "CREATE")
          /\ (call[c].op = "revoke") = (Cmd(c).kind = "REVOKE")
        BY OutcomeShapes
    <2>2. CASE next = Conflicted(c)
        <3>1. TxTrue(o.op, o.cmd, o.snap)'
            <4>1. o.cmd \in Command /\ o.snap \in Snaps BY <1>7 DEF Sent, Txs
            <4>2. Fits(o.op, o.cmd, o.snap) /\ TxTrue(o.op, o.cmd, o.snap) BY <1>7 DEF Sent
            <4> QED BY <1>1, <1>11, <4>1, <4>2, TxStays
        <3>2. IF call[c].op = "create"
              THEN next.pc = "adopt" /\ next.op = o.op /\ next.snap = o.snap
              ELSE next.pc = "read"
            BY <1>6, <2>2, OutcomeShapes
        <3>3. CASE call[c].op = "create"
            <4>1. TxTrue(next.op, next.cmd, next.snap)'
                BY <1>6, <1>3, <3>1, <3>2, <3>3 DEF TxTrue, Reached, Unowned, ReceiptIsExact
            <4> QED BY <1>3, <2>1, <3>2, <3>3, <4>1 DEF LocalTrue
        <3>4. CASE call[c].op # "create" BY <1>3, <2>1, <3>2, <3>4 DEF LocalTrue
        <3> QED BY <3>3, <3>4
    <2>3. CASE next = Succeeded(c)
        <3>1. IF call[c].op = "fence" THEN next.pc = "read"
              ELSE IF call[c].op = "revoke" THEN next.pc = "classify"
              ELSE next.pc = "done" /\ next.code = "OK"
            BY <2>3, OutcomeShapes
        <3>2. CASE call[c].op = "fence" BY <1>3, <2>1, <3>1, <3>2 DEF LocalTrue
        <3>3. CASE call[c].op = "revoke"
            <4>1. WriteRevocation(o)
                BY <1>6, <1>8, <3>3 DEF Commit, WriteRoot, WriteFence, WriteRelease
            <4>2. Cmd(c) \in done' BY <1>6, <4>1 DEF WriteRevocation
            <4> QED BY <1>3, <2>1, <3>1, <3>3, <4>2 DEF LocalTrue
        <3>4. CASE call[c].op = "create"
            <4>1. WriteRoot(o)
                BY <1>6, <1>8, <3>4 DEF Commit, WriteRevocation, WriteFence, WriteRelease
            <4>2. \E r \in Root : creator'[r] = Cmd(c)
                <5>1. creator \in [Root -> Command \cup {NoCommand}] BY <1>1 DEF TypeOK
                <5> QED BY <1>6, <4>1, <5>1 DEF WriteRoot
            <4>3. Success(next.cmd)' BY <1>3, <2>1, <3>4, <4>2 DEF Success
            <4> QED BY <1>3, <2>1, <3>1, <3>4, <4>3 DEF LocalTrue, Denials
        <3>5. CASE call[c].op \notin {"create", "revoke", "fence"}
            <4>1. WriteRelease(o)
                BY <1>6, <1>8, <3>5 DEF Commit, WriteRoot, WriteRevocation, WriteFence
            <4>2. Cmd(c) \in done' BY <1>6, <4>1 DEF WriteRelease
            <4>3. PICK m : m = Cmd(c) OBVIOUS
            <4>4. ResultsTrue' BY <1>10 DEF Committed
            <4>5. m \in done' /\ epoch'[m.root] > m.epoch BY <4>2, <4>3, <4>4 DEF ResultsTrue
            <4>6. m.kind # "CREATE" BY <2>1, <3>5, <4>3
            <4>7. Success(m)' BY <4>5, <4>6 DEF Success
            <4>8. next.cmd = m BY <1>3, <4>3
            <4> QED BY <3>1, <3>5, <4>7, <4>8 DEF LocalTrue, Denials
        <3> QED BY <3>2, <3>3, <3>4, <3>5
    <2> QED BY <1>2, <2>2, <2>3
<1>13. \A d \in Call \ {c} : Undisturbed(d)
    <2> SUFFICES ASSUME NEW d \in Call \ {c} PROVE Undisturbed(d) OBVIOUS
    <2>1. audit'[d] = audit[d] /\ (\A e \in events' : e \in events \/ e.by # d)
        BY <1>6, <1>11 DEF News
    <2> QED BY <1>1, <1>11, <2>1, NoNews
<1>14. LocalsTrue' BY <1>1, <1>2, <1>11, <1>12, <1>13, OthersStay
<1>15. LateTrue' BY <1>1, <1>4, <1>11, LateStays
<1> QED BY <1>10, <1>14, <1>15 DEF Committed, HistoryTrue

\* A transaction that its call no longer waits for may land later.
LEMMA LeavingTrue ==
    ASSUME IInv, IInv', HistoryTrue, NEW c \in Call, CommitTimesOut(c) \/ Crash(c)
    PROVE  HistoryTrue'
<1>1. call[c].pc # "idle" BY DEF CommitTimesOut, Crash
<1>2. /\ TypeOK /\ TypeOK' /\ call[c] \in Locals /\ Answered(c, "NONE") \in Locals
      /\ LocalTrue(c, call[c]) /\ call[c].cmd = Cmd(c)
    BY <1>1, Relied, Begun DEF IInv, Codes
<1>3. UNCHANGED <<claim, epoch, head, events, creator, progress, done, audit, verified, service>>
    BY DEF CommitTimesOut, Crash, store, world
<1>4. late' = late \/ (call[c].pc = "commit" /\ late' = late \cup {Tx(c)})
    BY DEF CommitTimesOut, Crash
<1>5. \E next \in Locals : next.cmd = Cmd(c) /\ Go(c, next) /\ LocalTrue(c, next)'
    <2>1. CASE CommitTimesOut(c)
        <3>1. PICK r : r = [call[c] EXCEPT !.pc = "readback"] OBVIOUS
        <3>2. call[c].pc = "commit" /\ Go(c, r) BY <2>1, <3>1 DEF CommitTimesOut
        <3>3. r \in Locals /\ r.pc = "readback" /\ r.cmd = Cmd(c) /\ r.op = call[c].op
              /\ r.snap = call[c].snap
            BY <1>2, <3>1 DEF Locals
        <3>4. TxTrue(r.op, r.cmd, r.snap) BY <1>2, <3>2, <3>3 DEF LocalTrue
        <3>5. TxTrue(r.op, r.cmd, r.snap)'
            BY <1>3, <3>4 DEF TxTrue, Reached, Unowned, ReceiptIsExact
        <3>6. LocalTrue(c, r)' BY <3>3, <3>5 DEF LocalTrue
        <3> QED BY <3>2, <3>3, <3>6
    <2>2. CASE Crash(c)
        <3>1. PICK r \in Locals : r = Answered(c, "NONE") BY <1>2
        <3>2. r.pc = "done" /\ r.code = "NONE" /\ r.cmd = Cmd(c) BY <3>1 DEF Answered, Idle
        <3>3. LocalTrue(c, r)' BY <3>2 DEF LocalTrue, Denials
        <3>4. Go(c, r) BY <2>2, <3>1 DEF Crash
        <3> QED BY <3>2, <3>3, <3>4
    <2> QED BY <2>1, <2>2
<1>6. PICK next \in Locals : next.cmd = Cmd(c) /\ Go(c, next) /\ LocalTrue(c, next)' BY <1>5
<1>7. Kept BY <1>2, <1>6, GoingKeeps DEF GoesOn
<1>8. Onward
    <2>1. \A r \in Root : epoch[r] \in Nat BY <1>2 DEF TypeOK
    <2>2. service.version \in Nat BY <1>2 DEF TypeOK
    <2> QED BY <1>3, <2>1, <2>2 DEF Onward
<1>9. \A o \in late' : o \in late \/ (Sent(o) /\ o \in Txs /\ o.by = c)
    <2>1. CASE late' = late BY <2>1
    <2>2. CASE call[c].pc = "commit" /\ late' = late \cup {Tx(c)}
        <3>1. PICK o \in Txs : o = Tx(c) /\ o.by = c /\ Sent(o) BY <1>7, <2>2, TxSent DEF Kept
        <3>2. late' = late \cup {o} BY <2>2, <3>1
        <3> QED BY <3>1, <3>2
    <2> QED BY <1>4, <2>1, <2>2
<1>10. \A d \in Call \ {c} : Undisturbed(d)
    <2> SUFFICES ASSUME NEW d \in Call \ {c} PROVE Undisturbed(d) OBVIOUS
    <2>1. audit'[d] = audit[d] /\ (\A e \in events' : e \in events \/ e.by # d) BY <1>3
    <2>2. \A o \in late' : o \in late \/ o.by # d BY <1>9
    <2> QED BY <1>2, <1>8, <2>1, <2>2, NoNews
<1>11. LocalsTrue' BY <1>2, <1>6, <1>8, <1>10, OthersStay
<1>12. LateTrue' BY <1>2, <1>7, <1>8, <1>9, LateStays
<1>13. ClaimTrue' /\ ResultsTrue' /\ EpochsOpened' /\ FenceWhole'
    <2>1. service.version <= service'.version BY <1>8 DEF Onward
    <2> QED BY <1>2, <1>3, <1>7, <2>1, QuietStore
<1>14. RecordsTrue' BY <1>2, <1>3, <1>7, QuietRecords
<1> QED BY <1>11, <1>12, <1>13, <1>14 DEF HistoryTrue

LEMMA LandTrue ==
    ASSUME IInv, IInv', HistoryTrue, NEW o \in late, Land(o)
    PROVE  HistoryTrue'
<1>1. TypeOK /\ TypeOK' /\ o \in Txs /\ Fits(o.op, o.cmd, o.snap) BY DEF IInv, TypeOK
<1>2. Commit(o) /\ late' \subseteq late /\ UNCHANGED <<world, call>> BY DEF Land
<1>3. Kept BY <1>2 DEF Kept, Cmd
<1>4. o.by \in Call /\ call[o.by].pc # "idle" BY <1>1, SendersBegan
<1>5. o.cmd = Cmd(o.by) /\ TxTrue(o.op, o.cmd, o.snap) BY DEF HistoryTrue, LateTrue
<1>6. Sent(o) BY <1>1, <1>3, <1>4, <1>5 DEF Sent, Kept
<1>7. Committed(o) BY <1>1, <1>2, <1>3, <1>6, CommitCommits
<1>8. Onward BY <1>7 DEF Committed
<1>9. \A d \in Call : Undisturbed(d) BY <1>1, <1>2, <1>7, LandingIsKnown
<1>10. LocalsTrue' BY <1>1, <1>2, <1>8, <1>9, CallsStay
<1>11. LateTrue' BY <1>1, <1>2, <1>3, <1>8, LateStays
<1> QED BY <1>7, <1>10, <1>11 DEF Committed, HistoryTrue

-----------------------------------------------------------------------------
\* The history.

LEMMA InitHistory == Init => HistoryTrue
<1> SUFFICES ASSUME Init PROVE HistoryTrue OBVIOUS
<1>1. /\ claim = NoClaim /\ epoch = [r \in Root |-> 0] /\ events = {}
      /\ creator = [r \in Root |-> NoCommand] /\ progress = {} /\ done = {}
      /\ audit = [c \in Call |-> "NONE"] /\ call = [c \in Call |-> Idle] /\ late = {}
    BY DEF Init
<1>2. claim.root = 0 /\ claim.status = "NONE" BY <1>1 DEF NoClaim
<1>3. LocalsTrue
    <2> SUFFICES ASSUME NEW c \in Call PROVE LocalTrue(c, call[c]) BY DEF LocalsTrue
    <2>1. call[c] = Idle /\ audit[c] = "NONE" /\ Free(c) BY <1>1 DEF Free
    <2>2. PICK l : l = Idle OBVIOUS
    <2>3. l.pc = "idle" BY <2>2 DEF Idle
    <2>4. LocalTrue(c, l) BY <2>1, <2>3 DEF LocalTrue
    <2> QED BY <2>1, <2>2, <2>4
<1>4. LateTrue BY <1>1 DEF LateTrue
<1>5. ClaimTrue
    <2>1. \A r \in Root : r \in Nat /\ r > 0 BY DEF Root
    <2> QED BY <1>1, <1>2, <2>1 DEF ClaimTrue
<1>6. ResultsTrue /\ RecordsTrue BY <1>1 DEF ResultsTrue, RecordsTrue
<1>7. EpochsOpened
    <2>1. \A r \in Root : 1..epoch[r] = {} BY <1>1
    <2> QED BY <1>1, <2>1 DEF EpochsOpened
<1>8. FenceWhole BY <1>2 DEF FenceWhole
<1> QED BY <1>3, <1>4, <1>5, <1>6, <1>7, <1>8 DEF HistoryTrue

LEMMA NextHistory == IInv /\ HistoryTrue /\ [Next]_vars => HistoryTrue'
<1> SUFFICES ASSUME IInv, HistoryTrue, [Next]_vars PROVE HistoryTrue' OBVIOUS
<1>1. IInv' BY NextKeeps
<1>2. TypeOK /\ TypeOK' BY <1>1 DEF IInv
<1>3. ASSUME NEW c \in Call, Turns(c), UNCHANGED <<store, world, late>> PROVE HistoryTrue'
    BY <1>1, <1>3, PrivateTurns
<1>4. ASSUME NEW c \in Call, Step(c) PROVE HistoryTrue'
    <2>1. CASE ReadClaim(c) BY <1>3, <2>1, ReadClaimTurns DEF ReadClaim
    <2>2. CASE ReadBundle(c) BY <1>3, <2>2, ReadBundleTurns DEF ReadBundle
    <2>3. CASE Preflight(c) BY <1>3, <2>3, PreflightTurns DEF Preflight
    <2>4. CASE ReadRevocation(c) BY <1>3, <2>4, ReadRevocationTurns DEF ReadRevocation
    <2>5. CASE RecordAudit(c) BY <1>1, <2>5, AuditTrue
    <2>6. CASE ClassifyCommitted(c) BY <1>3, <2>6, ClassifyCommittedTurns DEF ClassifyCommitted
    <2>7. CASE ReadRelease(c) BY <1>3, <2>7, ReadReleaseTurns DEF ReadRelease
    <2>8. CASE ClassifyTarget(c) BY <1>3, <2>8, ClassifyTargetTurns DEF ClassifyTarget
    <2>9. CASE CommitConfirmed(c) BY <1>1, <2>9, CommitTrue DEF CommitConfirmed
    <2>10. CASE CommitRefused(c) \/ Readback(c)
        BY <1>3, <2>10, OutcomeTurns DEF CommitRefused, Readback
    <2>11. CASE AdoptRoot(c) BY <1>3, <2>11, AdoptRootTurns DEF AdoptRoot
    <2>12. CASE Resolve(c) BY <1>3, <2>12, ResolveTurns DEF Resolve
    <2> QED BY <1>4, <2>1, <2>2, <2>3, <2>4, <2>5, <2>6, <2>7, <2>8, <2>9, <2>10, <2>11, <2>12
        DEF Step
<1>5. ASSUME NEW c \in Call, Trouble(c) PROVE HistoryTrue'
    <2>1. CASE AuditLost(c) BY <1>1, <2>1, AuditTrue
    <2>2. CASE CommitContended(c) /\ Commit(Tx(c)) BY <1>1, <2>2, CommitTrue DEF CommitContended
    <2>3. CASE CommitContended(c) /\ UNCHANGED store
        <3>1. call[c].pc = "commit" /\ Go(c, Conflicted(c)) /\ UNCHANGED <<store, world, late>>
            BY <2>3 DEF CommitContended
        <3>2. Conflicted(c) \in Locals BY <3>1, AfterCommit
        <3>3. LocalTrue(c, Conflicted(c)) /\ Conflicted(c).cmd = Cmd(c)
            BY <3>1, OutcomesTrue, OutcomeShapes
        <3>4. Turns(c) BY <3>1, <3>2, <3>3 DEF Turns, GoesOn
        <3> QED BY <1>3, <3>1, <3>4
    <2>4. CASE CommitTimesOut(c) \/ Crash(c) BY <1>1, <2>4, LeavingTrue
    <2>5. CASE CallFails(c) BY <1>3, <2>5, FailureTurns DEF CallFails
    <2>6. CommitContended(c) => Commit(Tx(c)) \/ UNCHANGED store BY DEF CommitContended
    <2> QED BY <1>5, <2>1, <2>2, <2>3, <2>4, <2>5, <2>6 DEF Trouble
<1>6. ASSUME NEW c \in Call, NEW m \in Command, Begin(c, m) \/ Unauthorized(c, m)
      PROVE  HistoryTrue'
    BY <1>3, <1>6, BeginTurns DEF Begin, Unauthorized
<1>7. ASSUME NEW o \in late, Land(o) PROVE HistoryTrue' BY <1>1, <1>7, LandTrue
<1>8. CASE Mutate \/ Reset BY <1>2, <1>8, MutateTrue
<1>9. CASE UNCHANGED vars
    <2>1. UNCHANGED <<store, call, late>> /\ UNCHANGED <<verified, service>>
        BY <1>9 DEF vars, store
    <2>2. service.version <= service'.version BY <1>2, <2>1 DEF TypeOK
    <2> QED BY <1>2, <2>1, <2>2, WorldTrue
<1> QED BY <1>4, <1>5, <1>6, <1>7, <1>8, <1>9 DEF Next

\* What calls rely on and what the store owes to what landed holds in every
\* reachable state, with the first invariant.
THEOREM HistoryInvariance == Spec => [](IInv /\ HistoryTrue)
<1>1. Init => IInv /\ HistoryTrue BY InitEstablishes, InitHistory
<1>2. IInv /\ HistoryTrue /\ [Next]_vars => (IInv /\ HistoryTrue)' BY NextKeeps, NextHistory
<1> QED BY <1>1, <1>2, PTL DEF Spec

\* Every advance of an epoch is one committed command's, one that named the
\* epoch before it, whatever raced it or landed late.
THEOREM EpochsStayAccounted == Spec => []EpochsAccounted
<1>1. IInv /\ HistoryTrue => EpochsAccounted
    <2> SUFFICES ASSUME IInv, HistoryTrue, NEW r \in Root, NEW n \in 1..(epoch[r] + 1)
                 PROVE  IF n > epoch[r] THEN Openers(r, n) = {}
                        ELSE \E e \in Openers(r, n) :
                                /\ Openers(r, n) = {e}
                                /\ n > 1 => /\ Cmd(e.by).epoch = n - 1
                                            /\ Cmd(e.by) \in progress \cup done
        BY DEF EpochsAccounted, Openers, Opens
    <2>1. epoch[r] \in Nat BY DEF IInv, TypeOK
    <2>2. CASE n > epoch[r]
        <3>1. ASSUME NEW e \in Openers(r, n) PROVE FALSE
            <4>1. e \in events /\ Opens(e) /\ e.root = r /\ e.epoch = n BY DEF Openers
            <4>2. e.epoch <= epoch[r] BY <4>1 DEF HistoryTrue, EpochsOpened
            <4> QED BY <2>1, <2>2, <4>1, <4>2
        <3>2. Openers(r, n) = {} BY <3>1
        <3> QED BY <2>2, <3>2
    <2>3. CASE n <= epoch[r]
        <3>1. n \in 1..epoch[r] BY <2>1, <2>3
        <3>2. ~(n > epoch[r]) BY <2>1, <2>3
        <3> QED BY <3>1, <3>2 DEF HistoryTrue, EpochsOpened
    <2> QED BY <2>1, <2>2, <2>3
<1> QED BY <1>1, HistoryInvariance, PTL

\* A durable denial and a refusing answer are final: the call has changed
\* nothing, and what it left in flight can never land.
THEOREM DenialsStayTrue == Spec => []DenialsAreTrue
<1>1. IInv /\ HistoryTrue => DenialsAreTrue
    <2> SUFFICES ASSUME IInv, HistoryTrue, NEW c \in Call,
                        audit[c] = "DENIED" \/ (call[c].pc = "done" /\ call[c].code \in Denials),
                        NEW e \in events, e.by = c
                 PROVE  FALSE
        BY DEF DenialsAreTrue
    <2>1. Cmd(c).kind = "REVOKE" => audit[c] = "COMMITTED" BY DEF HistoryTrue, RecordsTrue
    <2>2. audit[c] = "DENIED" => Cmd(c).kind = "REVOKE" BY DEF HistoryTrue, RecordsTrue
    <2>3. CASE call[c].pc = "done" /\ call[c].code \in Denials /\ audit[c] # "DENIED"
        <3>1. Quiet(c) BY <2>3 DEF HistoryTrue, LocalsTrue, LocalTrue
        <3> QED BY <3>1 DEF Quiet
    <2> QED BY <2>1, <2>2, <2>3
<1> QED BY <1>1, HistoryInvariance, PTL

\* A call that answers OK has its command stored, and it stays stored.
THEOREM SuccessesStayTrue == Spec => []SuccessesAreTrue
<1>1. IInv /\ HistoryTrue => SuccessesAreTrue
    BY DEF HistoryTrue, LocalsTrue, LocalTrue, Success, SuccessesAreTrue, Cmd
<1> QED BY <1>1, HistoryInvariance, PTL

\* A fence leaves everything its release asks for, and nothing comes between.
THEOREM FencesCanFinish == Spec => []ReleaseCanFinish
<1>1. IInv /\ HistoryTrue => ReleaseCanFinish
    <2> SUFFICES ASSUME IInv, HistoryTrue, claim.status = "RELEASING"
                 PROVE  claim.fence \in progress \ done /\ ReleaseDenial(claim.fence) = "none"
        BY DEF ReleaseCanFinish
    <2>1. PICK m : m = claim.fence OBVIOUS
    <2>2. /\ m \in progress /\ m \notin done /\ m.root = claim.root
          /\ epoch[m.root] = m.epoch + 1
          /\ ReceiptIsExact(m) /\ ProgressEvidenceExact(m) /\ FenceIsHead(m)
        BY <2>1 DEF HistoryTrue, FenceWhole
    <2>3. m.root \in Root /\ epoch[m.root] > 0 BY <2>2 DEF HistoryTrue, ResultsTrue
    <2>4. claim.root > 0 BY <2>2, <2>3 DEF Root
    <2>5. creator[claim.root] = claim.owner BY <2>4 DEF HistoryTrue, ClaimTrue
    <2>6. creator[claim.root] \in Command
        <3>1. claim.root \in Root /\ claim.root <= claim.root BY <2>2, <2>3 DEF Root
        <3> QED BY <3>1 DEF HistoryTrue, ClaimTrue
    <2>7. Trusted(m)
        BY <2>2, <2>3, <2>5, <2>6, RootConstants
        DEF Trusted, RootExists, BundleCoherent, ClaimMatchesRoot
    <2>8. ProgressIsExact(m) BY <2>1, <2>2 DEF ProgressIsExact
    <2>9. ReleaseDenial(m) = "none" BY <2>2, <2>3, <2>7, <2>8 DEF ReleaseDenial, RootExists
    <2> QED BY <2>1, <2>2, <2>9
<1> QED BY <1>1, HistoryInvariance, PTL

\* One command creates one root, however late it is retried: the service has to
\* leave its snapshot behind before the claim is free again.
THEOREM CreationsAreOnce == Spec => []CreateOnce
<1>1. IInv /\ HistoryTrue => CreateOnce
    <2> SUFFICES ASSUME IInv, HistoryTrue, NEW r \in Root, NEW s \in Root,
                        creator[r] = creator[s], creator[r] # NoCommand, r # s
                 PROVE  FALSE
        BY DEF CreateOnce
    <2>1. claim.root \in Nat /\ r \in Nat /\ s \in Nat
        BY RootConstants DEF IInv, TypeOK, Claims, Root
    <2>2. r <= claim.root /\ s <= claim.root BY <2>1 DEF HistoryTrue, ClaimTrue
    <2>3. creator[r].snapshot \in Nat BY <2>2, RootConstants DEF HistoryTrue, ClaimTrue
    <2>4. CASE r < s
        <3>1. creator[r].snapshot < creator[s].snapshot
            BY <2>2, <2>4 DEF HistoryTrue, ClaimTrue
        <3> QED BY <2>3, <3>1
    <2>5. CASE s < r
        <3>1. creator[s].snapshot < creator[r].snapshot
            BY <2>2, <2>5 DEF HistoryTrue, ClaimTrue
        <3> QED BY <2>3, <3>1
    <2> QED BY <2>1, <2>4, <2>5
<1> QED BY <1>1, HistoryInvariance, PTL
=============================================================================
