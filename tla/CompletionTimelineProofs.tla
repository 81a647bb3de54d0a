---------------------- MODULE CompletionTimelineProofs ----------------------
(***************************************************************************)
(* Proofs about CompletionTimeline for any callers, receipts, epochs,      *)
(* retention and faults.                                                   *)
(*                                                                         *)
(* The argument is about groups.  A causal group is sound when each of its *)
(* verdicts stands on what the timeline holds or on what precedes it in    *)
(* the group.  Adopting a prefix, landing late and starting over keep a    *)
(* group sound, and a whole group is written or nothing; so the chain      *)
(* stays whole, and what a call was promised is in its group until it is   *)
(* in the timeline.                                                        *)
(***************************************************************************)
EXTENDS CompletionTimeline, FiniteSetTheorems, SequenceTheorems, TLAPS

Members(s) == {s[i] : i \in 1 .. Len(s)}

\* What the timeline holds: its events, and those before entry i.
EventAt(i) == Event(entries[i].source, entries[i].body)
EventsTo(n) == {EventAt(k) : k \in 1 .. n}
Stored == EventsTo(head)

IsVerdict(e) == e.source[1] \in {"classification", "revocation"} /\ e.body.status = "COMPLETE"

\* What a verdict stands on.
RevocationBacked(b, S) == b.kind = "REVOCATION" /\ \E x \in S : x.source = <<"evidence", 2>>
DenialBacked(b, S) ==
    /\ b.kind = "STALE_DENIAL"
    /\ \E x \in S : /\ x.source = b.request.subject
                    /\ x.body.outcome = "DENIED" /\ x.body.id = b.request.subject
    /\ \E n \in b.request.epoch + 1 .. MaxEpoch : \E x \in S : x.source = <<"evidence", n>>
PromotionBacked(b, at, S) ==
    /\ b.kind = "PROMOTION"
    /\ \A kind \in {"CONFIGURATION", "PROBE"} :
         \E x \in S : /\ x.source = <<kind, at[2]>>
                      /\ x.body.verdict = "MATCH" /\ x.body.request = b.request
Backed(e, S) ==
    IsVerdict(e) => \/ RevocationBacked(e.body, S)
                    \/ DenialBacked(e.body, S)
                    \/ PromotionBacked(e.body, e.source, S)

\* An event projects a record as its contract admits it, a receipt the one
\* that is stored.
Genuine(e) ==
    /\ e = Event(e.source, e.body) /\ e.source \in Source
    /\ BodyOk(e.source, e.body)
    /\ \A r \in Receipt : e.source = <<"receipt", r>> => e.body = receipt[r]

GroupOk(items) ==
    /\ items \in Seq(Members(items))
    /\ ValidGroup(items)
    /\ \A i, k \in 1 .. Len(items) : items[i].source = items[k].source => i = k
    /\ \A i \in 1 .. Len(items) :
         Genuine(items[i]) /\ Backed(items[i], Stored \cup {items[k] : k \in 1 .. i - 1})

-----------------------------------------------------------------------------
NumbersOk ==
    /\ now \in 1 .. MaxTime /\ faults \in 0 .. MaxFaults
    /\ epoch \in 1 .. MaxEpoch /\ fences \in 0 .. epoch
    /\ opened \in [1 .. MaxEpoch -> Nat] /\ \A e \in 1 .. epoch : opened[e] \in 1 .. now
    /\ revoked \in 0 .. now /\ (revoked # 0 => epoch >= 2)

\* A receipt is written once.
ReceiptOk(r) ==
    \/ receipt[r] = NoReceipt
    \/ /\ receipt[r] \in ReceiptBodies
       /\ receipt[r].id = <<"receipt", r>> /\ receipt[r].action = "PROMOTE_CANDIDATE"
       /\ receipt[r].observed <= epoch /\ receipt[r].updated <= now
ReceiptsOk == DOMAIN receipt = Receipt /\ \A r \in Receipt : ReceiptOk(r)

\* An entry is where its source's identity says, linked to the one before it,
\* and its raw record stands until a deletion receipt takes its place.
EntryInPlace(i) ==
    /\ DOMAIN entries[i] = {"source", "body", "at", "prev"}
    /\ entries[i].at \in 1 .. now
    /\ entries[i].prev = IF i = 1 THEN NoSource ELSE entries[i - 1].source
    /\ Genuine(EventAt(i)) /\ Backed(EventAt(i), EventsTo(i - 1))
    /\ identity[entries[i].source] = i
ChainOk ==
    /\ head \in Nat /\ entries \in Seq(Members(entries)) /\ Len(entries) = head
    /\ identity \in [Source -> 0 .. head]
    /\ \A i \in 1 .. head : EntryInPlace(i)
    /\ \A s \in Source : identity[s] # 0 => entries[identity[s]].source = s

RawOk ==
    /\ raw \in [Source -> Nat] /\ tomb \in [Source -> Nat]
    /\ \A s \in Source :
         IF identity[s] = 0 THEN raw[s] = 0 /\ tomb[s] = 0
         ELSE \/ raw[s] = Expires(s) /\ tomb[s] = 0
              \/ raw[s] = 0 /\ tomb[s] \in Expires(s) .. now

\* The place of an append: what it found is stored, what it adopts is a prefix.
PlaceOk(j) ==
    /\ j.pc = "read" => Len(j.seen) < Len(j.items) /\ j.adopt = 0
    /\ j.pc = "commit" => j.seen = <<>> /\ j.adopt = 0 /\ j.at \in 1 .. now
    /\ j.pc = "adopt" =>
         /\ Len(j.seen) = Len(j.items)
         /\ \E n \in 1 .. Len(j.seen) :
              j.adopt \in 1 .. n /\ \A i \in 1 .. Len(j.seen) : j.seen[i] = (i <= n)
    /\ j.pc \in {"read", "adopt", "commit"} =>
         /\ GroupOk(j.items) /\ j.seen \in Seq(BOOLEAN)
         /\ \A i \in 1 .. Len(j.seen) : j.seen[i] => j.items[i] \in Stored
         /\ j.one => Len(j.items) = 1
    /\ j.pc \in {"idle", "done"} => j.seen = <<>> /\ j.items = <<>> /\ j.adopt = 0

JobShape == {"pc", "items", "seen", "again", "why", "adopt", "at", "out", "one"}
JobInv(j) ==
    /\ DOMAIN j = JobShape
    /\ j.pc \in {"idle", "read", "adopt", "commit", "done"}
    /\ j.why \in {"first", "refused", "contention", "error"}
    /\ j.out \in {"none", "recorded", "conflict", "unavailable", "unknown"}
    /\ (j.out = "none") = (j.pc # "done")
    /\ j.again \in BOOLEAN /\ j.one \in BOOLEAN
    /\ PlaceOk(j)
JobsOk == DOMAIN job = Caller /\ \A c \in Caller : JobInv(job[c])

LateOk == \A p \in late : GroupOk(p.items) /\ p.at \in 1 .. now

\* A sweep deletes only what had expired when it began.
SweepOk ==
    /\ DOMAIN sweep = {"pc", "at", "todo"} /\ sweep.pc \in {"idle", "delete"}
    /\ sweep.pc = "delete" =>
         /\ sweep.at \in 1 .. now
         /\ sweep.todo \in Seq(Source) /\ sweep.todo # <<>>
         /\ \A i \in 1 .. Len(sweep.todo) : /\ identity[sweep.todo[i]] # 0
                                            /\ Expires(sweep.todo[i]) <= sweep.at

\* An export: what it found retired had expired, and it finds fault with its
\* page only for an entry whose raw record was still there when it fixed its time.
Exports ==
    [pc : {"idle", "clock", "read", "done"}, after : Nat, upto : Nat, at : Nat,
     todo : SUBSET (Nat \X {"raw", "receipt"}), good : BOOLEAN, retired : SUBSET Nat,
     out : {"none", "exported", "corrupt", "unavailable"}]
Page(e) == e.after + 1 .. e.upto
Expired(i, at) == at >= entries[i].at + Retention
Retired(i) == tomb[entries[i].source] # 0
Excused(e) == \E i \in Page(e) \ e.retired : Expired(i, e.at) \/ Retired(i)
PlaceInPage(e) ==
    /\ e.after <= e.upto /\ e.upto <= head /\ e.at <= now
    /\ e.todo \subseteq Page(e) \X {"raw", "receipt"} /\ e.retired \subseteq Page(e)
    /\ (e.out = "none") = (e.pc # "done")
    /\ e.pc \in {"idle", "clock"} => e.todo = {} /\ e.retired = {} /\ e.good
ExportInv(e) ==
    /\ PlaceInPage(e)
    /\ \A i \in e.retired : Expired(i, e.at) /\ Retired(i)
    /\ ~ e.good \/ e.out = "corrupt" => Excused(e)
ExportsOk == export \in [Caller -> Exports] /\ \A c \in Caller : ExportInv(export[c])

-----------------------------------------------------------------------------
\* The sources that are recorded; with those of the group in its hands, the
\* ones a call will have recorded.  A call whose append failed has nothing.
Known == {s \in Source : identity[s] # 0}
InHand(c) == Known \cup Sources(job[c].items)
Lost(c) == job[c].pc = "done" /\ job[c].out # "recorded"

\* What the caller is promised, by the kind of its call.
Promise(c, w, S) ==
    /\ w.kind = "revoke" => /\ <<"evidence", 2>> \in S /\ <<"operator", c>> \in S
                            /\ \E n \in 0 .. fences : <<"revocation", n>> \in S
    /\ w.kind = "denial" => w.of.id \in S /\ <<"classification", c>> \in S
    /\ w.kind = "complete" => <<"classification", c>> \in S

ProofOk(w) ==
    \/ w.proof = NoAuthorityProof
    \/ w.proof = AuthorityProof("EPOCH_ADVANCEMENT", w.of.observed, w.request.started)

OfOk(w) == \E r \in Receipt : w.of = receipt[r] /\ receipt[r] # NoReceipt

\* What a call has in hand at each of its places.
WorkShape == {"pc", "kind", "of", "request", "proof", "configuration", "probe", "out"}
WorkTyped(w) ==
    /\ DOMAIN w = WorkShape
    /\ w.pc \in {"idle", "authority", "observe", "classify", "record", "route", "done"}
    /\ w.kind \in {"none", "revoke", "denial", "complete"}
    /\ ValidEvidence(w.configuration) /\ w.configuration.kind = "CONFIGURATION"
    /\ ValidEvidence(w.probe) /\ w.probe.kind = "PROBE"
WorkFits(w) ==
    /\ w.kind = "none" => w.pc = "idle"
    /\ w.kind = "revoke" => revoked # 0 /\ w.pc \in {"classify", "record", "route", "done"}
    /\ w.kind \in {"denial", "complete"} => OfOk(w)
    /\ w.kind = "denial" /\ w.pc \notin {"authority", "done"} =>
         /\ w.request = StaleDenialRequest(w.of, w.request.started)
         /\ w.request.started \in 1 .. now /\ ProofOk(w)
    /\ w.kind = "complete" /\ w.pc # "done" =>
         /\ w.request = ReceiptRequest(w.of, w.request.started)
         /\ w.request.started \in 1 .. now /\ w.pc # "authority"
PromiseKept(c, w) ==
    /\ w.pc = "record" => Lost(c) \/ Promise(c, w, InHand(c))
    /\ w.pc = "route" \/ (w.pc = "done" /\ w.out = "ok") => Promise(c, w, Known)
CallOk(c, w) == WorkTyped(w) /\ WorkFits(w) /\ PromiseKept(c, w)

CallsOk == DOMAIN work = Caller /\ \A c \in Caller : CallOk(c, work[c])

\* The inductive invariant.
IInv == /\ NumbersOk /\ ReceiptsOk
        /\ ChainOk /\ RawOk
        /\ JobsOk /\ LateOk /\ SweepOk
        /\ CallsOk

-----------------------------------------------------------------------------
\* Sequences and numbers.

LEMMA SeqFacts ==
    ASSUME NEW s, s \in Seq(Members(s))
    PROVE  /\ Len(s) \in Nat /\ DOMAIN s = 1 .. Len(s)
           /\ s = <<>> <=> Len(s) = 0
<1> DEFINE S == Members(s)
<1>1. s \in Seq(S)
  OBVIOUS
<1> HIDE DEF S
<1>2. QED
  BY <1>1, LenProperties, EmptySeq

LEMMA SeqOfMembers ==
    ASSUME NEW S, NEW s \in Seq(S)
    PROVE  s \in Seq(Members(s))
<1>1. Len(s) \in Nat /\ s \in [1 .. Len(s) -> S]
  BY LenProperties, ElementOfSeq
<1>2. s \in [1 .. Len(s) -> Members(s)]
  BY <1>1 DEF Members
<1>3. QED
  BY <1>1, <1>2, SeqDef

LEMMA SingleFacts ==
    ASSUME NEW e
    PROVE  LET s == <<e>>
           IN /\ s \in Seq(Members(s)) /\ Len(s) = 1 /\ s[1] = e
              /\ Sources(s) = {e.source}
<1> DEFINE s == <<e>>
<1>1. s \in Seq({e}) /\ Len(s) = 1 /\ s[1] = e
  OBVIOUS
<1>2. s \in Seq(Members(s))
  BY <1>1, SeqOfMembers
<1>3. Sources(s) = {e.source}
  BY <1>1 DEF Sources
<1>4. QED
  BY <1>1, <1>2, <1>3

LEMMA ConcatFacts ==
    ASSUME NEW s, NEW t, s \in Seq(Members(s)), t \in Seq(Members(t))
    PROVE  /\ s \o t \in Seq(Members(s \o t)) /\ Len(s \o t) = Len(s) + Len(t)
           /\ \A i \in 1 .. Len(s) : (s \o t)[i] = s[i]
           /\ \A i \in 1 .. Len(t) : (s \o t)[Len(s) + i] = t[i]
           /\ Sources(s \o t) = Sources(s) \cup Sources(t)
           /\ Members(s \o t) = Members(s) \cup Members(t)
<1>0. PICK u : u = s \o t
  OBVIOUS
<1> DEFINE S == Members(s) \cup Members(t)
<1>1. s \in Seq(S) /\ t \in Seq(S)
  <2>1. \A r, A : r \in Seq(A) => Len(r) \in Nat /\ r \in [1 .. Len(r) -> A]
    BY LenProperties, ElementOfSeq
  <2>2. s \in [1 .. Len(s) -> S] /\ t \in [1 .. Len(t) -> S]
    BY <2>1 DEF Members
  <2>3. QED
    BY <2>1, <2>2, SeqDef
<1> HIDE DEF S
<1>2. u \in Seq(S) /\ Len(u) = Len(s) + Len(t)
  BY <1>0, <1>1, ConcatProperties
<1>3. \A i \in 1 .. Len(u) : u[i] = IF i <= Len(s) THEN s[i] ELSE t[i - Len(s)]
  BY <1>0, <1>1, ConcatProperties
<1>4. Len(s) \in Nat /\ Len(t) \in Nat
  BY <1>1, LenProperties
<1>5. u \in Seq(Members(u))
  BY <1>2, SeqOfMembers
<1>6. \A i \in 1 .. Len(s) : u[i] = s[i]
  BY <1>2, <1>3, <1>4
<1>7. \A i \in 1 .. Len(t) : u[Len(s) + i] = t[i]
  <2>1. ASSUME NEW i \in 1 .. Len(t)
        PROVE  Len(s) + i \in 1 .. Len(u) /\ ~ (Len(s) + i <= Len(s)) /\ Len(s) + i - Len(s) = i
    BY <1>2, <1>4
  <2>2. QED
    BY <1>3, <2>1
<1>8. \A i \in 1 .. Len(u) : i \in 1 .. Len(s) \/ i - Len(s) \in 1 .. Len(t)
  BY <1>2, <1>4
<1>9. \A i \in 1 .. Len(s) : i \in 1 .. Len(u)
  BY <1>2, <1>4
<1>10. \A i \in 1 .. Len(t) : Len(s) + i \in 1 .. Len(u)
  BY <1>2, <1>4
<1>11. \A i \in 1 .. Len(u) : (\E k \in 1 .. Len(s) : u[i] = s[k]) \/ (\E k \in 1 .. Len(t) : u[i] = t[k])
  BY <1>2, <1>3, <1>4, <1>8
<1>12. /\ \A k \in 1 .. Len(s) : \E i \in 1 .. Len(u) : u[i] = s[k]
       /\ \A k \in 1 .. Len(t) : \E i \in 1 .. Len(u) : u[i] = t[k]
  BY <1>6, <1>7, <1>9, <1>10
<1>13. Members(u) = Members(s) \cup Members(t) /\ Sources(u) = Sources(s) \cup Sources(t)
  <2>1. Members(u) \subseteq Members(s) \cup Members(t)
    <3>1. ASSUME NEW x \in Members(u)
          PROVE  x \in Members(s) \/ x \in Members(t)
      <4>1. PICK i \in 1 .. Len(u) : x = u[i]
        BY <3>1 DEF Members
      <4>2. (\E k \in 1 .. Len(s) : x = s[k]) \/ (\E k \in 1 .. Len(t) : x = t[k])
        BY <1>11, <4>1
      <4>3. QED
        BY <4>2 DEF Members
    <3>2. QED
      BY <3>1
  <2>2. Members(s) \subseteq Members(u) /\ Members(t) \subseteq Members(u)
    <3>1. ASSUME NEW x, x \in Members(s) \/ x \in Members(t)
          PROVE  x \in Members(u)
      <4>1. (\E k \in 1 .. Len(s) : x = s[k]) \/ (\E k \in 1 .. Len(t) : x = t[k])
        BY <3>1 DEF Members
      <4>2. \E i \in 1 .. Len(u) : x = u[i]
        BY <1>12, <4>1
      <4>3. QED
        BY <4>2 DEF Members
    <3>2. QED
      BY <3>1
  <2>3. Sources(u) \subseteq Sources(s) \cup Sources(t)
    <3>1. ASSUME NEW x \in Sources(u)
          PROVE  x \in Sources(s) \/ x \in Sources(t)
      <4>1. PICK i \in 1 .. Len(u) : x = u[i].source
        BY <3>1 DEF Sources
      <4>2. (\E k \in 1 .. Len(s) : x = s[k].source) \/ (\E k \in 1 .. Len(t) : x = t[k].source)
        BY <1>11, <4>1
      <4>3. QED
        BY <4>2 DEF Sources
    <3>2. QED
      BY <3>1
  <2>4. Sources(s) \subseteq Sources(u) /\ Sources(t) \subseteq Sources(u)
    <3>1. ASSUME NEW x, x \in Sources(s) \/ x \in Sources(t)
          PROVE  x \in Sources(u)
      <4>1. (\E k \in 1 .. Len(s) : x = s[k].source) \/ (\E k \in 1 .. Len(t) : x = t[k].source)
        BY <3>1 DEF Sources
      <4>2. \E i \in 1 .. Len(u) : x = u[i].source
        BY <1>12, <4>1
      <4>3. QED
        BY <4>2 DEF Sources
    <3>2. QED
      BY <3>1
  <2>5. QED
    BY <2>1, <2>2, <2>3, <2>4
<1>14. QED
  BY <1>0, <1>2, <1>5, <1>6, <1>7, <1>13

LEMMA TailFacts ==
    ASSUME NEW s, s \in Seq(Members(s)), NEW n \in 0 .. Len(s), NEW u,
           u = SubSeq(s, n + 1, Len(s))
    PROVE  /\ u \in Seq(Members(u)) /\ Len(u) = Len(s) - n
           /\ \A i \in 1 .. Len(u) : u[i] = s[n + i] /\ n + i \in 1 .. Len(s)
<1> DEFINE S == Members(s)
<1>1. s \in Seq(S)
  OBVIOUS
<1> HIDE DEF S
<1>2. Len(s) \in Nat
  BY <1>1, LenProperties
<1>3. n + 1 \in 1 .. Len(s) + 1 /\ Len(s) \in n .. Len(s) /\ Len(s) \in Nat
  BY <1>2
<1>4. u \in Seq(S) /\ Len(u) = Len(s) - n /\ \A i \in 1 .. Len(s) - n : u[i] = s[n + i]
  BY <1>1, <1>2
<1>5. u \in Seq(Members(u))
  BY <1>4, SeqOfMembers
<1>6. QED
  BY <1>2, <1>4, <1>5

\* A set of numbers has a least one.
LEMMA NatMin ==
    ASSUME NEW T \in SUBSET Nat, T # {}
    PROVE  \E m \in T : \A n \in T : m <= n
<1> DEFINE R == OpToRel(<, Nat)
<1>1. IsWellFoundedOn(R, Nat)
  BY NatLessThanWellFounded
<1>2. \A x, y \in Nat : y < x => <<y, x>> \in R
  BY DEF OpToRel
<1> HIDE DEF R
<1>3. \E x \in T : \A y \in T : ~(<<y, x>> \in R)
  BY <1>1, WFMin
<1>4. PICK x \in T : \A y \in T : ~(<<y, x>> \in R)
  BY <1>3
<1>5. \A y \in T : x \in Nat /\ y \in Nat /\ ~(y < x)
  BY <1>2, <1>4
<1>6. \A y \in T : x <= y
  BY <1>5
<1>7. QED
  BY <1>6

\* The first absent one, as an append looks for it.
LEMMA LeastChosen ==
    ASSUME NEW T \in SUBSET Nat, T # {}, NEW m, m = CHOOSE i \in T : \A k \in T : i <= k
    PROVE  m \in T /\ \A k \in T : m <= k
  BY NatMin

LEMMA IntervalCount ==
    ASSUME NEW n \in Nat PROVE IsFiniteSet(1 .. n) /\ Cardinality(1 .. n) = n
  BY FS_Interval

\* The found ones of a prefix are as many as the prefix is long.
LEMMA PrefixCount ==
    ASSUME NEW seen \in Seq(BOOLEAN), NEW n \in 0 .. Len(seen),
           \A i \in 1 .. Len(seen) : seen[i] = (i <= n)
    PROVE  Cardinality({i \in 1 .. Len(seen) : seen[i]}) = n
<1>1. Len(seen) \in Nat /\ n \in Nat
  BY LenProperties
<1>2. {i \in 1 .. Len(seen) : seen[i]} = 1 .. n
  BY <1>1
<1>3. Cardinality(1 .. n) = n
  BY <1>1, IntervalCount
<1>4. QED
  BY <1>2, <1>3

\* As many sources as events: every event has a source of its own.
LEMMA SourcesDistinct ==
    ASSUME NEW s, s \in Seq(Members(s)), Cardinality(Sources(s)) = Len(s)
    PROVE  \A i, k \in 1 .. Len(s) : s[i].source = s[k].source => i = k
<1>1. Len(s) \in Nat
  BY SeqFacts
<1> DEFINE f == [i \in 1 .. Len(s) |-> s[i].source]
<1>2. f \in [1 .. Len(s) -> Sources(s)]
  BY DEF Sources
<1>3. f \in Surjection(1 .. Len(s), Sources(s))
  <2>1. \A t \in Sources(s) : \E i \in 1 .. Len(s) : f[i] = t
    BY DEF Sources
  <2> HIDE DEF f
  <2>2. QED
    BY <1>2, <2>1 DEF Surjection
<1>4. IsFiniteSet(1 .. Len(s)) /\ Cardinality(1 .. Len(s)) = Len(s)
  BY <1>1, IntervalCount
<1>5. f \in Injection(1 .. Len(s), Sources(s))
  <2> HIDE DEF f
  <2>1. QED
    BY <1>3, <1>4, FS_SurjSameCardinalityImpliesInj
<1>6. \A i, k \in 1 .. Len(s) : f[i] = f[k] => i = k
  <2>1. DOMAIN f = 1 .. Len(s)
    OBVIOUS
  <2> HIDE DEF f
  <2>2. QED
    BY <1>5, <2>1 DEF Injection, IsInjective
<1>7. QED
  BY <1>6

\* The place of a source in a group.
LEMMA SourcePlace ==
    ASSUME NEW s, \A i, k \in 1 .. Len(s) : s[i].source = s[k].source => i = k,
           NEW k \in 1 .. Len(s)
    PROVE  (CHOOSE i \in 1 .. Len(s) : s[i].source = s[k].source) = k
  OBVIOUS

\* A finite set in which each member has others behind it, in one order: every
\* rank has its member.
LEMMA EveryRankIsTaken ==
    ASSUME NEW T, IsFiniteSet(T), NEW behind,
           \A i \in T : behind[i] \in SUBSET T /\ i \notin behind[i],
           \A i, k \in T : i # k => i \in behind[k] \/ k \in behind[i],
           \A i, k \in T : i \in behind[k] => behind[i] \in SUBSET behind[k]
    PROVE  \A n \in 1 .. Cardinality(T) : \E i \in T : Cardinality(behind[i]) + 1 = n
<1>4. Cardinality(T) \in Nat
  BY FS_CardinalityType
<1>5. \A i \in T : /\ IsFiniteSet(behind[i]) /\ Cardinality(behind[i]) \in Nat
                   /\ Cardinality(behind[i]) + 1 \in 1 .. Cardinality(T)
  <2>1. ASSUME NEW i \in T
        PROVE  /\ IsFiniteSet(behind[i]) /\ Cardinality(behind[i]) \in Nat
               /\ Cardinality(behind[i]) < Cardinality(T)
               /\ Cardinality(behind[i]) + 1 \in 1 .. Cardinality(T)
    <3>1. behind[i] \in SUBSET T /\ i \notin behind[i]
      OBVIOUS
    <3>2. /\ IsFiniteSet(behind[i]) /\ Cardinality(behind[i]) <= Cardinality(T)
          /\ Cardinality(T) = Cardinality(behind[i]) => T = behind[i]
      BY <3>1, FS_Subset
    <3>3. Cardinality(behind[i]) \in Nat
      BY <3>2, FS_CardinalityType
    <3>4. QED
      BY <1>4, <3>1, <3>2, <3>3
  <2>2. QED
    BY <1>4, <2>1
<1>6. ASSUME NEW i \in T, NEW k \in T, i \in behind[k]
      PROVE  Cardinality(behind[i]) # Cardinality(behind[k])
  <2>1. behind[i] \in SUBSET behind[k] /\ i \in behind[k] /\ i \notin behind[i]
    BY <1>6
  <2>2. IsFiniteSet(behind[k])
    BY <1>5
  <2>3. Cardinality(behind[k]) = Cardinality(behind[i]) => behind[k] = behind[i]
    BY <2>1, <2>2, FS_Subset
  <2>4. QED
    BY <2>1, <2>3
<1> DEFINE f == [i \in T |-> Cardinality(behind[i]) + 1]
           N == 1 .. Cardinality(T)
<1>7. f \in [T -> N] /\ DOMAIN f = T
  BY <1>5
<1>8. \A i, k \in T : f[i] = f[k] => i = k
  <2>1. ASSUME NEW i \in T, NEW k \in T, f[i] = f[k] PROVE i = k
    <3>1. Cardinality(behind[i]) = Cardinality(behind[k])
      <4>1. Cardinality(behind[i]) + 1 = Cardinality(behind[k]) + 1
        BY <2>1
      <4>2. QED
        BY <1>5, <4>1
    <3>2. QED
      BY <1>6, <3>1
  <2>2. QED
    BY <2>1
<1>9. IsFiniteSet(N) /\ Cardinality(T) = Cardinality(N)
  BY <1>4, IntervalCount
<1>10. f \in Surjection(T, N)
  <2> HIDE DEF f, N
  <2>1. f \in Injection(T, N)
    BY <1>7, <1>8 DEF Injection, IsInjective
  <2>2. QED
    BY <1>9, <2>1, FS_Injection
<1>11. \A n \in N : \E i \in T : f[i] = n
  <2> HIDE DEF f, N
  <2>1. QED
    BY <1>10 DEF Surjection
<1>12. QED
  BY <1>11

\* The oldest expired raw records are some of the expired.
LEMMA OldestAreExpired ==
    ASSUME Len(entries) \in Nat, NEW t, ExpiredRaw(t) # {},
           \A i \in 1 .. Len(entries) : raw[entries[i].source] \in Nat
    PROVE  /\ OldestExpired(t) \in Seq(Members(OldestExpired(t))) /\ Len(OldestExpired(t)) > 0
           /\ \A n \in 1 .. Len(OldestExpired(t)) :
                \E i \in ExpiredRaw(t) : OldestExpired(t)[n] = entries[i].source
<1> DEFINE T == ExpiredRaw(t)
           earlier(i, k) == \/ raw[entries[i].source] < raw[entries[k].source]
                            \/ raw[entries[i].source] = raw[entries[k].source] /\ i < k
           behind == [i \in T |-> {k \in T : earlier(k, i)}]
           rank(i) == Cardinality({k \in T : earlier(k, i)}) + 1
           size == IF Cardinality(T) < SweepLimit THEN Cardinality(T) ELSE SweepLimit
<1>1. T \in SUBSET (1 .. Len(entries)) /\ T # {}
  BY DEF ExpiredRaw
<1>2. IsFiniteSet(T)
  BY <1>1, IntervalCount, FS_Subset
<1>3. /\ \A i \in T : ~ earlier(i, i)
      /\ \A i, k \in T : i # k => earlier(i, k) \/ earlier(k, i)
      /\ \A i, k, m \in T : earlier(m, i) /\ earlier(i, k) => earlier(m, k)
  <2>1. \A i \in T : i \in Int /\ raw[entries[i].source] \in Int
    BY <1>1
  <2> HIDE DEF T
  <2>2. QED
    BY <2>1
<1>4. \A i \in T : behind[i] = {k \in T : earlier(k, i)}
  OBVIOUS
<1>5. \A n \in 1 .. Cardinality(T) : \E i \in T : rank(i) = n
  <2> HIDE DEF T, earlier, behind
  <2>1. /\ \A i \in T : behind[i] \in SUBSET T /\ i \notin behind[i]
        /\ \A i, k \in T : i # k => i \in behind[k] \/ k \in behind[i]
        /\ \A i, k \in T : i \in behind[k] => behind[i] \in SUBSET behind[k]
    BY <1>3, <1>4
  <2>2. \A n \in 1 .. Cardinality(T) : \E i \in T : Cardinality(behind[i]) + 1 = n
    BY <1>2, <2>1, EveryRankIsTaken
  <2>3. \A i \in T : rank(i) = Cardinality(behind[i]) + 1
    BY <1>4
  <2> HIDE DEF rank
  <2>4. QED
    BY <2>2, <2>3
<1>6. /\ Cardinality(T) \in Nat /\ Cardinality(T) # 0
      /\ size \in Nat /\ size > 0 /\ size <= Cardinality(T)
  <2> HIDE DEF T
  <2>1. Cardinality(T) \in Nat /\ Cardinality(T) # 0
    BY <1>1, <1>2, FS_CardinalityType, FS_EmptySet
  <2>2. QED
    BY <2>1, TimelineConstants
<1>7. OldestExpired(t) = [n \in 1 .. size |-> entries[CHOOSE i \in T : rank(i) = n].source]
  BY DEF OldestExpired
<1>8. \A n \in 1 .. size : (CHOOSE i \in T : rank(i) = n) \in T
  <2> HIDE DEF T, rank
  <2>1. QED
    BY <1>5, <1>6
<1> DEFINE chosen == [n \in 1 .. size |-> CHOOSE i \in T : rank(i) = n]
           todo == [n \in 1 .. size |-> entries[chosen[n]].source]
<1>9. OldestExpired(t) = todo
  <2> HIDE DEF T, rank, size
  <2>1. QED
    BY <1>7
<1>10. \A n \in 1 .. size : chosen[n] \in T
  <2> HIDE DEF T, rank, size
  <2>1. QED
    BY <1>8
<1> HIDE DEF T, rank, size, chosen
<1>11. Len(todo) = size /\ \A n \in 1 .. size : \E i \in T : todo[n] = entries[i].source
  BY <1>6, <1>10
<1>12. todo \in Seq({entries[i].source : i \in T})
  <2>1. todo \in [1 .. size -> {entries[i].source : i \in T}]
    BY <1>10
  <2>2. QED
    BY <1>6, <2>1, SeqDef
<1> HIDE DEF todo
<1>13. todo \in Seq(Members(todo))
  BY <1>12, SeqOfMembers
<1>14. QED
  BY <1>6, <1>9, <1>11, <1>13 DEF T

-----------------------------------------------------------------------------
\* What is stored stays, and receipts are written once.
Grows ==
    /\ Stored \subseteq Stored'
    /\ \A s \in Source : identity[s] # 0 => identity'[s] # 0 /\ Expires(s)' = Expires(s)
    /\ \A r \in Receipt : receipt[r] # NoReceipt => receipt'[r] = receipt[r]
    /\ now' \in Nat /\ now <= now' /\ fences' \in Nat /\ fences <= fences'
    /\ revoked # 0 => revoked' # 0

\* A receipt's body is not the absent one.
LEMMA BodyIsWritten ==
    ASSUME NEW r, NEW b, BodyOk(<<"receipt", r>>, b)
    PROVE  b \in ReceiptBodies /\ b # NoReceipt
<1>1. b \in ReceiptBodies
  BY DEF BodyOk
<1>2. b.outcome # "ABSENT"
  BY <1>1 DEF ReceiptBodies, Outcomes
<1>3. QED
  BY <1>1, <1>2 DEF NoReceipt

LEMMA GenuineKept ==
    ASSUME \A r \in Receipt : receipt[r] # NoReceipt => receipt'[r] = receipt[r],
           NEW e, Genuine(e)
    PROVE  Genuine(e)'
<1>1. ASSUME NEW r \in Receipt, e.source = <<"receipt", r>>
      PROVE  e.body = receipt'[r]
  <2>1. BodyOk(<<"receipt", r>>, e.body) /\ e.body = receipt[r]
    BY <1>1 DEF Genuine
  <2>2. receipt[r] # NoReceipt
    BY <2>1, BodyIsWritten
  <2>3. QED
    BY <2>1, <2>2
<1>2. QED
  BY <1>1 DEF Genuine

LEMMA BackedMore ==
    ASSUME NEW e, NEW S, NEW T, S \subseteq T, Backed(e, S)
    PROVE  Backed(e, T)
  BY DEF Backed, RevocationBacked, DenialBacked, PromotionBacked

LEMMA GroupKept ==
    ASSUME Grows, NEW items, GroupOk(items)
    PROVE  GroupOk(items)'
<1>1. ASSUME NEW i \in 1 .. Len(items)
      PROVE  Genuine(items[i])' /\ Backed(items[i], Stored' \cup {items[k] : k \in 1 .. i - 1})
  <2>1. Genuine(items[i]) /\ Backed(items[i], Stored \cup {items[k] : k \in 1 .. i - 1})
    BY DEF GroupOk
  <2>2. Genuine(items[i])'
    BY <2>1, GenuineKept DEF Grows
  <2> DEFINE before == {items[k] : k \in 1 .. i - 1}
  <2>3. Stored \cup before \subseteq Stored' \cup before
    BY DEF Grows
  <2> HIDE DEF before
  <2>4. Backed(items[i], Stored' \cup before)
    BY <2>1, <2>3, BackedMore DEF before
  <2>5. QED
    BY <2>2, <2>4 DEF before
<1>2. \A i \in 1 .. Len(items) :
        Backed(items[i], Stored' \cup {items[k] : k \in 1 .. i - 1})
          = Backed(items[i], Stored \cup {items[k] : k \in 1 .. i - 1})'
  BY DEF Backed, RevocationBacked, DenialBacked, PromotionBacked, IsVerdict
<1>3. QED
  BY <1>1, <1>2 DEF GroupOk, ValidGroup

LEMMA JobKept ==
    ASSUME Grows, NumbersOk, NEW j, JobInv(j)
    PROVE  JobInv(j)'
<1>1. GroupOk(j.items) => GroupOk(j.items)'
  BY GroupKept
<1>2. \A t : t \in 1 .. now => t \in 1 .. now'
  BY DEF Grows, NumbersOk
<1>3. \A e : e \in Stored => e \in Stored'
  BY DEF Grows
<1>4. PlaceOk(j)'
  BY <1>1, <1>2, <1>3 DEF JobInv, PlaceOk
<1>5. QED
  BY <1>4 DEF JobInv

\* One job of all changes.
LEMMA JobsKept ==
    ASSUME Grows, NumbersOk, JobsOk, NEW c \in Caller, NEW j, JobInv(j)',
           job' = [job EXCEPT ![c] = j]
    PROVE  JobsOk'
<1>1. DOMAIN job' = Caller /\ job'[c] = j /\ \A d \in Caller : d # c => job'[d] = job[d]
  BY DEF JobsOk
<1>2. ASSUME NEW d \in Caller PROVE JobInv(job[d])'
  <2>1. CASE d = c
    BY <1>1, <2>1
  <2>2. CASE d # c
    <3>1. PICK k : k = job[d]
      OBVIOUS
    <3>2. JobInv(k)'
      BY <3>1, JobKept DEF JobsOk
    <3>3. job'[d] = k
      BY <1>1, <2>2, <3>1
    <3>4. QED
      BY <3>2, <3>3
  <2>3. QED
    BY <2>1, <2>2
<1>3. QED
  BY <1>1, <1>2 DEF JobsOk

LEMMA JobsSame ==
    ASSUME Grows, NumbersOk, JobsOk, job' = job
    PROVE  JobsOk'
<1>1. ASSUME NEW d \in Caller PROVE JobInv(job[d])'
  <2>1. PICK k : k = job[d]
    OBVIOUS
  <2>2. JobInv(k)'
    BY <2>1, JobKept DEF JobsOk
  <2>3. QED
    BY <2>1, <2>2
<1>2. QED
  BY <1>1 DEF JobsOk

LEMMA LateKept ==
    ASSUME Grows, NumbersOk, LateOk, late' \subseteq late
    PROVE  LateOk'
<1>1. ASSUME NEW p \in late' PROVE GroupOk(p.items)' /\ p.at \in 1 .. now'
  <2>1. p \in late
    BY <1>1
  <2>2. GroupOk(p.items) /\ p.at \in 1 .. now
    BY <2>1 DEF LateOk
  <2>3. QED
    BY <2>2, GroupKept DEF Grows, NumbersOk
<1>2. QED
  BY <1>1 DEF LateOk

LEMMA SweepKept ==
    ASSUME Grows, NumbersOk, SweepOk, sweep' = sweep
    PROVE  SweepOk'
<1>1. CASE sweep.pc = "delete"
  <2>1. ASSUME NEW i \in 1 .. Len(sweep.todo)
        PROVE  identity'[sweep.todo[i]] # 0 /\ Expires(sweep.todo[i])' <= sweep.at
    <3>1. PICK s : s = sweep.todo[i]
      OBVIOUS
    <3>2. s \in Source /\ identity[s] # 0 /\ Expires(s) <= sweep.at
      BY <1>1, <3>1 DEF SweepOk
    <3>3. identity'[s] # 0 /\ Expires(s)' = Expires(s)
      BY <3>2 DEF Grows
    <3>4. identity'[s] # 0 /\ Expires(s)' <= sweep.at
      BY <3>2, <3>3
    <3>5. Expires(s)' = Expires(sweep.todo[i])'
      BY <3>1 DEF Expires
    <3>6. QED
      BY <3>1, <3>4, <3>5
  <2>2. QED
    BY <1>1, <2>1 DEF SweepOk, Grows, NumbersOk
<1>2. CASE sweep.pc # "delete"
  BY <1>2 DEF SweepOk
<1>3. QED
  BY <1>1, <1>2

LEMMA KnownGrows ==
    ASSUME Grows PROVE Known \subseteq Known'
  BY DEF Grows, Known

LEMMA WorkKept ==
    ASSUME Grows, NumbersOk, NEW w, WorkFits(w)
    PROVE  WorkFits(w)'
<1>1. OfOk(w) => OfOk(w)'
  BY DEF OfOk, Grows
<1>2. \A t : t \in 1 .. now => t \in 1 .. now'
  BY DEF Grows, NumbersOk
<1>3. revoked # 0 => revoked' # 0
  BY DEF Grows
<1>4. QED
  BY <1>1, <1>2, <1>3 DEF WorkFits

LEMMA PromiseStays ==
    ASSUME Grows, NumbersOk, NEW c, NEW w, PromiseKept(c, w),
           w.pc = "record" => \/ Lost(c)'
                              \/ ~ Lost(c) /\ InHand(c) \subseteq InHand(c)'
    PROVE  PromiseKept(c, w)'
<1>1. \A n : n \in 0 .. fences => n \in 0 .. fences'
  BY DEF Grows, NumbersOk
<1>2. ASSUME NEW S, NEW T, S \subseteq T, Promise(c, w, S)
      PROVE  /\ w.kind = "revoke" => /\ <<"evidence", 2>> \in T /\ <<"operator", c>> \in T
                                     /\ \E n \in 0 .. fences' : <<"revocation", n>> \in T
             /\ w.kind = "denial" => w.of.id \in T /\ <<"classification", c>> \in T
             /\ w.kind = "complete" => <<"classification", c>> \in T
  BY <1>1, <1>2 DEF Promise
<1>3. w.pc = "record" => Lost(c)' \/ Promise(c, w, InHand(c))'
  <2>1. CASE w.pc = "record" /\ ~ Lost(c) /\ InHand(c) \subseteq InHand(c)'
    <3>1. Promise(c, w, InHand(c))
      BY <2>1 DEF PromiseKept
    <3>2. PICK T : T = InHand(c)'
      OBVIOUS
    <3>3. InHand(c) \subseteq T
      BY <2>1, <3>2
    <3>4. QED
      BY <1>2, <3>1, <3>2, <3>3 DEF Promise
  <2>2. QED
    BY <2>1
<1>4. w.pc = "route" \/ (w.pc = "done" /\ w.out = "ok") => Promise(c, w, Known)'
  <2>1. CASE w.pc = "route" \/ (w.pc = "done" /\ w.out = "ok")
    <3>1. Promise(c, w, Known)
      BY <2>1 DEF PromiseKept
    <3>2. PICK T : T = Known'
      OBVIOUS
    <3>3. Known \subseteq T
      BY <3>2, KnownGrows
    <3>4. QED
      BY <1>2, <3>1, <3>2, <3>3 DEF Promise
  <2>2. QED
    BY <2>1
<1>5. QED
  BY <1>3, <1>4 DEF PromiseKept

\* No call moves; what the appends drop from their hands is recorded.
LEMMA CallsSame ==
    ASSUME Grows, NumbersOk, CallsOk, work' = work,
           \A c \in Caller :
             work[c].pc = "record" => \/ Lost(c)'
                                      \/ ~ Lost(c) /\ InHand(c) \subseteq InHand(c)'
    PROVE  CallsOk'
<1>1. ASSUME NEW d \in Caller PROVE CallOk(d, work[d])'
  <2>1. PICK w : w = work[d]
    OBVIOUS
  <2>2. WorkTyped(w) /\ WorkFits(w) /\ PromiseKept(d, w)
    BY <2>1 DEF CallsOk, CallOk
  <2>3. WorkFits(w)' /\ PromiseKept(d, w)'
    BY <2>1, <2>2, WorkKept, PromiseStays
  <2>4. WorkTyped(w)'
    BY <2>2 DEF WorkTyped
  <2>5. QED
    BY <2>1, <2>3, <2>4 DEF CallOk
<1>2. QED
  BY <1>1 DEF CallsOk

\* One call moves; the appends of the others stay in their hands.
LEMMA CallsStep ==
    ASSUME Grows, NumbersOk, CallsOk, NEW c \in Caller, NEW w, CallOk(c, w)',
           work' = [work EXCEPT ![c] = w],
           \A d \in Caller : d # c => job'[d] = job[d]
    PROVE  CallsOk'
<1>1. DOMAIN work' = Caller /\ work'[c] = w /\ \A d \in Caller : d # c => work'[d] = work[d]
  BY DEF CallsOk
<1>2. ASSUME NEW d \in Caller, d # c PROVE CallOk(d, work[d])'
  <2>1. PICK v : v = work[d]
    OBVIOUS
  <2>2. WorkTyped(v) /\ WorkFits(v) /\ PromiseKept(d, v)
    BY <2>1 DEF CallsOk, CallOk
  <2>3. Lost(d)' = Lost(d) /\ InHand(d) \subseteq InHand(d)'
    BY <1>2, KnownGrows DEF Lost, InHand
  <2>4. v.pc = "record" => (Lost(d)' \/ (~ Lost(d) /\ InHand(d) \subseteq InHand(d)'))
    BY <2>3
  <2>5. WorkFits(v)' /\ PromiseKept(d, v)'
    BY <2>2, <2>4, WorkKept, PromiseStays
  <2>6. WorkTyped(v)'
    BY <2>2 DEF WorkTyped
  <2>7. work'[d] = v
    BY <1>1, <1>2, <2>1
  <2>8. CallOk(d, v)'
    BY <2>5, <2>6 DEF CallOk
  <2>9. QED
    BY <2>7, <2>8
<1>3. QED
  BY <1>1, <1>2 DEF CallsOk

-----------------------------------------------------------------------------
\* Steps that write no entry.

LEMMA ChainKept ==
    ASSUME ChainOk, NumbersOk, now' \in Nat, now <= now',
           \A r \in Receipt : receipt[r] # NoReceipt => receipt'[r] = receipt[r],
           UNCHANGED <<head, entries, identity>>
    PROVE  /\ ChainOk'
           /\ Stored' = Stored /\ Known' = Known
           /\ \A s : Expires(s)' = Expires(s)
<1>1. \A i : EventAt(i)' = EventAt(i)
  BY DEF EventAt
<1>2. \A n : EventsTo(n)' = EventsTo(n)
  BY <1>1 DEF EventsTo
<1>3. \A i : Genuine(EventAt(i)) => Genuine(EventAt(i))'
  <2>1. ASSUME NEW i, Genuine(EventAt(i)) PROVE Genuine(EventAt(i))'
    <3>1. PICK e : e = EventAt(i)
      OBVIOUS
    <3>2. Genuine(e)'
      BY <2>1, <3>1, GenuineKept
    <3>3. e = EventAt(i)'
      BY <1>1, <3>1
    <3>4. QED
      BY <3>2, <3>3
  <2>2. QED
    BY <2>1
<1>4. \A i : Backed(EventAt(i), EventsTo(i - 1)) => Backed(EventAt(i), EventsTo(i - 1))'
  BY <1>1, <1>2 DEF Backed, IsVerdict, RevocationBacked, DenialBacked, PromotionBacked
<1>5. \A i \in 1 .. head : EntryInPlace(i)'
  <2>1. ASSUME NEW i \in 1 .. head PROVE EntryInPlace(i)'
    <3>1. EntryInPlace(i)
      BY DEF ChainOk
    <3>2. entries[i].at \in 1 .. now'
      BY <3>1 DEF EntryInPlace, NumbersOk
    <3>3. QED
      BY <1>3, <1>4, <3>1, <3>2 DEF EntryInPlace
  <2>2. QED
    BY <2>1
<1>6. ChainOk'
  BY <1>5 DEF ChainOk, Members
<1>7. Stored' = Stored /\ Known' = Known /\ \A s : Expires(s)' = Expires(s)
  BY <1>2 DEF Stored, Known, Expires
<1>8. QED
  BY <1>6, <1>7

LEMMA RawKept ==
    ASSUME RawOk, NumbersOk, now' \in Nat, now <= now', ChainOk,
           UNCHANGED <<head, entries, identity, raw, tomb>>
    PROVE  RawOk'
<1>1. ASSUME NEW s \in Source, identity[s] # 0
      PROVE  \/ raw'[s] = Expires(s)' /\ tomb'[s] = 0
             \/ raw'[s] = 0 /\ tomb'[s] \in Expires(s)' .. now'
  <2>1. Expires(s)' = Expires(s)
    BY DEF Expires
  <2>2. tomb[s] \in Expires(s) .. now => tomb[s] \in Expires(s) .. now'
    BY DEF NumbersOk
  <2>3. QED
    BY <1>1, <2>1, <2>2 DEF RawOk
<1>2. QED
  BY <1>1 DEF RawOk

LEMMA Unmoved ==
    ASSUME ChainOk, NumbersOk, now' \in Nat, now <= now',
           \A r \in Receipt : receipt[r] # NoReceipt => receipt'[r] = receipt[r],
           fences' \in Nat, fences <= fences', revoked # 0 => revoked' # 0,
           UNCHANGED <<head, entries, identity>>
    PROVE  Grows /\ ChainOk' /\ Known' = Known
<1>1. ChainOk' /\ Stored' = Stored /\ Known' = Known /\ \A s : Expires(s)' = Expires(s)
  BY ChainKept
<1>2. QED
  BY <1>1 DEF Grows

LEMMA FaultsCounted ==
    ASSUME NumbersOk, Fault \/ NoFault
    PROVE  faults' \in 0 .. MaxFaults
  BY TimelineConstants DEF NumbersOk, Fault, NoFault

\* A step of an append that writes no entry.
LEMMA JobStep ==
    ASSUME IInv, NEW c \in Caller, NEW j, JobInv(j), job' = [job EXCEPT ![c] = j],
           UNCHANGED <<now, head, entries, identity, wvars>>, late' = late, sweep' = sweep,
           RawOk', faults' \in 0 .. MaxFaults,
           \/ j.pc = "done" /\ j.out # "recorded"
           \/ ~ Lost(c) /\ Sources(job[c].items) \subseteq Known \cup Sources(j.items)
    PROVE  IInv'
<1>1. NumbersOk /\ ChainOk /\ JobsOk /\ CallsOk
  BY DEF IInv
<1>2. now \in Nat /\ fences \in Nat /\ UNCHANGED <<receipt, fences, revoked, work, epoch, opened>>
  BY <1>1 DEF NumbersOk, wvars
<1>3. Grows /\ ChainOk' /\ Known' = Known
  BY <1>1, <1>2, Unmoved
<1>4. JobInv(j)'
  BY <1>1, <1>3, JobKept
<1>5. JobsOk'
  BY <1>1, <1>3, <1>4, JobsKept
<1>6. job'[c] = j /\ \A d \in Caller : d # c => job'[d] = job[d]
  BY <1>1 DEF JobsOk
<1>7. ASSUME NEW d \in Caller
      PROVE  \/ Lost(d)'
             \/ ~ Lost(d) /\ InHand(d) \subseteq InHand(d)'
  <2>1. CASE d # c
    BY <1>3, <1>6, <2>1 DEF Lost, InHand
  <2>2. CASE d = c /\ j.pc = "done" /\ j.out # "recorded"
    BY <1>6, <2>2 DEF Lost
  <2>3. CASE d = c /\ ~ Lost(c) /\ Sources(job[c].items) \subseteq Known \cup Sources(j.items)
    BY <1>3, <1>6, <2>3 DEF InHand
  <2>4. QED
    BY <2>1, <2>2, <2>3
<1>8. CallsOk'
  BY <1>1, <1>2, <1>3, <1>7, CallsSame
<1>9. LateOk' /\ SweepOk'
  BY <1>1, <1>3, LateKept, SweepKept DEF IInv
<1>10. NumbersOk' /\ ReceiptsOk'
  BY <1>2 DEF IInv, NumbersOk, ReceiptsOk, ReceiptOk
<1>11. QED
  BY <1>3, <1>5, <1>8, <1>9, <1>10 DEF IInv

-----------------------------------------------------------------------------
\* Looking for a group, and adopting what is there.

LEMMA FoundIsStored ==
    ASSUME ChainOk, NEW e, Genuine(e)
    PROVE  /\ identity[e.source] # 0 /\ EntryMatches(e) => e \in Stored
           /\ ReadExistingAppend(e) \in {"absent", "same", "conflict"}
           /\ ReadExistingAppend(e) = "same" => e \in Stored
           /\ e \in Stored => e.source \in Known /\ e.source \in Source
<1>1. e.source \in Source /\ e = Event(e.source, e.body) /\ head \in Nat
  BY DEF Genuine, ChainOk
<1>2. identity[e.source] \in 0 .. head
  BY <1>1 DEF ChainOk
<1>3. identity[e.source] # 0 /\ EntryMatches(e) => e \in Stored
  <2>1. ASSUME identity[e.source] # 0, EntryMatches(e) PROVE e \in Stored
    <3>1. PICK i : i = identity[e.source]
      OBVIOUS
    <3>2. i \in 1 .. head /\ entries[i].source = e.source /\ entries[i].body = e.body
      BY <1>1, <1>2, <2>1, <3>1 DEF ChainOk, EntryMatches
    <3>3. EventAt(i) = e
      BY <1>1, <3>2 DEF EventAt
    <3>4. QED
      BY <3>2, <3>3 DEF Stored, EventsTo
  <2>2. QED
    BY <2>1
<1>4. /\ ReadExistingAppend(e) \in {"absent", "same", "conflict"}
      /\ ReadExistingAppend(e) = "same" => identity[e.source] # 0 /\ EntryMatches(e)
  BY <1>1, <1>2 DEF ReadExistingAppend
<1>5. e \in Stored => identity[e.source] # 0
  <2>1. ASSUME e \in Stored PROVE identity[e.source] # 0
    <3>1. PICK i \in 1 .. head : e = EventAt(i)
      BY <2>1 DEF Stored, EventsTo
    <3>2. identity[entries[i].source] = i
      BY DEF ChainOk, EntryInPlace
    <3>3. e.source = entries[i].source
      BY <3>1 DEF EventAt, Event
    <3>4. QED
      BY <1>1, <3>2, <3>3
  <2>2. QED
    BY <2>1
<1>6. QED
  BY <1>1, <1>3, <1>4, <1>5 DEF Known

LEMMA AnsweredOk ==
    ASSUME NEW out \in {"recorded", "conflict", "unavailable", "unknown"}
    PROVE  /\ JobInv(Answered(out)) /\ Answered(out).pc = "done" /\ Answered(out).out = out
           /\ Answered(out).items = <<>>
  BY DEF JobInv, JobShape, PlaceOk, Answered, NoJob

\* What was found of a group is a prefix that is stored, or the append looks
\* again, commits, or gives up; it keeps the group in its hands until then.
LEMMA FoundPrefix ==
    ASSUME NumbersOk, NEW j, JobInv(j), j.pc = "read",
           NEW seen \in Seq(BOOLEAN), Len(seen) = Len(j.items), Len(seen) > 0,
           \A i \in 1 .. Len(seen) : seen[i] => j.items[i] \in Stored
    PROVE  LET next == AdoptExactPrefix(j, seen)
           IN /\ JobInv(next)
              /\ next.items = j.items \/ (next.pc = "done" /\ next.out # "recorded")
<1> DEFINE next == AdoptExactPrefix(j, seen)
           absent == {i \in 1 .. Len(seen) : ~ seen[i]}
           m == CHOOSE i \in absent : \A k \in absent : i <= k
           n == IF absent = {} THEN Len(seen) ELSE m - 1
<1>0. Len(seen) \in Nat
  BY LenProperties
<1>1. absent \in SUBSET Nat
  BY <1>0
<1>2. absent # {} => m \in absent /\ \A k \in absent : m <= k
  <2> HIDE DEF absent
  <2>1. QED
    BY <1>1, LeastChosen
<1>3. n \in 0 .. Len(seen) /\ (\A i \in 1 .. n : seen[i])
  <2>1. CASE absent = {}
    BY <1>0, <2>1
  <2>2. CASE absent # {}
    <3>1. m \in 1 .. Len(seen) /\ \A i \in 1 .. Len(seen) : ~ seen[i] => m <= i
      BY <1>2, <2>2
    <3> HIDE DEF m, absent
    <3>2. n = m - 1
      BY <2>2
    <3>3. QED
      BY <1>0, <3>1, <3>2
  <2>3. QED
    BY <2>1, <2>2
<1>4. next = IF \E i \in n + 1 .. Len(seen) : seen[i]
             THEN IF j.again THEN Answered("conflict")
                  ELSE [j EXCEPT !.seen = <<>>, !.again = TRUE]
             ELSE IF n = 0 THEN NothingAdopted(j)
             ELSE [j EXCEPT !.pc = "adopt", !.seen = seen, !.adopt = 1]
  BY DEF AdoptExactPrefix
<1> HIDE DEF n, next
<1>5. DOMAIN j = JobShape /\ GroupOk(j.items) /\ j.adopt = 0 /\ Len(j.items) > 0
  BY DEF JobInv, PlaceOk
<1>6. CASE \E i \in n + 1 .. Len(seen) : seen[i]
  <2>1. CASE j.again
    <3>1. next = Answered("conflict")
      BY <1>4, <1>6, <2>1
    <3>2. QED
      BY <3>1, AnsweredOk DEF next
  <2>2. CASE ~ j.again
    <3>1. next = [j EXCEPT !.seen = <<>>, !.again = TRUE]
      BY <1>4, <1>6, <2>2
    <3>2. /\ DOMAIN next = JobShape /\ next.seen = <<>> /\ next.again = TRUE
          /\ next.pc = j.pc /\ next.items = j.items /\ next.why = j.why /\ next.adopt = j.adopt
          /\ next.at = j.at /\ next.out = j.out /\ next.one = j.one
      BY <1>5, <3>1 DEF JobShape
    <3>3. <<>> \in Seq(BOOLEAN) /\ Len(<<>>) = 0
      OBVIOUS
    <3>4. PlaceOk(next)
      BY <1>5, <3>2, <3>3 DEF PlaceOk, JobInv
    <3>5. QED
      BY <3>2, <3>4 DEF JobInv, next
  <2>3. QED
    BY <2>1, <2>2
<1>7. CASE ~ (\E i \in n + 1 .. Len(seen) : seen[i]) /\ n = 0
  <2>1. next = NothingAdopted(j)
    BY <1>4, <1>7
  <2>2. CASE j.why = "first"
    <3>1. next = [j EXCEPT !.pc = "commit", !.at = now, !.seen = <<>>]
      BY <2>1, <2>2 DEF NothingAdopted
    <3>2. /\ DOMAIN next = JobShape /\ next.seen = <<>> /\ next.again = j.again
          /\ next.pc = "commit" /\ next.items = j.items /\ next.why = j.why
          /\ next.adopt = j.adopt /\ next.at = now /\ next.out = j.out /\ next.one = j.one
      BY <1>5, <3>1 DEF JobShape
    <3>3. <<>> \in Seq(BOOLEAN) /\ Len(<<>>) = 0 /\ now \in 1 .. now
      BY DEF NumbersOk
    <3>4. PlaceOk(next)
      BY <1>5, <3>2, <3>3 DEF PlaceOk, JobInv
    <3>5. QED
      BY <3>2, <3>4 DEF JobInv, next
  <2>3. CASE j.why # "first"
    <3>1. next = Answered("conflict") \/ next = Answered("unknown")
      BY <2>1, <2>3 DEF NothingAdopted, JobInv
    <3>2. QED
      BY <3>1, AnsweredOk DEF next
  <2>4. QED
    BY <2>2, <2>3
<1>8. CASE ~ (\E i \in n + 1 .. Len(seen) : seen[i]) /\ n # 0
  <2>1. next = [j EXCEPT !.pc = "adopt", !.seen = seen, !.adopt = 1]
    BY <1>4, <1>8
  <2>2. /\ DOMAIN next = JobShape /\ next.seen = seen /\ next.again = j.again
        /\ next.pc = "adopt" /\ next.items = j.items /\ next.why = j.why
        /\ next.adopt = 1 /\ next.at = j.at /\ next.out = j.out /\ next.one = j.one
    BY <1>5, <2>1 DEF JobShape
  <2>3. n \in 1 .. Len(seen) /\ 1 \in 1 .. n
    BY <1>0, <1>3, <1>8
  <2>4. \A i \in 1 .. Len(seen) : seen[i] = (i <= n)
    <3>1. \A i \in 1 .. Len(seen) : i \in 1 .. n \/ (i \in n + 1 .. Len(seen) /\ ~ (i <= n))
      BY <1>0, <1>3
    <3>2. \A i \in 1 .. Len(seen) : seen[i] \in BOOLEAN
      BY ElementOfSeq
    <3>3. \A i \in 1 .. n : i <= n
      BY <1>0, <1>3
    <3>4. QED
      BY <1>3, <1>8, <3>1, <3>2, <3>3
  <2>5. \E k \in 1 .. Len(next.seen) :
           next.adopt \in 1 .. k /\ \A i \in 1 .. Len(next.seen) : next.seen[i] = (i <= k)
    BY <2>2, <2>3, <2>4
  <2>6. PlaceOk(next)
    BY <1>5, <2>2, <2>5 DEF PlaceOk, JobInv
  <2>7. QED
    BY <2>2, <2>6 DEF JobInv, next
<1>9. QED
  BY <1>6, <1>7, <1>8 DEF next

LEMMA ReadItemStep ==
    ASSUME IInv, NEW c \in Caller, ReadItem(c), UNCHANGED wvars
    PROVE  IInv'
<1> DEFINE j == job[c]
           e == j.items[Len(j.seen) + 1]
<1>1. /\ JobInv(j) /\ j.pc = "read" /\ ~ Lost(c)
      /\ GroupOk(j.items) /\ j.seen \in Seq(BOOLEAN) /\ Len(j.seen) < Len(j.items)
      /\ \A i \in 1 .. Len(j.seen) : j.seen[i] => j.items[i] \in Stored
  BY DEF IInv, JobsOk, ReadItem, JobInv, PlaceOk, Lost
<1>2. Len(j.seen) \in Nat /\ Len(j.items) \in Nat /\ Len(j.seen) + 1 \in 1 .. Len(j.items)
  <2>1. Len(j.items) \in Nat
    BY <1>1, SeqFacts DEF GroupOk
  <2>2. Len(j.seen) \in Nat
    BY <1>1, LenProperties
  <2>3. QED
    BY <1>1, <2>1, <2>2
<1>3. Genuine(e)
  BY <1>1, <1>2 DEF GroupOk
<1>4. ReadExistingAppend(e) \in {"absent", "same", "conflict"}
      /\ (ReadExistingAppend(e) = "same" => e \in Stored)
  BY <1>3, FoundIsStored DEF IInv
\* What an answer for one event does.
<1>5. ASSUME NEW found \in BOOLEAN, found => e \in Stored, Seen(c, found)
      PROVE  \E k : /\ job' = [job EXCEPT ![c] = k] /\ JobInv(k)
                    /\ k.items = j.items \/ (k.pc = "done" /\ k.out # "recorded")
  <2> DEFINE seen == Append(j.seen, found)
  <2>1. /\ seen \in Seq(BOOLEAN) /\ Len(seen) = Len(j.seen) + 1
        /\ \A i \in 1 .. Len(seen) : seen[i] = IF i = Len(j.seen) + 1 THEN found ELSE j.seen[i]
    BY <1>1, AppendProperties
  <2>2. \A i \in 1 .. Len(seen) : seen[i] => j.items[i] \in Stored
    <3>1. \A i \in 1 .. Len(seen) : i = Len(j.seen) + 1 \/ i \in 1 .. Len(j.seen)
      BY <1>2, <2>1
    <3>2. QED
      BY <1>1, <1>5, <2>1, <3>1
  <2>3. job' = [job EXCEPT ![c] = IF Len(seen) < Len(j.items) THEN [j EXCEPT !.seen = seen]
                                  ELSE AdoptExactPrefix(j, seen)]
    BY <1>5 DEF Seen
  <2> HIDE DEF seen
  <2>4. CASE Len(seen) < Len(j.items)
    <3> DEFINE k == [j EXCEPT !.seen = seen]
    <3>1. job' = [job EXCEPT ![c] = k]
      BY <2>3, <2>4
    <3>2. /\ DOMAIN k = JobShape /\ k.seen = seen /\ k.again = j.again
          /\ k.pc = j.pc /\ k.items = j.items /\ k.why = j.why
          /\ k.adopt = j.adopt /\ k.at = j.at /\ k.out = j.out /\ k.one = j.one
      BY <1>1 DEF JobInv, JobShape
    <3> HIDE DEF k, j
    <3>3. PlaceOk(k)
      BY <1>1, <2>1, <2>2, <2>4, <3>2 DEF PlaceOk, JobInv
    <3>4. JobInv(k)
      BY <1>1, <3>2, <3>3 DEF JobInv
    <3>5. QED
      BY <3>1, <3>2, <3>4
  <2>5. CASE ~ (Len(seen) < Len(j.items))
    <3> DEFINE k == AdoptExactPrefix(j, seen)
    <3>1. job' = [job EXCEPT ![c] = k]
      BY <2>3, <2>5
    <3>2. Len(seen) = Len(j.items) /\ Len(seen) > 0
      BY <1>2, <2>1, <2>5
    <3> HIDE DEF j
    <3>3. JobInv(k) /\ (k.items = j.items \/ (k.pc = "done" /\ k.out # "recorded"))
      BY <1>1, <2>1, <2>2, <3>2, FoundPrefix DEF IInv
    <3>4. QED
      BY <3>1, <3>3
  <2>6. QED
    BY <2>4, <2>5
<1>6. PICK k : /\ job' = [job EXCEPT ![c] = k] /\ JobInv(k)
               /\ k.items = j.items \/ (k.pc = "done" /\ k.out # "recorded")
  <2>1. CASE ReadExistingAppend(e) \in {"absent", "same"} /\ Seen(c, ReadExistingAppend(e) = "same")
    BY <1>4, <1>5, <2>1
  <2>2. CASE Seen(c, FALSE)
    BY <1>5, <2>2
  <2>3. CASE ReadExistingAppend(e) = "conflict" /\ job' = [job EXCEPT ![c] = Answered("conflict")]
    BY <2>3, AnsweredOk
  <2>4. QED
    BY <1>4, <2>1, <2>2, <2>3 DEF ReadItem
<1>7. /\ UNCHANGED <<now, head, entries, identity, raw, tomb, late, sweep>>
      /\ faults' \in 0 .. MaxFaults
  <2>1. Fault \/ NoFault
    BY DEF ReadItem
  <2>2. QED
    BY <2>1, FaultsCounted DEF ReadItem, store, IInv
<1>8. RawOk'
  BY <1>7, RawKept DEF IInv, NumbersOk
<1>9. \/ k.pc = "done" /\ k.out # "recorded"
      \/ ~ Lost(c) /\ Sources(job[c].items) \subseteq Known \cup Sources(k.items)
  BY <1>1, <1>6
<1>10. QED
  BY <1>6, <1>7, <1>8, <1>9, JobStep

\* Every event has a source of its own: as many sources as events.
LEMMA DistinctCount ==
    ASSUME NEW s, s \in Seq(Members(s)),
           \A i, k \in 1 .. Len(s) : s[i].source = s[k].source => i = k
    PROVE  Cardinality(Sources(s)) = Len(s)
<1>1. Len(s) \in Nat
  BY SeqFacts
<1> DEFINE f == [i \in 1 .. Len(s) |-> s[i].source]
<1>2. f \in [1 .. Len(s) -> Sources(s)] /\ DOMAIN f = 1 .. Len(s)
  BY DEF Sources
<1>3. \A t \in Sources(s) : \E i \in 1 .. Len(s) : f[i] = t
  BY DEF Sources
<1>4. \A i, k \in 1 .. Len(s) : f[i] = f[k] => i = k
  OBVIOUS
<1> HIDE DEF f
<1>5. f \in Bijection(1 .. Len(s), Sources(s))
  BY <1>2, <1>3, <1>4 DEF Bijection, Injection, IsInjective, Surjection
<1>6. ExistsBijection(1 .. Len(s), Sources(s))
  BY <1>5 DEF ExistsBijection
<1>7. QED
  BY <1>1, <1>6, FS_CountingElements

\* What is left of a group whose first events are stored is a group.
LEMMA RestOfGroup ==
    ASSUME NEW items, GroupOk(items), NEW n \in 1 .. Len(items) - 1,
           \A i \in 1 .. n : items[i] \in Stored, NEW rest, rest = SubSeq(items, n + 1, Len(items))
    PROVE  GroupOk(rest) /\ Sources(items) \subseteq {items[i].source : i \in 1 .. n} \cup Sources(rest)
<1>1. Len(items) \in Nat /\ items \in Seq(Members(items)) /\ n \in 0 .. Len(items)
      /\ n + 1 \in Nat
  BY SeqFacts DEF GroupOk
<1>2. /\ rest \in Seq(Members(rest)) /\ Len(rest) = Len(items) - n
      /\ \A i \in 1 .. Len(rest) : rest[i] = items[n + i] /\ n + i \in 1 .. Len(items)
  BY <1>1, TailFacts
<1>3. \A i, k \in 1 .. Len(rest) : rest[i].source = rest[k].source => i = k
  <2>1. ASSUME NEW i \in 1 .. Len(rest), NEW k \in 1 .. Len(rest), rest[i].source = rest[k].source
        PROVE  i = k
    <3>1. items[n + i].source = items[n + k].source /\ n + i \in 1 .. Len(items)
          /\ n + k \in 1 .. Len(items)
      BY <1>2, <2>1
    <3>2. n + i = n + k
      BY <3>1 DEF GroupOk
    <3>3. QED
      BY <1>1, <3>2
  <2>2. QED
    BY <2>1
<1>4. Cardinality(Sources(rest)) = Len(rest)
  BY <1>2, <1>3, DistinctCount
<1>5. Len(rest) # 0 /\ Len(rest) <= 32
  BY <1>1, <1>2 DEF GroupOk, ValidGroup
<1>6. rest # <<>>
  BY <1>2, <1>5, SeqFacts
<1>7. ASSUME NEW i \in 1 .. Len(rest)
      PROVE  /\ Genuine(rest[i])
             /\ Backed(rest[i], Stored \cup {rest[k] : k \in 1 .. i - 1})
  <2>1. rest[i] = items[n + i] /\ n + i \in 1 .. Len(items)
    BY <1>2
  <2>2. /\ Genuine(items[n + i])
        /\ Backed(items[n + i], Stored \cup {items[k] : k \in 1 .. (n + i) - 1})
    BY <2>1 DEF GroupOk
  <2>3. ASSUME NEW k \in 1 .. (n + i) - 1
        PROVE  items[k] \in Stored \cup {rest[m] : m \in 1 .. i - 1}
    <3>1. CASE k \in 1 .. n
      BY <3>1
    <3>2. CASE k \notin 1 .. n
      <4>1. k - n \in 1 .. i - 1 /\ k - n \in 1 .. Len(rest) /\ n + (k - n) = k
        BY <1>1, <1>2, <3>2
      <4>2. rest[k - n] = items[k]
        BY <1>2, <4>1
      <4>3. QED
        BY <4>1, <4>2
    <3>3. QED
      BY <3>1, <3>2
  <2>4. {items[k] : k \in 1 .. (n + i) - 1} \subseteq Stored \cup {rest[m] : m \in 1 .. i - 1}
    BY <2>3
  <2> DEFINE A == Stored \cup {items[k] : k \in 1 .. (n + i) - 1}
             B == Stored \cup {rest[m] : m \in 1 .. i - 1}
  <2>5. A \subseteq B
    BY <2>4
  <2> HIDE DEF A, B
  <2>6. Backed(rest[i], B)
    BY <2>1, <2>2, <2>5, BackedMore DEF A
  <2>7. QED
    BY <2>1, <2>2, <2>6 DEF B
<1>8. GroupOk(rest)
  BY <1>2, <1>3, <1>4, <1>5, <1>6, <1>7 DEF GroupOk, ValidGroup
<1>9. ASSUME NEW s \in Sources(items)
      PROVE  s \in {items[i].source : i \in 1 .. n} \/ s \in Sources(rest)
  <2>1. PICK i \in 1 .. Len(items) : s = items[i].source
    BY <1>9 DEF Sources
  <2>2. CASE i \in 1 .. n
    BY <2>1, <2>2
  <2>3. CASE i \notin 1 .. n
    <3>1. i - n \in 1 .. Len(rest) /\ n + (i - n) = i
      BY <1>1, <1>2, <2>3
    <3>2. rest[i - n] = items[i]
      BY <1>2, <3>1
    <3>3. QED
      BY <2>1, <3>1, <3>2 DEF Sources
  <2>4. QED
    BY <2>2, <2>3
<1>10. QED
  BY <1>8, <1>9

\* Deleting a raw record whose retention has ended.
LEMMA DeletionKeepsRaw ==
    ASSUME ChainOk, RawOk, NumbersOk, NEW s \in Source, identity[s] # 0, NEW at,
           at \in Nat, Expires(s) <= at, at <= now,
           UNCHANGED <<now, head, entries, identity>>,
           DeleteRaw(s, at) \/ UNCHANGED <<raw, tomb>>
    PROVE  RawOk'
<1>1. /\ raw \in [Source -> Nat] /\ tomb \in [Source -> Nat]
      /\ \A t : Expires(t)' = Expires(t)
  BY DEF RawOk, Expires
<1>2. CASE UNCHANGED <<raw, tomb>>
  BY <1>2, RawKept DEF NumbersOk
<1>3. CASE DeleteRaw(s, at) /\ DeletionResult(s) # "deleted"
  <2>1. UNCHANGED <<raw, tomb>>
    BY <1>3 DEF DeleteRaw
  <2>2. QED
    BY <2>1, RawKept DEF NumbersOk
<1>4. CASE DeleteRaw(s, at) /\ DeletionResult(s) = "deleted"
  <2>1. raw' = [raw EXCEPT ![s] = 0] /\ tomb' = [tomb EXCEPT ![s] = at]
    BY <1>4 DEF DeleteRaw
  <2>2. /\ raw' \in [Source -> Nat] /\ tomb' \in [Source -> Nat]
        /\ raw'[s] = 0 /\ tomb'[s] = at
        /\ \A t \in Source : t # s => raw'[t] = raw[t] /\ tomb'[t] = tomb[t]
    BY <1>1, <2>1
  <2>3. at \in Expires(s) .. now
    <3>1. identity[s] \in 1 .. head
      BY DEF ChainOk
    <3>2. Expires(s) \in Nat
      BY <3>1, TimelineConstants DEF ChainOk, EntryInPlace, Expires, NumbersOk
    <3>3. QED
      BY <3>2 DEF NumbersOk
  <2>4. ASSUME NEW t \in Source
        PROVE  IF identity[t] = 0 THEN raw'[t] = 0 /\ tomb'[t] = 0
               ELSE \/ raw'[t] = Expires(t) /\ tomb'[t] = 0
                    \/ raw'[t] = 0 /\ tomb'[t] \in Expires(t) .. now
    <3>1. CASE t = s
      BY <2>2, <2>3, <3>1
    <3>2. CASE t # s
      BY <2>2, <3>2 DEF RawOk
    <3>3. QED
      BY <3>1, <3>2
  <2>5. QED
    BY <1>1, <2>2, <2>4 DEF RawOk
<1>5. QED
  BY <1>2, <1>3, <1>4

\* A recorded source has its raw record until its retention ends, and then that
\* or its receipt.
LEMMA RawIsSound ==
    ASSUME ChainOk, RawOk, NumbersOk, NEW s \in Source, identity[s] # 0
    PROVE  /\ Expires(s) \in Nat /\ Expires(s) > 0
           /\ DeletionResult(s) # "corrupt" /\ RawResult(s) # "corrupt"
<1>1. identity[s] \in 1 .. head
  BY DEF ChainOk
<1>2. Expires(s) \in Nat /\ Expires(s) > 0
  BY <1>1, TimelineConstants DEF ChainOk, EntryInPlace, Expires, NumbersOk
<1>3. \/ raw[s] = Expires(s) /\ tomb[s] = 0
      \/ raw[s] = 0 /\ tomb[s] \in Expires(s) .. now
  BY DEF RawOk
<1>4. now \in Nat
  BY DEF NumbersOk
<1>5. DeletionResult(s) # "corrupt"
  BY <1>2, <1>3, <1>4 DEF DeletionResult
<1>6. RawResult(s) # "corrupt"
  BY <1>2, <1>3, <1>4, <1>5 DEF RawResult
<1>7. QED
  BY <1>2, <1>5, <1>6

\* An append begins with a group in its hands.
LEMMA FreshJob ==
    ASSUME NEW items, GroupOk(items)
    PROVE  LET k == [NoJob EXCEPT !.pc = "read", !.items = items]
           IN JobInv(k) /\ k.pc = "read" /\ k.items = items
<1> DEFINE k == [NoJob EXCEPT !.pc = "read", !.items = items]
<1>1. /\ DOMAIN NoJob = JobShape /\ NoJob.seen = <<>> /\ NoJob.again = FALSE
      /\ NoJob.why = "first" /\ NoJob.adopt = 0 /\ NoJob.at = 0 /\ NoJob.out = "none"
      /\ NoJob.one = FALSE
  BY DEF NoJob, JobShape
<1>2. /\ DOMAIN k = JobShape /\ k.pc = "read" /\ k.items = items
      /\ k.seen = <<>> /\ k.again = FALSE
      /\ k.why = "first" /\ k.adopt = 0 /\ k.at = 0 /\ k.out = "none" /\ k.one = FALSE
  BY <1>1 DEF JobShape
<1>3. Len(items) \in Nat /\ Len(items) # 0
  BY SeqFacts DEF GroupOk, ValidGroup
<1> HIDE DEF k
<1>4. <<>> \in Seq(BOOLEAN) /\ Len(<<>>) = 0
  OBVIOUS
<1>5. PlaceOk(k)
  BY <1>2, <1>3, <1>4 DEF PlaceOk
<1>6. JobInv(k)
  BY <1>2, <1>5 DEF JobInv
<1>7. QED
  BY <1>2, <1>6 DEF k

LEMMA FreshSingle ==
    ASSUME NEW e, GroupOk(<<e>>)
    PROVE  LET k == [NoJob EXCEPT !.pc = "read", !.items = <<e>>, !.one = TRUE]
           IN JobInv(k) /\ k.pc = "read" /\ k.items = <<e>>
<1> DEFINE k == [NoJob EXCEPT !.pc = "read", !.items = <<e>>, !.one = TRUE]
<1>1. /\ DOMAIN NoJob = JobShape /\ NoJob.seen = <<>> /\ NoJob.again = FALSE
      /\ NoJob.why = "first" /\ NoJob.adopt = 0 /\ NoJob.at = 0 /\ NoJob.out = "none"
  BY DEF NoJob, JobShape
<1>2. /\ DOMAIN k = JobShape /\ k.pc = "read" /\ k.items = <<e>>
      /\ k.seen = <<>> /\ k.again = FALSE
      /\ k.why = "first" /\ k.adopt = 0 /\ k.at = 0 /\ k.out = "none" /\ k.one = TRUE
  BY <1>1 DEF JobShape
<1> HIDE DEF k
<1>3. <<>> \in Seq(BOOLEAN) /\ Len(<<>>) = 0 /\ Len(<<e>>) = 1
  OBVIOUS
<1>4. PlaceOk(k)
  BY <1>2, <1>3 DEF PlaceOk
<1>5. JobInv(k)
  BY <1>2, <1>4 DEF JobInv
<1>6. QED
  BY <1>2, <1>5 DEF k

\* The next place of an adoption: the next found event, the end, or the rest of
\* the group.
LEMMA AdoptedOk ==
    ASSUME ChainOk, NEW j, JobInv(j), j.pc = "adopt"
    PROVE  /\ JobInv(Adopted(j))
           /\ Sources(j.items) \subseteq Known \cup Sources(Adopted(j).items)
<1>1. /\ DOMAIN j = JobShape /\ GroupOk(j.items) /\ j.seen \in Seq(BOOLEAN)
      /\ Len(j.seen) = Len(j.items)
      /\ \A i \in 1 .. Len(j.seen) : j.seen[i] => j.items[i] \in Stored
  BY DEF JobInv, PlaceOk
<1>2. PICK n \in 1 .. Len(j.seen) :
         j.adopt \in 1 .. n /\ \A i \in 1 .. Len(j.seen) : j.seen[i] = (i <= n)
  BY DEF JobInv, PlaceOk
<1>3. Len(j.seen) \in Nat /\ n \in 0 .. Len(j.seen) /\ j.adopt \in Nat
  BY <1>1, <1>2, LenProperties
<1>4. Cardinality({i \in 1 .. Len(j.seen) : j.seen[i]}) = n
  BY <1>1, <1>2, <1>3, PrefixCount
<1>5. \A i \in 1 .. n : i \in 1 .. Len(j.items) /\ j.items[i] \in Stored
  <2>1. \A i \in 1 .. n : i \in 1 .. Len(j.seen) /\ i <= n
    BY <1>3
  <2>2. QED
    BY <1>1, <1>2, <2>1
<1>6. \A i \in 1 .. n : j.items[i].source \in Known
  BY <1>1, <1>5, FoundIsStored DEF GroupOk
<1>7. CASE j.adopt < n
  <2> DEFINE k == [j EXCEPT !.adopt = j.adopt + 1]
  <2>1. Adopted(j) = k
    BY <1>4, <1>7 DEF Adopted
  <2>2. /\ DOMAIN k = JobShape /\ k.seen = j.seen /\ k.again = j.again
        /\ k.pc = j.pc /\ k.items = j.items /\ k.why = j.why
        /\ k.adopt = j.adopt + 1 /\ k.at = j.at /\ k.out = j.out /\ k.one = j.one
    BY <1>1 DEF JobShape
  <2> HIDE DEF k
  <2>3. k.adopt \in 1 .. n
    BY <1>2, <1>3, <1>7, <2>2
  <2>4. PlaceOk(k)
    <3>1. \E m \in 1 .. Len(k.seen) :
             k.adopt \in 1 .. m /\ \A i \in 1 .. Len(k.seen) : k.seen[i] = (i <= m)
      BY <1>2, <2>2, <2>3
    <3>2. QED
      BY <1>1, <2>2, <3>1 DEF PlaceOk, JobInv
  <2>5. JobInv(k)
    BY <2>2, <2>4 DEF JobInv
  <2>6. QED
    BY <2>1, <2>2, <2>5
<1>8. CASE ~ (j.adopt < n) /\ j.adopt = Len(j.items)
  <2>1. Adopted(j) = Answered("recorded")
    BY <1>4, <1>8 DEF Adopted
  <2>2. n = Len(j.items)
    BY <1>1, <1>2, <1>3, <1>8
  <2>3. Sources(j.items) \subseteq Known
    BY <1>6, <2>2 DEF Sources
  <2>4. QED
    BY <2>1, <2>3, AnsweredOk
<1>9. CASE ~ (j.adopt < n) /\ j.adopt # Len(j.items)
  <2> DEFINE rest == SubSeq(j.items, j.adopt + 1, Len(j.items))
             k == [NoJob EXCEPT !.pc = "read", !.items = rest]
  <2>1. Adopted(j) = k
    BY <1>4, <1>9 DEF Adopted
  <2>2. j.adopt = n /\ n \in 1 .. Len(j.items) - 1
    BY <1>1, <1>2, <1>3, <1>9
  <2>3. /\ GroupOk(rest)
        /\ Sources(j.items) \subseteq {j.items[i].source : i \in 1 .. n} \cup Sources(rest)
    <3>1. rest = SubSeq(j.items, n + 1, Len(j.items))
      BY <2>2
    <3> HIDE DEF rest
    <3>2. QED
      BY <1>1, <1>5, <2>2, <3>1, RestOfGroup
  <2> HIDE DEF rest
  <2>4. JobInv(k) /\ k.items = rest
    BY <2>3, FreshJob
  <2>8. Sources(j.items) \subseteq Known \cup Sources(rest)
    BY <1>6, <2>3
  <2>9. QED
    BY <2>1, <2>4, <2>8
<1>10. QED
  BY <1>7, <1>8, <1>9

LEMMA AdoptItemStep ==
    ASSUME IInv, NEW c \in Caller, AdoptItem(c), UNCHANGED wvars
    PROVE  IInv'
<1> DEFINE j == job[c]
           s == j.items[j.adopt].source
<1>1. JobInv(j) /\ j.pc = "adopt" /\ ~ Lost(c)
  BY DEF IInv, JobsOk, AdoptItem, Lost
<1>2. s \in Source /\ identity[s] # 0
  <2>1. PICK n \in 1 .. Len(j.seen) :
           j.adopt \in 1 .. n /\ \A i \in 1 .. Len(j.seen) : j.seen[i] = (i <= n)
    BY <1>1 DEF JobInv, PlaceOk
  <2>2. /\ GroupOk(j.items) /\ j.seen \in Seq(BOOLEAN) /\ Len(j.seen) = Len(j.items)
        /\ \A i \in 1 .. Len(j.seen) : j.seen[i] => j.items[i] \in Stored
    BY <1>1 DEF JobInv, PlaceOk
  <2>3. Len(j.seen) \in Nat
    BY <2>2, LenProperties
  <2>4. j.adopt \in 1 .. Len(j.seen) /\ j.adopt <= n
    BY <2>1, <2>3
  <2>5. Genuine(j.items[j.adopt]) /\ j.items[j.adopt] \in Stored
    BY <2>1, <2>2, <2>4 DEF GroupOk
  <2>6. QED
    BY <2>5, FoundIsStored DEF IInv, Known
<1>3. RawResult(s) # "corrupt" /\ Expires(s) \in Nat
  BY <1>2, RawIsSound DEF IInv
<1>4. PICK k : /\ job' = [job EXCEPT ![c] = k] /\ JobInv(k)
               /\ \/ k.pc = "done" /\ k.out # "recorded"
                  \/ Sources(j.items) \subseteq Known \cup Sources(k.items)
  <2>1. CASE job' = [job EXCEPT ![c] = IF RawResult(s) = "corrupt"
                                       THEN Answered("corrupt") ELSE Adopted(j)]
    <3>1. job' = [job EXCEPT ![c] = Adopted(j)]
      BY <1>3, <2>1
    <3>2. JobInv(Adopted(j)) /\ Sources(j.items) \subseteq Known \cup Sources(Adopted(j).items)
      <4> HIDE DEF j
      <4>1. QED
        BY <1>1, AdoptedOk DEF IInv
    <3>3. QED
      BY <3>1, <3>2
  <2>2. CASE job' = [job EXCEPT ![c] = Answered(IF j.why = "first" THEN "unavailable"
                                                ELSE "unknown")]
    BY <2>2, AnsweredOk
  <2>3. QED
    BY <2>1, <2>2 DEF AdoptItem
<1>5. UNCHANGED <<now, head, entries, identity>> /\ late' = late /\ sweep' = sweep
  BY DEF AdoptItem
<1>6. faults' \in 0 .. MaxFaults
  <2>1. Fault \/ NoFault
    BY DEF AdoptItem
  <2>2. QED
    BY <2>1, FaultsCounted DEF IInv
<1>7. RawOk'
  <2>1. CASE UNCHANGED <<raw, tomb>>
    BY <1>5, <2>1, RawKept DEF IInv, NumbersOk
  <2>2. CASE now >= Expires(s) /\ DeleteRaw(s, now)
    <3>1. now \in Nat /\ Expires(s) <= now /\ now <= now
      BY <1>3, <2>2 DEF IInv, NumbersOk
    <3> HIDE DEF s
    <3>2. QED
      BY <1>2, <1>5, <2>2, <3>1, DeletionKeepsRaw DEF IInv
  <2>3. QED
    BY <2>1, <2>2 DEF AdoptItem
<1>8. \/ k.pc = "done" /\ k.out # "recorded"
      \/ ~ Lost(c) /\ Sources(job[c].items) \subseteq Known \cup Sources(k.items)
  BY <1>1, <1>4
<1>9. QED
  BY <1>4, <1>5, <1>6, <1>7, <1>8, JobStep

-----------------------------------------------------------------------------
\* Writing a group.

\* The store after a group was written: the old entries, then its events in
\* their order, each where its identity says.
Written(h, items, at) ==
    LET n == Len(items)
    IN /\ h = head /\ head' = h + n /\ head' \in Nat
       /\ entries' \in Seq(Members(entries')) /\ Len(entries') = head'
       /\ \A i \in 1 .. h : entries'[i] = entries[i] /\ EventAt(i)' = EventAt(i)
       /\ \A i \in 1 .. n :
            /\ entries'[h + i] =
                 [source |-> items[i].source, body |-> items[i].body, at |-> at,
                  prev |-> IF i = 1 THEN LastSource ELSE items[i - 1].source]
            /\ EventAt(h + i)' = items[i]
            /\ identity'[items[i].source] = h + i
       /\ identity' \in [Source -> 0 .. head']
       /\ \A s \in Source \ Sources(items) : identity'[s] = identity[s] /\ raw'[s] = raw[s]
       /\ \A s \in Sources(items) : s \in Source /\ raw'[s] = at + Retention /\ identity[s] = 0
       /\ raw' \in [Source -> Nat] /\ tomb' = tomb

LEMMA GroupIsWritten ==
    ASSUME NumbersOk, ChainOk, RawOk, NEW items, GroupOk(items), NEW at, at \in 1 .. now,
           GroupIsNew(items), WriteGroup(items, at), NEW h, h = head
    PROVE  Written(h, items, at)
<1> DEFINE n == Len(items)
           new == LinkedEntries(items, at, LastSource)
<1>1. n \in Nat /\ head \in Nat /\ Len(entries) = head /\ entries \in Seq(Members(entries))
  BY SeqFacts DEF GroupOk, ChainOk
<1>0. h = head
  OBVIOUS
<1>2. /\ new \in [1 .. n -> Members(new)] /\ Len(new) = n
      /\ \A i \in 1 .. n :
           new[i] = [source |-> items[i].source, body |-> items[i].body, at |-> at,
                     prev |-> IF i = 1 THEN LastSource ELSE items[i - 1].source]
  BY <1>1 DEF LinkedEntries, Members
<1>3. new \in Seq(Members(new))
  <2> HIDE DEF new
  <2>1. QED
    BY <1>1, <1>2, SeqDef
<1>4. /\ entries' \in Seq(Members(entries')) /\ Len(entries') = head + n
      /\ \A i \in 1 .. head : entries'[i] = entries[i]
      /\ \A i \in 1 .. n : entries'[h + i] = new[i]
  <2>1. entries' = entries \o new
    BY DEF WriteGroup
  <2> HIDE DEF new, n
  <2>2. ASSUME NEW s, NEW t, s \in Seq(Members(s)), t \in Seq(Members(t)), Len(s) = h, Len(t) = n
        PROVE  /\ s \o t \in Seq(Members(s \o t)) /\ Len(s \o t) = h + n
               /\ \A i \in 1 .. h : (s \o t)[i] = s[i]
               /\ \A i \in 1 .. n : (s \o t)[h + i] = t[i]
    BY <2>2, ConcatFacts
  <2>3. Len(entries) = h /\ Len(new) = n
    BY <1>1, <1>2
  <2>4. entries \in Seq(Members(entries))
    BY <1>1
  <2>5. /\ entries \o new \in Seq(Members(entries \o new)) /\ Len(entries \o new) = h + n
        /\ \A i \in 1 .. h : (entries \o new)[i] = entries[i]
        /\ \A i \in 1 .. n : (entries \o new)[h + i] = new[i]
    BY <1>3, <2>2, <2>3, <2>4
  <2>6. QED
    BY <1>0, <2>1, <2>5
<1>5. head' = head + n /\ head' \in Nat
  BY <1>1 DEF WriteGroup
<1>6. \A i \in 1 .. n : /\ Genuine(items[i])
                        /\ items[i] = Event(items[i].source, items[i].body)
                        /\ items[i].source \in Source /\ items[i].source \in Sources(items)
  BY DEF GroupOk, Genuine, Sources
<1> HIDE DEF new
<1>7. \A i \in 1 .. head : EventAt(i)' = EventAt(i)
  BY <1>4 DEF EventAt
<1>8. \A i \in 1 .. n : EventAt(h + i)' = items[i]
  BY <1>2, <1>4, <1>6 DEF EventAt
<1>9. \A s \in Sources(items) : s \in Source /\ identity[s] = 0
  BY <1>6 DEF Sources, GroupIsNew
<1>10. \A k \in 1 .. n : (CHOOSE i \in 1 .. Len(items) : items[i].source = items[k].source) = k
  BY SourcePlace DEF GroupOk
<1>11. \A s \in Source : identity'[s] = IF s \in Sources(items)
                                        THEN head + (CHOOSE i \in 1 .. Len(items) : items[i].source = s)
                                        ELSE identity[s]
  BY DEF WriteGroup
<1>12. \A k \in 1 .. n : identity'[items[k].source] = head + k
  BY <1>6, <1>10, <1>11
<1>13. identity' \in [Source -> 0 .. head']
  <2>1. ASSUME NEW s \in Source PROVE identity'[s] \in 0 .. head'
    <3>1. CASE s \in Sources(items)
      <4>1. PICK k \in 1 .. n : s = items[k].source
        BY <3>1 DEF Sources
      <4>2. identity'[s] = head + k
        BY <1>12, <4>1
      <4>3. QED
        BY <1>1, <1>5, <4>2
    <3>2. CASE s \notin Sources(items)
      <4>1. identity'[s] = identity[s] /\ identity[s] \in 0 .. head
        BY <1>11, <3>2 DEF ChainOk
      <4>2. QED
        BY <1>1, <1>5, <4>1
    <3>3. QED
      BY <3>1, <3>2
  <2>2. DOMAIN identity' = Source
    BY DEF WriteGroup
  <2>3. identity' = [s \in Source |-> identity'[s]]
    BY DEF WriteGroup
  <2>4. QED
    BY <2>1, <2>3
<1>14. /\ \A s \in Source : raw'[s] = IF s \in Sources(items) THEN at + Retention ELSE raw[s]
       /\ raw' \in [Source -> Nat] /\ tomb' = tomb
  <2>1. at + Retention \in Nat /\ \A s \in Source : raw[s] \in Nat
    BY TimelineConstants DEF RawOk, NumbersOk
  <2>2. QED
    BY <2>1 DEF WriteGroup
<1>15. /\ \A s \in Source \ Sources(items) : identity'[s] = identity[s] /\ raw'[s] = raw[s]
       /\ \A s \in Sources(items) : s \in Source /\ raw'[s] = at + Retention /\ identity[s] = 0
  BY <1>9, <1>11, <1>14
<1>16. \A i \in 1 .. n :
         entries'[h + i] = [source |-> items[i].source, body |-> items[i].body, at |-> at,
                               prev |-> IF i = 1 THEN LastSource ELSE items[i - 1].source]
  BY <1>2, <1>4
<1>17. Len(entries') = head'
  BY <1>4, <1>5
<1>18. QED
  BY <1>4, <1>5, <1>7, <1>8, <1>12, <1>13, <1>14, <1>15, <1>16, <1>17 DEF Written

\* The entries and the events before a place of the group.
LEMMA WrittenEvents ==
    ASSUME NEW h \in Nat, NEW items, Len(items) \in Nat, NEW at, Written(h, items, at)
    PROVE  /\ \A k \in 0 .. h : EventsTo(k)' = EventsTo(k)
           /\ \A k \in 0 .. Len(items) :
                EventsTo(h + k)' = Stored \cup {items[m] : m \in 1 .. k}
           /\ \A i \in 1 .. head' : i \in 1 .. h \/ i - h \in 1 .. Len(items)
<1>1. /\ h = head /\ head' = h + Len(items)
      /\ \A i \in 1 .. h : EventAt(i)' = EventAt(i)
      /\ \A i \in 1 .. Len(items) : EventAt(h + i)' = items[i]
  BY DEF Written
<1>2. \A k \in 0 .. h : \A i \in 1 .. k : i \in 1 .. h
  OBVIOUS
<1>3. \A k \in 0 .. h : EventsTo(k)' = EventsTo(k)
  BY <1>1, <1>2 DEF EventsTo
<1>4. ASSUME NEW k \in 0 .. Len(items)
      PROVE  EventsTo(h + k)' = Stored \cup {items[m] : m \in 1 .. k}
  <2>1. ASSUME NEW x \in EventsTo(h + k)' PROVE x \in Stored \cup {items[m] : m \in 1 .. k}
    <3>1. PICK i \in 1 .. h + k : x = EventAt(i)'
      BY <2>1 DEF EventsTo
    <3>2. CASE i \in 1 .. h
      BY <1>1, <3>1, <3>2 DEF Stored, EventsTo
    <3>3. CASE i \notin 1 .. h
      <4>1. i - h \in 1 .. k /\ i - h \in 1 .. Len(items) /\ h + (i - h) = i
        BY <3>3
      <4>2. x = items[i - h]
        BY <1>1, <3>1, <4>1
      <4>3. QED
        BY <4>1, <4>2
    <3>4. QED
      BY <3>2, <3>3
  <2>2. ASSUME NEW x \in Stored PROVE x \in EventsTo(h + k)'
    <3>1. PICK i \in 1 .. h : x = EventAt(i)
      BY <1>1, <2>2 DEF Stored, EventsTo
    <3>2. i \in 1 .. h + k /\ x = EventAt(i)'
      BY <1>1, <3>1
    <3>3. QED
      BY <3>2 DEF EventsTo
  <2>3. ASSUME NEW m \in 1 .. k PROVE items[m] \in EventsTo(h + k)'
    <3>1. m \in 1 .. Len(items) /\ h + m \in 1 .. h + k
      OBVIOUS
    <3>2. EventAt(h + m)' = items[m]
      BY <1>1, <3>1
    <3>3. QED
      BY <3>1, <3>2 DEF EventsTo
  <2>4. QED
    BY <2>1, <2>2, <2>3
<1>5. \A i \in 1 .. head' : i \in 1 .. h \/ i - h \in 1 .. Len(items)
  BY <1>1
<1>6. QED
  BY <1>3, <1>4, <1>5

LEMMA WriteKeeps ==
    ASSUME NumbersOk, ChainOk, RawOk, NEW items, GroupOk(items), NEW at, at \in 1 .. now,
           GroupIsNew(items), WriteGroup(items, at), UNCHANGED <<now, wvars>>
    PROVE  Grows /\ ChainOk' /\ RawOk' /\ Sources(items) \subseteq Known'
<1> DEFINE n == Len(items)
<1>0. PICK h : h = head
  OBVIOUS
<1>1. Written(h, items, at) /\ n \in Nat /\ h \in Nat
  BY <1>0, GroupIsWritten, SeqFacts DEF GroupOk, ChainOk
<1>2. UNCHANGED <<now, receipt, fences, revoked>> /\ now \in Nat /\ fences \in Nat
  BY DEF wvars, NumbersOk
<1>3. /\ \A k \in 0 .. h : EventsTo(k)' = EventsTo(k)
      /\ \A k \in 0 .. n : EventsTo(h + k)' = Stored \cup {items[m] : m \in 1 .. k}
      /\ \A i \in 1 .. head' : i \in 1 .. h \/ i - h \in 1 .. n
  BY <1>1, WrittenEvents
<1>3a. \A m \in 1 .. n :
         /\ DOMAIN entries'[h + m] = {"source", "body", "at", "prev"}
         /\ entries'[h + m].source = items[m].source /\ entries'[h + m].at = at
         /\ entries'[h + m].prev = IF m = 1 THEN LastSource ELSE items[m - 1].source
  <2>1. ASSUME NEW m \in 1 .. n
        PROVE  /\ DOMAIN entries'[h + m] = {"source", "body", "at", "prev"}
               /\ entries'[h + m].source = items[m].source /\ entries'[h + m].at = at
               /\ entries'[h + m].prev = IF m = 1 THEN LastSource ELSE items[m - 1].source
    <3> DEFINE prev == IF m = 1 THEN LastSource ELSE items[m - 1].source
    <3>1. entries'[h + m] = [source |-> items[m].source, body |-> items[m].body, at |-> at,
                             prev |-> prev]
      BY <1>1 DEF Written
    <3> HIDE DEF prev
    <3>2. /\ DOMAIN entries'[h + m] = {"source", "body", "at", "prev"}
          /\ entries'[h + m].source = items[m].source /\ entries'[h + m].at = at
          /\ entries'[h + m].prev = prev
      BY <3>1
    <3>3. QED
      BY <3>2 DEF prev
  <2>2. QED
    BY <2>1
<1>4. Stored \subseteq Stored'
  <2>1. Stored' = EventsTo(h + n)'
    BY <1>1 DEF Stored, Written, EventsTo
  <2>2. QED
    BY <1>1, <1>3, <2>1
\* The old entries.
<1>5. ASSUME NEW i \in 1 .. h PROVE EntryInPlace(i)' /\ entries'[i] = entries[i]
  <2>1. EntryInPlace(i) /\ entries'[i] = entries[i] /\ EventAt(i)' = EventAt(i)
    BY <1>0, <1>1 DEF ChainOk, Written
  <2>2. EventsTo(i - 1)' = EventsTo(i - 1)
    BY <1>1, <1>3
  <2>3. Genuine(EventAt(i))'
    <3>1. PICK e : e = EventAt(i)
      OBVIOUS
    <3>2. Genuine(e)
      BY <2>1, <3>1 DEF EntryInPlace
    <3>3. Genuine(e)'
      BY <1>2, <3>2, GenuineKept
    <3>4. EventAt(i)' = e
      BY <2>1, <3>1
    <3>5. QED
      BY <3>3, <3>4
  <2>4. Backed(EventAt(i), EventsTo(i - 1))'
    BY <2>1, <2>2 DEF EntryInPlace, Backed, IsVerdict, RevocationBacked, DenialBacked,
                      PromotionBacked
  <2>5. entries'[i].prev = IF i = 1 THEN NoSource ELSE entries'[i - 1].source
    <3>1. i # 1 => i - 1 \in 1 .. h
      BY <1>1
    <3>2. i # 1 => entries'[i - 1] = entries[i - 1]
      BY <1>1, <3>1 DEF Written
    <3>3. entries[i].prev = IF i = 1 THEN NoSource ELSE entries[i - 1].source
      BY <2>1 DEF EntryInPlace
    <3>4. QED
      BY <2>1, <3>2, <3>3
  <2>6. identity'[entries'[i].source] = i
    <3>1. identity[entries[i].source] = i
      BY <2>1 DEF EntryInPlace
    <3>2. entries[i].source \in Source
      BY <2>1 DEF EntryInPlace, Genuine, EventAt, Event
    <3>3. entries[i].source \notin Sources(items)
      BY <1>1, <3>1 DEF Written
    <3>4. QED
      BY <1>1, <2>1, <3>1, <3>2, <3>3 DEF Written
  <2>7. DOMAIN entries'[i] = {"source", "body", "at", "prev"} /\ entries'[i].at \in 1 .. now'
    BY <1>2, <2>1 DEF EntryInPlace
  <2>8. QED
    BY <2>1, <2>3, <2>4, <2>5, <2>6, <2>7 DEF EntryInPlace
\* The new ones.
<1>6. ASSUME NEW m \in 1 .. n PROVE EntryInPlace(h + m)'
  <2>1. EventAt(h + m)' = items[m] /\ identity'[items[m].source] = h + m
    BY <1>1 DEF Written
  <2>2. h + m - 1 = h + (m - 1) /\ m - 1 \in 0 .. n
    BY <1>1
  <2>3. EventsTo(h + m - 1)' = Stored \cup {items[k] : k \in 1 .. m - 1}
    BY <1>3, <2>2
  <2>4. /\ Genuine(items[m])
        /\ Backed(items[m], Stored \cup {items[k] : k \in 1 .. m - 1})
    BY DEF GroupOk
  <2>5. Genuine(EventAt(h + m))'
    <3>1. PICK e : e = items[m]
      OBVIOUS
    <3>2. Genuine(e)'
      BY <1>2, <2>4, <3>1, GenuineKept
    <3>3. EventAt(h + m)' = e
      BY <2>1, <3>1
    <3>4. QED
      BY <3>2, <3>3
  <2>6. Backed(EventAt(h + m), EventsTo(h + m - 1))'
    BY <2>1, <2>3, <2>4 DEF Backed, IsVerdict, RevocationBacked, DenialBacked, PromotionBacked
  <2>7. entries'[h + m].prev = IF h + m = 1 THEN NoSource ELSE entries'[h + m - 1].source
    <3>1. CASE m = 1 /\ h = 0
      BY <1>0, <1>3a, <3>1 DEF LastSource
    <3>2. CASE m = 1 /\ h # 0
      <4>1. h + m # 1 /\ h + m - 1 = h /\ h \in 1 .. h
        BY <1>1, <3>2
      <4>2. entries'[h] = entries[h]
        BY <1>1, <4>1 DEF Written
      <4>3. entries'[h + m].prev = entries[h].source
        BY <1>0, <1>3a, <3>2 DEF LastSource
      <4>4. QED
        BY <4>1, <4>2, <4>3
    <3>3. CASE m # 1
      <4>1. m - 1 \in 1 .. n /\ h + m - 1 = h + (m - 1) /\ h + m # 1
        BY <1>1, <3>3
      <4>2. entries'[h + (m - 1)].source = items[m - 1].source
        BY <1>3a, <4>1
      <4>3. QED
        BY <1>3a, <3>3, <4>1, <4>2
    <3>4. QED
      BY <3>1, <3>2, <3>3
  <2>8. /\ DOMAIN entries'[h + m] = {"source", "body", "at", "prev"}
        /\ entries'[h + m].at \in 1 .. now' /\ identity'[entries'[h + m].source] = h + m
    BY <1>2, <1>3a, <2>1
  <2>9. PICK i \in Nat : i = h + m
    BY <1>1
  <2>10. EntryInPlace(i)'
    <3>1. Genuine(EventAt(i))' /\ Backed(EventAt(i), EventsTo(i - 1))'
      BY <1>1, <2>5, <2>6, <2>9
    <3>2. entries'[i].prev = IF i = 1 THEN NoSource ELSE entries'[i - 1].source
      BY <1>1, <2>7, <2>9
    <3>3. /\ DOMAIN entries'[i] = {"source", "body", "at", "prev"}
          /\ entries'[i].at \in 1 .. now' /\ identity'[entries'[i].source] = i
      BY <1>1, <2>8, <2>9
    <3>4. QED
      BY <3>1, <3>2, <3>3 DEF EntryInPlace
  <2>11. QED
    BY <2>9, <2>10
<1>7. \A i \in 1 .. head' : EntryInPlace(i)'
  <2>1. ASSUME NEW i \in 1 .. head' PROVE EntryInPlace(i)'
    <3>1. CASE i \in 1 .. h
      BY <1>5, <3>1
    <3>2. CASE i \notin 1 .. h
      <4>1. i - h \in 1 .. n
        BY <1>3, <3>2
      <4>2. PICK m \in 1 .. n : m = i - h
        BY <4>1
      <4>3. i = h + m
        <5>1. head' \in Nat
          BY <1>1 DEF Written
        <5>2. QED
          BY <1>1, <4>2, <5>1
      <4>4. QED
        BY <1>6, <4>3
    <3>3. QED
      BY <3>1, <3>2
  <2>2. QED
    BY <2>1
<1>8. ASSUME NEW s \in Source, identity'[s] # 0 PROVE entries'[identity'[s]].source = s
  <2>1. CASE s \in Sources(items)
    <3>1. PICK m \in 1 .. n : s = items[m].source
      BY <2>1 DEF Sources
    <3>2. identity'[s] = h + m /\ entries'[h + m].source = items[m].source
      BY <1>1, <1>3a, <3>1 DEF Written
    <3>3. QED
      BY <3>1, <3>2
  <2>2. CASE s \notin Sources(items)
    <3>1. identity'[s] = identity[s]
      BY <1>1, <2>2 DEF Written
    <3>2. identity[s] \in 1 .. h /\ entries[identity[s]].source = s
      BY <1>0, <1>8, <3>1 DEF ChainOk
    <3>3. entries'[identity[s]] = entries[identity[s]]
      BY <1>5, <3>2
    <3>4. QED
      BY <3>1, <3>2, <3>3
  <2>3. QED
    BY <2>1, <2>2
<1>9. ChainOk'
  <2>1. /\ head' \in Nat /\ entries' \in Seq(Members(entries')) /\ Len(entries') = head'
        /\ identity' \in [Source -> 0 .. head']
    BY <1>1 DEF Written
  <2>2. QED
    BY <1>7, <1>8, <2>1 DEF ChainOk, Members
<1>10. ASSUME NEW s \in Source, s \notin Sources(items)
       PROVE  identity'[s] = identity[s] /\ raw'[s] = raw[s] /\ tomb'[s] = tomb[s]
              /\ (identity[s] # 0 => Expires(s)' = Expires(s))
  <2>1. identity'[s] = identity[s] /\ raw'[s] = raw[s] /\ tomb'[s] = tomb[s]
    BY <1>1, <1>10 DEF Written
  <2>2. ASSUME identity[s] # 0 PROVE Expires(s)' = Expires(s)
    <3>1. identity[s] \in 1 .. h
      BY <1>0, <2>2 DEF ChainOk
    <3>2. entries'[identity[s]] = entries[identity[s]]
      BY <1>5, <3>1
    <3>3. QED
      BY <2>1, <3>2 DEF Expires
  <2>3. QED
    BY <2>1, <2>2
<1>11. ASSUME NEW s \in Sources(items)
       PROVE  /\ s \in Source /\ identity[s] = 0 /\ identity'[s] # 0
              /\ raw'[s] = Expires(s)' /\ tomb'[s] = 0
  <2>1. PICK m \in 1 .. n : s = items[m].source
    BY <1>11 DEF Sources
  <2>2. /\ identity'[s] = h + m /\ entries'[h + m].at = at /\ h + m # 0
        /\ s \in Source /\ raw'[s] = at + Retention /\ identity[s] = 0 /\ tomb'[s] = tomb[s]
    <3>1. h + m # 0 /\ entries'[h + m].at = at
      BY <1>1, <1>3a
    <3>2. identity'[s] = h + m /\ s \in Source /\ identity[s] = 0
      BY <1>1, <1>11, <2>1 DEF Written
    <3>3. raw'[s] = at + Retention /\ tomb'[s] = tomb[s]
      BY <1>1, <1>11 DEF Written
    <3>4. QED
      BY <3>1, <3>2, <3>3
  <2>3. tomb[s] = 0
    BY <2>2 DEF RawOk
  <2>4. QED
    BY <2>2, <2>3 DEF Expires
<1>12. RawOk'
  <2>1. raw' \in [Source -> Nat] /\ tomb' \in [Source -> Nat]
    BY <1>1 DEF Written, RawOk
  <2>2. ASSUME NEW s \in Source
        PROVE  IF identity'[s] = 0 THEN raw'[s] = 0 /\ tomb'[s] = 0
               ELSE \/ raw'[s] = Expires(s)' /\ tomb'[s] = 0
                    \/ raw'[s] = 0 /\ tomb'[s] \in Expires(s)' .. now'
    <3>1. CASE s \in Sources(items)
      BY <1>11, <3>1
    <3>2. CASE s \notin Sources(items)
      BY <1>2, <1>10, <3>2 DEF RawOk
    <3>3. QED
      BY <3>1, <3>2
  <2>3. QED
    BY <2>1, <2>2 DEF RawOk
<1>13. Grows
  <2>1. ASSUME NEW s \in Source, identity[s] # 0
        PROVE  identity'[s] # 0 /\ Expires(s)' = Expires(s)
    <3>1. s \notin Sources(items)
      BY <1>11, <2>1
    <3>2. QED
      BY <1>10, <2>1, <3>1
  <2>2. QED
    BY <1>2, <1>4, <2>1 DEF Grows
<1>14. Sources(items) \subseteq Known'
  BY <1>11 DEF Known
<1>15. QED
  BY <1>9, <1>12, <1>13, <1>14

-----------------------------------------------------------------------------
\* The transactions of an append.

\* Where nothing of a group is recorded, its places are free.
LEMMA NewIsFree ==
    ASSUME ChainOk, RawOk, NEW items, GroupOk(items), GroupIsNew(items)
    PROVE  SlotsAreFree(items)
<1>1. \A s \in Sources(items) : s \in Source
  BY DEF Sources, GroupOk, Genuine
<1>2. \A s \in Sources(items) : raw[s] = 0
  BY <1>1 DEF GroupIsNew, RawOk
<1>3. QED
  BY <1>2 DEF SlotsAreFree, ChainOk

LEMMA LookAgainOk ==
    ASSUME NEW j, JobInv(j), j.pc = "commit", NEW why \in {"refused", "contention", "error"}
    PROVE  JobInv(LookAgain(j, why)) /\ LookAgain(j, why).items = j.items
<1> DEFINE k == LookAgain(j, why)
<1>1. DOMAIN j = JobShape /\ GroupOk(j.items) /\ j.adopt = 0
  BY DEF JobInv, PlaceOk
<1>2. /\ DOMAIN k = JobShape /\ k.seen = <<>> /\ k.again = FALSE
      /\ k.pc = "read" /\ k.items = j.items /\ k.why = why
      /\ k.adopt = 0 /\ k.at = j.at /\ k.out = j.out /\ k.one = j.one
  BY <1>1 DEF JobShape, LookAgain
<1> HIDE DEF k
<1>3. Len(j.items) \in Nat /\ Len(j.items) # 0 /\ <<>> \in Seq(BOOLEAN) /\ Len(<<>>) = 0
  BY <1>1, SeqFacts DEF GroupOk, ValidGroup
<1>4. PlaceOk(k)
  BY <1>1, <1>2, <1>3 DEF PlaceOk, JobInv
<1>5. JobInv(k)
  BY <1>2, <1>4 DEF JobInv
<1>6. QED
  BY <1>2, <1>5 DEF k

\* A single event that the transaction found is adopted as it was read.
LEMMA RefusedOk ==
    ASSUME ChainOk, NEW j, JobInv(j), j.pc = "commit", ~ GroupIsNew(j.items)
    PROVE  /\ JobInv(Refused(j))
           /\ Refused(j).items = j.items \/ (Refused(j).pc = "done" /\ Refused(j).out # "recorded")
<1>1. DOMAIN j = JobShape /\ GroupOk(j.items) /\ (j.one => Len(j.items) = 1)
  BY DEF JobInv, PlaceOk
<1>2. CASE ~ j.one
  BY <1>2, LookAgainOk DEF Refused
<1>3. CASE j.one /\ ~ EntryMatches(j.items[1])
  <2>1. Refused(j) = Answered("conflict")
    BY <1>3 DEF Refused
  <2>2. QED
    BY <2>1, AnsweredOk
<1>4. CASE j.one /\ EntryMatches(j.items[1])
  <2> DEFINE k == [j EXCEPT !.pc = "adopt", !.seen = <<TRUE>>, !.adopt = 1]
  <2>1. Refused(j) = k
    BY <1>4 DEF Refused
  <2>2. /\ DOMAIN k = JobShape /\ k.seen = <<TRUE>> /\ k.again = j.again
        /\ k.pc = "adopt" /\ k.items = j.items /\ k.why = j.why
        /\ k.adopt = 1 /\ k.at = j.at /\ k.out = j.out /\ k.one = j.one
    BY <1>1 DEF JobShape
  <2> HIDE DEF k
  <2>3. Len(j.items) = 1 /\ Genuine(j.items[1])
    <3>1. Len(j.items) = 1
      BY <1>1, <1>4
    <3>2. 1 \in 1 .. Len(j.items)
      BY <3>1
    <3>3. QED
      BY <1>1, <3>1, <3>2 DEF GroupOk
  <2>4. identity[j.items[1].source] # 0
    BY <2>3 DEF GroupIsNew, Sources
  <2>5. j.items[1] \in Stored
    BY <1>4, <2>3, <2>4, FoundIsStored
  <2>6. /\ <<TRUE>> \in Seq(BOOLEAN) /\ Len(<<TRUE>>) = 1
        /\ \A i \in 1 .. 1 : <<TRUE>>[i] = TRUE /\ i = 1
    OBVIOUS
  <2>7. \E n \in 1 .. Len(k.seen) :
           k.adopt \in 1 .. n /\ \A i \in 1 .. Len(k.seen) : k.seen[i] = (i <= n)
    <3>1. Len(k.seen) = 1 /\ k.adopt \in 1 .. 1 /\ \A i \in 1 .. 1 : k.seen[i] = TRUE
      BY <2>2, <2>6
    <3>1a. \A i \in 1 .. 1 : (i <= 1) = TRUE
      OBVIOUS
    <3>2. \A i \in 1 .. Len(k.seen) : k.seen[i] = (i <= 1)
      <4>1. ASSUME NEW i \in 1 .. Len(k.seen) PROVE k.seen[i] = (i <= 1)
        <5>1. i \in 1 .. 1
          BY <3>1
        <5>2. k.seen[i] = TRUE /\ (i <= 1) = TRUE
          BY <3>1, <3>1a, <5>1
        <5>3. QED
          BY <5>2, Zenon
      <4>2. QED
        BY <4>1
    <3>3. 1 \in 1 .. Len(k.seen)
      BY <3>1
    <3> HIDE DEF k
    <3>4. QED
      BY <3>1, <3>2, <3>3, Zenon
  <2>8. \A i \in 1 .. Len(k.seen) : k.seen[i] => k.items[i] \in Stored
    BY <2>2, <2>5, <2>6
  <2>9. PlaceOk(k)
    BY <1>1, <2>2, <2>3, <2>6, <2>7, <2>8 DEF PlaceOk, JobInv
  <2>10. JobInv(k)
    BY <2>2, <2>9 DEF JobInv
  <2>11. QED
    BY <2>1, <2>2, <2>10
<1>5. QED
  BY <1>2, <1>3, <1>4

\* A group is written; an append may have moved.
LEMMA WriteStep ==
    ASSUME IInv, NEW items, GroupOk(items), NEW at, at \in 1 .. now, GroupIsNew(items),
           WriteGroup(items, at), UNCHANGED <<now, wvars>>, sweep' = sweep, late' \subseteq late,
           faults' \in 0 .. MaxFaults,
           \/ job' = job
           \/ \E c \in Caller : \E k :
                 /\ job' = [job EXCEPT ![c] = k] /\ JobInv(k) /\ ~ Lost(c)
                 /\ job[c].items = items
                 /\ k.items = items \/ (k.pc = "done" /\ k.items = <<>>)
    PROVE  IInv'
<1>1. NumbersOk /\ ChainOk /\ RawOk /\ JobsOk /\ CallsOk
  BY DEF IInv
<1>2. Grows /\ ChainOk' /\ RawOk' /\ Sources(items) \subseteq Known'
  BY <1>1, WriteKeeps
<1>3. JobsOk' /\ \A d \in Caller : Lost(d)' \/ (~ Lost(d) /\ InHand(d) \subseteq InHand(d)')
  <2>1. CASE job' = job
    <3>1. JobsOk'
      BY <1>1, <1>2, <2>1, JobsSame
    <3>2. \A d \in Caller : Lost(d)' \/ (~ Lost(d) /\ InHand(d) \subseteq InHand(d)')
      BY <1>2, <2>1, KnownGrows DEF Lost, InHand
    <3>3. QED
      BY <3>1, <3>2
  <2>2. ASSUME NEW c \in Caller, NEW k, job' = [job EXCEPT ![c] = k], JobInv(k), ~ Lost(c),
               job[c].items = items, k.items = items \/ (k.pc = "done" /\ k.items = <<>>)
        PROVE  JobsOk' /\ \A d \in Caller : Lost(d)' \/ (~ Lost(d) /\ InHand(d) \subseteq InHand(d)')
    <3>1. JobInv(k)'
      BY <1>1, <1>2, <2>2, JobKept
    <3>2. JobsOk'
      BY <1>1, <1>2, <2>2, <3>1, JobsKept
    <3>3. job'[c] = k /\ \A d \in Caller : d # c => job'[d] = job[d]
      BY <1>1, <2>2 DEF JobsOk
    <3>4. ASSUME NEW d \in Caller PROVE Lost(d)' \/ (~ Lost(d) /\ InHand(d) \subseteq InHand(d)')
      <4>1. CASE d # c
        BY <1>2, <3>3, <4>1, KnownGrows DEF Lost, InHand
      <4>2. CASE d = c
        BY <1>2, <2>2, <3>3, <4>2, KnownGrows DEF Lost, InHand
      <4>3. QED
        BY <4>1, <4>2
    <3>5. QED
      BY <3>2, <3>4
  <2>3. QED
    BY <2>1, <2>2
<1>4. UNCHANGED <<receipt, fences, revoked, work, epoch, opened>>
  BY DEF wvars
<1>5. CallsOk'
  BY <1>1, <1>2, <1>3, <1>4, CallsSame
<1>6. LateOk' /\ SweepOk'
  BY <1>1, <1>2, LateKept, SweepKept DEF IInv
<1>7. NumbersOk' /\ ReceiptsOk'
  BY <1>4 DEF IInv, NumbersOk, ReceiptsOk, ReceiptOk
<1>8. QED
  BY <1>2, <1>3, <1>5, <1>6, <1>7 DEF IInv

LEMMA CommitStep ==
    ASSUME IInv, NEW c \in Caller, Commit(c), UNCHANGED wvars
    PROVE  IInv'
<1> DEFINE j == job[c]
<1>1. JobInv(j) /\ j.pc = "commit" /\ ~ Lost(c) /\ GroupOk(j.items) /\ j.at \in 1 .. now
  BY DEF IInv, JobsOk, Commit, Lost, JobInv, PlaceOk
<1>2. GroupIsNew(j.items) => SlotsAreFree(j.items)
  BY <1>1, NewIsFree DEF IInv
<1>3. UNCHANGED <<now, sweep>> /\ (Fault \/ NoFault)
  BY DEF Commit
<1>4. faults' \in 0 .. MaxFaults
  BY <1>3, FaultsCounted DEF IInv
\* No entry is written, but the transaction may still land.
<1>5. ASSUME NEW k, JobInv(k), job' = [job EXCEPT ![c] = k],
             k.items = j.items \/ (k.pc = "done" /\ k.out # "recorded"),
             UNCHANGED store, late' = late
      PROVE  IInv'
  <2>1. UNCHANGED <<head, entries, identity, raw, tomb>>
    BY <1>5 DEF store
  <2>2. RawOk'
    BY <1>3, <2>1, RawKept DEF IInv, NumbersOk
  <2>3. \/ k.pc = "done" /\ k.out # "recorded"
        \/ ~ Lost(c) /\ Sources(job[c].items) \subseteq Known \cup Sources(k.items)
    BY <1>1, <1>5
  <2>4. QED
    BY <1>3, <1>4, <1>5, <2>1, <2>2, <2>3, JobStep
<1>6. CASE /\ ~ (GroupIsNew(j.items) /\ SlotsAreFree(j.items))
           /\ job' = [job EXCEPT ![c] = IF GroupIsNew(j.items) THEN Answered("corrupt")
                                        ELSE Refused(j)]
           /\ UNCHANGED <<store, late>>
  <2>1. ~ GroupIsNew(j.items)
    BY <1>2, <1>6
  <2>2. job' = [job EXCEPT ![c] = Refused(j)] /\ UNCHANGED store /\ late' = late
    BY <1>6, <2>1
  <2> HIDE DEF j
  <2>3. /\ JobInv(Refused(j))
        /\ Refused(j).items = j.items \/ (Refused(j).pc = "done" /\ Refused(j).out # "recorded")
    BY <1>1, <2>1, RefusedOk DEF IInv
  <2>4. QED
    BY <1>5, <2>2, <2>3
<1>7. CASE /\ GroupIsNew(j.items) /\ WriteGroup(j.items, j.at) /\ UNCHANGED late
           /\ job' = [job EXCEPT ![c] = Answered("recorded")]
              \/ job' = [job EXCEPT ![c] = LookAgain(j, "error")]
  <2>1. PICK k : /\ job' = [job EXCEPT ![c] = k] /\ JobInv(k)
                 /\ k.items = j.items \/ (k.pc = "done" /\ k.items = <<>>)
    <3>1. CASE job' = [job EXCEPT ![c] = Answered("recorded")]
      BY <3>1, AnsweredOk
    <3>2. CASE job' = [job EXCEPT ![c] = LookAgain(j, "error")]
      <4> HIDE DEF j
      <4>1. JobInv(LookAgain(j, "error")) /\ LookAgain(j, "error").items = j.items
        BY <1>1, LookAgainOk
      <4>2. QED
        BY <3>2, <4>1
    <3>3. QED
      BY <1>7, <3>1, <3>2
  <2>2. PICK items : items = j.items
    OBVIOUS
  <2>3. PICK at : at = j.at
    OBVIOUS
  <2>4. GroupOk(items) /\ at \in 1 .. now /\ GroupIsNew(items) /\ WriteGroup(items, at)
    BY <1>1, <1>7, <2>2, <2>3
  <2>5. \E d \in Caller : \E m :
           /\ job' = [job EXCEPT ![d] = m] /\ JobInv(m) /\ ~ Lost(d)
           /\ job[d].items = items
           /\ m.items = items \/ (m.pc = "done" /\ m.items = <<>>)
    BY <1>1, <2>1, <2>2
  <2>6. late' \subseteq late /\ sweep' = sweep /\ UNCHANGED <<now, wvars>>
    BY <1>3, <1>7
  <2>7. QED
    BY <1>4, <2>4, <2>5, <2>6, WriteStep
<1>8. CASE job' = [job EXCEPT ![c] = LookAgain(j, "contention")] /\ UNCHANGED <<store, late>>
  <2> HIDE DEF j
  <2>1. JobInv(LookAgain(j, "contention")) /\ LookAgain(j, "contention").items = j.items
    BY <1>1, LookAgainOk
  <2>2. QED
    BY <1>5, <1>8, <2>1
<1>9. CASE /\ job' = [job EXCEPT ![c] = LookAgain(j, "error")]
           /\ late' = late \cup {[items |-> j.items, at |-> j.at, head |-> head]}
           /\ UNCHANGED store
  <2>1. JobInv(LookAgain(j, "error")) /\ LookAgain(j, "error").items = j.items
    <3> HIDE DEF j
    <3>1. QED
      BY <1>1, LookAgainOk
  <2>2. UNCHANGED <<head, entries, identity, raw, tomb>>
    BY <1>9 DEF store
  <2>3. UNCHANGED <<receipt, fences, revoked, work, epoch, opened>> /\ sweep' = sweep
    BY <1>3 DEF wvars
  <2>4. NumbersOk /\ now \in Nat /\ fences \in Nat /\ now' = now
    BY <1>3 DEF IInv, NumbersOk
  <2>5. Grows /\ ChainOk' /\ Known' = Known
    BY <2>2, <2>3, <2>4, Unmoved DEF IInv
  <2>6. RawOk'
    BY <2>2, <2>4, RawKept DEF IInv
  <2>7. PICK k : k = LookAgain(j, "error")
    OBVIOUS
  <2>8. JobInv(k)'
    BY <2>1, <2>4, <2>5, <2>7, JobKept
  <2>9. job' = [job EXCEPT ![c] = k]
    BY <1>9, <2>7
  <2>10. JobsOk'
    BY <2>4, <2>5, <2>8, <2>9, JobsKept DEF IInv
  <2>11. job'[c] = k /\ (\A d \in Caller : d # c => job'[d] = job[d]) /\ k.items = j.items
    BY <2>1, <2>7, <2>9 DEF IInv, JobsOk
  <2>12. ASSUME NEW d \in Caller PROVE Lost(d)' \/ (~ Lost(d) /\ InHand(d) \subseteq InHand(d)')
    <3>1. CASE d # c
      BY <2>5, <2>11, <3>1 DEF Lost, InHand
    <3>2. CASE d = c
      BY <1>1, <2>5, <2>11, <3>2 DEF InHand
    <3>3. QED
      BY <3>1, <3>2
  <2>13. CallsOk'
    BY <2>3, <2>4, <2>5, <2>12, CallsSame DEF IInv
  <2>14. SweepOk'
    BY <2>3, <2>4, <2>5, SweepKept DEF IInv
  <2>15. LateOk'
    <3>1. ASSUME NEW p \in late' PROVE GroupOk(p.items)' /\ p.at \in 1 .. now'
      <4>1. GroupOk(p.items) /\ p.at \in 1 .. now
        BY <1>1, <1>9, <3>1 DEF IInv, LateOk
      <4>2. QED
        BY <2>4, <2>5, <4>1, GroupKept
    <3>2. QED
      BY <3>1 DEF LateOk
  <2>16. NumbersOk' /\ ReceiptsOk'
    BY <1>4, <2>3, <2>4 DEF IInv, NumbersOk, ReceiptsOk, ReceiptOk
  <2>17. QED
    BY <2>5, <2>6, <2>10, <2>13, <2>14, <2>15, <2>16 DEF IInv
<1>10. QED
  BY <1>6, <1>7, <1>8, <1>9 DEF Commit

-----------------------------------------------------------------------------
\* The transactions that land late, the retention sweep and the clock.

LEMMA StoreOnly ==
    ASSUME IInv, job' = job, UNCHANGED <<head, entries, identity, wvars>>,
           now' \in 1 .. MaxTime, now <= now', late' \subseteq late,
           faults' \in 0 .. MaxFaults, RawOk', SweepOk'
    PROVE  IInv'
<1>1. NumbersOk /\ ChainOk /\ JobsOk /\ CallsOk /\ LateOk
  BY DEF IInv
<1>2. UNCHANGED <<epoch, opened, fences, revoked, receipt, work>>
  BY DEF wvars
<1>3. now \in Nat /\ now' \in Nat /\ fences \in Nat
  BY <1>1 DEF NumbersOk
<1>4. Grows /\ ChainOk' /\ Known' = Known
  BY <1>1, <1>2, <1>3, Unmoved
<1>5. JobsOk' /\ LateOk'
  BY <1>1, <1>4, JobsSame, LateKept
<1>6. \A d \in Caller : Lost(d)' \/ (~ Lost(d) /\ InHand(d) \subseteq InHand(d)')
  BY <1>4 DEF Lost, InHand
<1>7. CallsOk'
  BY <1>1, <1>2, <1>4, <1>6, CallsSame
<1>8. \A t : t \in 1 .. now => t \in 1 .. now'
  BY <1>3
<1>9. NumbersOk'
  BY <1>1, <1>2, <1>3, <1>8 DEF NumbersOk
<1>10. ReceiptsOk'
  <2>1. \A r \in Receipt : ReceiptOk(r)'
    <3>1. ASSUME NEW r \in Receipt PROVE ReceiptOk(r)'
      <4>1. ReceiptOk(r)
        BY DEF IInv, ReceiptsOk
      <4>2. receipt[r] \in ReceiptBodies => receipt[r].updated \in 1 .. MaxTime
        BY DEF ReceiptBodies
      <4>3. QED
        BY <1>2, <1>3, <4>1, <4>2 DEF ReceiptOk
    <3>2. QED
      BY <3>1
  <2>2. QED
    BY <1>2, <2>1 DEF IInv, ReceiptsOk
<1>11. QED
  BY <1>4, <1>5, <1>7, <1>9, <1>10 DEF IInv

LEMMA LandLateStep ==
    ASSUME IInv, LandLate, UNCHANGED wvars
    PROVE  IInv'
<1>1. UNCHANGED <<now, job, sweep, faults>>
  BY DEF LandLate
<1>2. PICK p \in late :
        /\ late' = late \ {p}
        /\ IF p.head = head /\ GroupIsNew(p.items) /\ SlotsAreFree(p.items)
           THEN WriteGroup(p.items, p.at) ELSE UNCHANGED store
  BY DEF LandLate
<1>3. GroupOk(p.items) /\ p.at \in 1 .. now
  BY DEF IInv, LateOk
<1>4. faults' \in 0 .. MaxFaults /\ now' \in 1 .. MaxTime /\ now <= now' /\ now \in Nat
  BY <1>1 DEF IInv, NumbersOk
<1>5. CASE GroupIsNew(p.items) /\ WriteGroup(p.items, p.at)
  <2>1. PICK items : items = p.items
    OBVIOUS
  <2>2. PICK at : at = p.at
    OBVIOUS
  <2>3. GroupOk(items) /\ at \in 1 .. now /\ GroupIsNew(items) /\ WriteGroup(items, at)
    BY <1>3, <1>5, <2>1, <2>2
  <2>4. late' \subseteq late /\ sweep' = sweep /\ job' = job /\ UNCHANGED <<now, wvars>>
    BY <1>1, <1>2
  <2>5. QED
    BY <1>4, <2>3, <2>4, WriteStep
<1>6. CASE UNCHANGED store
  <2>1. UNCHANGED <<head, entries, identity, raw, tomb>>
    BY <1>6 DEF store
  <2>2. RawOk'
    BY <1>1, <1>4, <2>1, RawKept DEF IInv
  <2>3. SweepOk'
    BY <1>1, <2>1 DEF IInv, SweepOk, Expires
  <2>4. QED
    BY <1>1, <1>2, <1>4, <2>1, <2>2, <2>3, StoreOnly
<1>7. QED
  BY <1>2, <1>5, <1>6

LEMMA SweepQueryStep ==
    ASSUME IInv, SweepQuery, UNCHANGED wvars
    PROVE  IInv'
<1>1. /\ UNCHANGED <<now, head, entries, identity, raw, tomb, job, late, faults>>
      /\ ExpiredRaw(now) # {}
      /\ sweep' = [pc |-> "delete", at |-> now, todo |-> OldestExpired(now)]
  BY DEF SweepQuery, store
<1>2. faults' \in 0 .. MaxFaults /\ now' \in 1 .. MaxTime /\ now <= now' /\ now \in 1 .. now
  BY <1>1 DEF IInv, NumbersOk
<1>3. RawOk'
  BY <1>1, <1>2, RawKept DEF IInv, NumbersOk
<1>4. ASSUME NEW i \in 1 .. head
      PROVE  /\ entries[i].source \in Source /\ identity[entries[i].source] # 0
             /\ raw[entries[i].source] \in Nat
             /\ raw[entries[i].source] \in 1 .. now => Expires(entries[i].source) <= now
  <2>1. PICK s : s = entries[i].source
    OBVIOUS
  <2>2. identity[s] = i /\ s \in Source
    BY <2>1 DEF IInv, ChainOk, EntryInPlace, Genuine, EventAt, Event
  <2>3. raw[s] \in Nat /\ (raw[s] = Expires(s) \/ raw[s] = 0)
    BY <2>2 DEF IInv, RawOk
  <2>4. raw[s] \in 1 .. now => Expires(s) <= now
    BY <1>2, <2>3
  <2>5. QED
    BY <2>1, <2>2, <2>3, <2>4
<1>5. PICK todo : todo = OldestExpired(now)
  OBVIOUS
<1>6. Len(entries) = head /\ head \in Nat
  BY DEF IInv, ChainOk
<1>7. /\ todo \in Seq(Members(todo)) /\ Len(todo) > 0
      /\ \A n \in 1 .. Len(todo) : \E i \in ExpiredRaw(now) : todo[n] = entries[i].source
  BY <1>1, <1>4, <1>5, <1>6, OldestAreExpired
<1>8. \A i \in ExpiredRaw(now) : i \in 1 .. head /\ raw[entries[i].source] \in 1 .. now
  BY <1>6 DEF ExpiredRaw
<1>9. \A n \in 1 .. Len(todo) :
        todo[n] \in Source /\ identity[todo[n]] # 0 /\ Expires(todo[n]) <= now
  <2>1. ASSUME NEW n \in 1 .. Len(todo)
        PROVE  todo[n] \in Source /\ identity[todo[n]] # 0 /\ Expires(todo[n]) <= now
    <3>1. PICK i \in 1 .. head : todo[n] = entries[i].source /\ raw[entries[i].source] \in 1 .. now
      BY <1>7, <1>8
    <3>2. QED
      BY <1>4, <3>1
  <2>2. QED
    BY <2>1
<1>10. Len(todo) \in Nat /\ todo \in [1 .. Len(todo) -> Members(todo)]
  BY <1>7, LenProperties, ElementOfSeq
<1>11. todo \in [1 .. Len(todo) -> Source]
  BY <1>9, <1>10
<1>12. todo \in Seq(Source) /\ todo # <<>>
  <2>1. todo \in Seq(Source)
    BY <1>10, <1>11, SeqDef
  <2>2. QED
    BY <1>7, <2>1
<1>13. SweepOk'
  <2>1. DOMAIN sweep' = {"pc", "at", "todo"} /\ sweep'.pc = "delete" /\ sweep'.at = now
        /\ sweep'.todo = todo
    BY <1>1, <1>5
  <2>2. \A s : Expires(s)' = Expires(s)
    BY <1>1 DEF Expires
  <2>3. \A n \in 1 .. Len(todo) : identity'[todo[n]] # 0 /\ Expires(todo[n])' <= now
    BY <1>1, <1>9, <2>2
  <2>4. QED
    BY <1>1, <1>2, <1>12, <2>1, <2>3 DEF SweepOk, Expires
<1>14. late' \subseteq late
  BY <1>1
<1>15. QED
  BY <1>1, <1>2, <1>3, <1>13, <1>14, StoreOnly

LEMMA SweepDeleteStep ==
    ASSUME IInv, SweepDelete, UNCHANGED wvars
    PROVE  IInv'
<1>1. UNCHANGED <<now, head, entries, identity, job, late>> /\ sweep.pc = "delete"
  BY DEF SweepDelete
<1> DEFINE todo == sweep.todo
           s == Head(todo)
<1>2. /\ sweep.at \in 1 .. now /\ todo \in Seq(Source) /\ todo # <<>>
      /\ DOMAIN sweep = {"pc", "at", "todo"}
      /\ \A i \in 1 .. Len(todo) : identity[todo[i]] # 0 /\ Expires(todo[i]) <= sweep.at
  BY <1>1 DEF IInv, SweepOk
<1>3. /\ Len(todo) \in Nat /\ Len(todo) # 0 /\ s = todo[1]
      /\ \A i \in 1 .. Len(todo) : todo[i] \in Source
  BY <1>2
<1>4. s \in Source /\ identity[s] # 0 /\ Expires(s) <= sweep.at
  BY <1>2, <1>3
<1>5. /\ DeleteRaw(s, sweep.at) \/ UNCHANGED <<raw, tomb>>
      /\ Fault \/ NoFault
      /\ sweep' = NoSweep \/ (Len(todo) # 1 /\ sweep' = [sweep EXCEPT !.todo = Tail(todo)])
  BY DEF SweepDelete
<1>6. now \in Nat /\ sweep.at \in Nat /\ sweep.at <= now /\ now' \in 1 .. MaxTime /\ now <= now'
  BY <1>1, <1>2 DEF IInv, NumbersOk
<1>7. RawOk'
  <2>1. PICK t : t = s
    OBVIOUS
  <2>2. PICK at : at = sweep.at
    OBVIOUS
  <2>3. /\ t \in Source /\ identity[t] # 0 /\ at \in Nat /\ Expires(t) <= at /\ at <= now
        /\ DeleteRaw(t, at) \/ UNCHANGED <<raw, tomb>>
    BY <1>4, <1>5, <1>6, <2>1, <2>2
  <2>4. QED
    BY <1>1, <2>3, DeletionKeepsRaw DEF IInv
<1>8. faults' \in 0 .. MaxFaults
  BY <1>5, FaultsCounted DEF IInv
<1>9. SweepOk'
  <2>1. CASE sweep' = NoSweep
    BY <2>1 DEF SweepOk, NoSweep
  <2>2. CASE Len(todo) # 1 /\ sweep' = [sweep EXCEPT !.todo = Tail(todo)]
    <3>1. PICK rest : rest = Tail(todo)
      OBVIOUS
    <3>2. /\ rest \in Seq(Source) /\ Len(rest) = Len(todo) - 1
          /\ \A i \in 1 .. Len(rest) : rest[i] = todo[i + 1]
      BY <1>2, <3>1, HeadTailProperties
    <3>3. rest # <<>> /\ \A i \in 1 .. Len(rest) : i + 1 \in 1 .. Len(todo)
      <4>1. PICK n \in Nat : n = Len(todo)
        BY <1>3
      <4>2. n # 0 /\ n # 1 /\ Len(rest) = n - 1
        BY <1>3, <2>2, <3>2, <4>1
      <4>3. Len(rest) # 0
        BY <4>2
      <4>4. \A i \in 1 .. Len(rest) : i + 1 \in 1 .. n
        BY <4>2
      <4>5. rest # <<>>
        BY <4>3, Len(<<>>) = 0
      <4>6. QED
        BY <4>1, <4>4, <4>5
    <3>4. \A i \in 1 .. Len(rest) : identity[rest[i]] # 0 /\ Expires(rest[i]) <= sweep.at
      BY <1>2, <3>2, <3>3
    <3>5. DOMAIN sweep' = {"pc", "at", "todo"} /\ sweep'.pc = "delete" /\ sweep'.at = sweep.at
          /\ sweep'.todo = rest
      BY <1>1, <1>2, <2>2, <3>1
    <3>6. \A i \in 1 .. Len(rest) : identity'[rest[i]] # 0 /\ Expires(rest[i])' <= sweep.at
      BY <1>1, <3>4 DEF Expires
    <3>7. QED
      BY <1>1, <1>2, <3>2, <3>3, <3>5, <3>6 DEF SweepOk, Expires
  <2>3. QED
    BY <1>5, <2>1, <2>2
<1>10. late' \subseteq late
  BY <1>1
<1>11. QED
  BY <1>1, <1>6, <1>7, <1>8, <1>9, <1>10, StoreOnly

LEMMA TickStep ==
    ASSUME IInv, Tick, UNCHANGED wvars
    PROVE  IInv'
<1>1. /\ UNCHANGED <<head, entries, identity, raw, tomb, job, late, sweep, faults>>
      /\ now' = now + 1 /\ now < MaxTime
  BY DEF Tick, store
<1>2. now' \in 1 .. MaxTime /\ now <= now' /\ faults' \in 0 .. MaxFaults /\ now' \in Nat
  BY <1>1, TimelineConstants DEF IInv, NumbersOk
<1>3. RawOk'
  BY <1>1, <1>2, RawKept DEF IInv
<1>4. SweepOk'
  <2>1. sweep.at \in 1 .. now => sweep.at \in 1 .. now'
    BY <1>1, <1>2 DEF IInv, NumbersOk
  <2>2. QED
    BY <1>1, <2>1 DEF IInv, SweepOk, Expires
<1>5. late' \subseteq late
  BY <1>1
<1>6. QED
  BY <1>1, <1>2, <1>3, <1>4, <1>5, StoreOnly

-----------------------------------------------------------------------------
\* The world around the workflow: epochs open, and receipts are written once.

LEMMA AdvanceOk ==
    ASSUME NumbersOk, NEW n \in {0, 1}, Advance(n), UNCHANGED <<now, faults>>,
           revoked' \in {revoked, now}
    PROVE  NumbersOk' /\ fences <= fences' /\ fences' \in Nat /\ epoch <= epoch'
<1>1. /\ epoch \in Nat /\ fences \in Nat /\ fences <= epoch /\ 1 <= epoch /\ now \in Nat
      /\ now \in 1 .. MaxTime /\ revoked \in 0 .. now
      /\ epoch < MaxEpoch /\ epoch' = epoch + 1 /\ fences' = fences + n
      /\ opened' = [opened EXCEPT ![epoch + 1] = now]
  BY DEF NumbersOk, Advance
<1>2. epoch' \in 1 .. MaxEpoch /\ fences' \in 0 .. epoch' /\ epoch' >= 2 /\ fences <= fences'
  BY <1>1, CompletionTimelineConstants
<1>3. revoked' \in 0 .. now'
  BY <1>1
<1>4. opened' \in [1 .. MaxEpoch -> Nat]
  BY <1>1 DEF NumbersOk
<1>5. ASSUME NEW e \in 1 .. epoch' PROVE opened'[e] \in 1 .. now'
  <2>1. CASE e = epoch + 1
    <3>1. e \in 1 .. MaxEpoch
      BY <1>1, <1>2, <2>1
    <3>2. opened'[e] = now
      BY <1>1, <2>1, <3>1 DEF NumbersOk
    <3>3. QED
      BY <1>1, <3>2
  <2>2. CASE e # epoch + 1
    <3>1. e \in 1 .. epoch /\ e \in 1 .. MaxEpoch
      <4>1. PICK m \in Nat : m = epoch /\ epoch' = m + 1
        BY <1>1
      <4>2. e \in 1 .. m + 1 /\ e # m + 1 /\ m < MaxEpoch /\ MaxEpoch \in Nat
        BY <1>1, <2>2, <4>1, CompletionTimelineConstants
      <4>3. QED
        BY <4>1, <4>2
    <3>2. opened'[e] = opened[e]
      BY <1>1, <2>2, <3>1 DEF NumbersOk
    <3>3. QED
      BY <3>1, <3>2 DEF NumbersOk
  <2>3. QED
    BY <2>1, <2>2
<1>6. QED
  BY <1>1, <1>2, <1>3, <1>4, <1>5 DEF NumbersOk

\* A receipt that is written stays as it is.
ReceiptsStay == \A r \in Receipt : receipt[r] # NoReceipt => receipt'[r] = receipt[r]

LEMMA ReceiptsKept ==
    ASSUME ReceiptsOk, NumbersOk, NumbersOk', now <= now', epoch <= epoch', receipt' = receipt
    PROVE  ReceiptsOk' /\ ReceiptsStay
<1>1. now \in Nat /\ now' \in Nat /\ epoch \in Nat /\ epoch' \in Nat
  BY DEF NumbersOk
<1>2. ASSUME NEW r \in Receipt PROVE ReceiptOk(r)'
  <2>1. ReceiptOk(r)
    BY DEF ReceiptsOk
  <2>2. CASE receipt[r] = NoReceipt
    BY <2>2 DEF ReceiptOk
  <2>3. CASE receipt[r] # NoReceipt
    <3>1. receipt[r] \in ReceiptBodies /\ receipt[r].observed <= epoch /\ receipt[r].updated <= now
      BY <2>1, <2>3 DEF ReceiptOk
    <3>2. receipt[r].observed \in Nat /\ receipt[r].updated \in Nat
      BY <3>1, TimelineConstants, CompletionTimelineConstants DEF ReceiptBodies
    <3>3. receipt[r].observed <= epoch' /\ receipt[r].updated <= now'
      BY <1>1, <3>1, <3>2
    <3>4. QED
      BY <2>1, <2>3, <3>3 DEF ReceiptOk
  <2>4. QED
    BY <2>2, <2>3
<1>3. QED
  BY <1>2 DEF ReceiptsOk, ReceiptsStay

LEMMA ReceiptWritten ==
    ASSUME ReceiptsOk, NumbersOk, UNCHANGED <<now, epoch>>, NEW r \in Receipt,
           receipt[r] = NoReceipt, NEW v, v \in ReceiptBodies, v.id = <<"receipt", r>>,
           v.action = "PROMOTE_CANDIDATE", v.observed <= epoch, v.updated <= now,
           receipt' = [receipt EXCEPT ![r] = v]
    PROVE  ReceiptsOk' /\ ReceiptsStay
<1>1. DOMAIN receipt' = Receipt /\ receipt'[r] = v
      /\ \A q \in Receipt : q # r => receipt'[q] = receipt[q]
  BY DEF ReceiptsOk
<1>2. ASSUME NEW q \in Receipt PROVE ReceiptOk(q)'
  <2>1. CASE q = r
    BY <1>1, <2>1 DEF ReceiptOk
  <2>2. CASE q # r
    BY <1>1, <2>2 DEF ReceiptOk, ReceiptsOk
  <2>3. QED
    BY <2>1, <2>2
<1>3. QED
  BY <1>1, <1>2 DEF ReceiptsOk, ReceiptsStay

\* A step that neither a call nor the store takes.
LEMMA WorldMoves ==
    ASSUME IInv, UNCHANGED <<tvars, work>>, NumbersOk', ReceiptsOk', ReceiptsStay,
           fences <= fences', revoked # 0 => revoked' # 0
    PROVE  IInv'
<1>1. UNCHANGED <<now, head, entries, identity, raw, tomb, job, late, sweep, work>>
  BY DEF tvars
<1>2. NumbersOk /\ ChainOk /\ JobsOk /\ LateOk /\ CallsOk /\ RawOk /\ SweepOk
  BY DEF IInv
<1>3. now \in Nat /\ now' \in Nat /\ fences' \in Nat /\ now <= now'
  BY <1>1, <1>2 DEF NumbersOk
<1>4. Grows /\ ChainOk' /\ Known' = Known
  BY <1>1, <1>2, <1>3, Unmoved DEF ReceiptsStay
<1>5. RawOk'
  BY <1>1, <1>2, <1>3, RawKept
<1>6. JobsOk' /\ LateOk' /\ SweepOk'
  BY <1>1, <1>2, <1>4, JobsSame, LateKept, SweepKept
<1>7. \A d \in Caller : Lost(d)' \/ (~ Lost(d) /\ InHand(d) \subseteq InHand(d)')
  BY <1>1, <1>4 DEF Lost, InHand
<1>8. CallsOk'
  BY <1>1, <1>2, <1>4, <1>7, CallsSame
<1>9. QED
  BY <1>4, <1>5, <1>6, <1>8 DEF IInv

LEMMA FenceStep ==
    ASSUME IInv, Fence
    PROVE  IInv'
<1>1. Advance(1) /\ UNCHANGED <<tvars, revoked, receipt, work>> /\ UNCHANGED <<now, faults>>
  BY DEF Fence, tvars
<1>2. NumbersOk' /\ fences <= fences' /\ epoch <= epoch'
  BY <1>1, AdvanceOk DEF IInv
<1>3. ReceiptsOk' /\ ReceiptsStay
  BY <1>1, <1>2, ReceiptsKept DEF IInv, NumbersOk
<1>4. QED
  BY <1>1, <1>2, <1>3, WorldMoves

LEMMA DenyStep ==
    ASSUME IInv, NEW r \in Receipt, Deny(r)
    PROVE  IInv'
<1> DEFINE v == [outcome |-> "DENIED", reason |-> "EPOCH_MISMATCH",
                 action |-> "PROMOTE_CANDIDATE", epoch |-> 1, observed |-> epoch,
                 updated |-> now, id |-> <<"receipt", r>>]
<1>1. /\ receipt[r] = NoReceipt /\ receipt' = [receipt EXCEPT ![r] = v]
      /\ UNCHANGED <<tvars, work>>
      /\ UNCHANGED <<now, faults, epoch, opened, fences, revoked>>
  BY DEF Deny, tvars, authority
<1>2. NumbersOk /\ epoch \in 1 .. MaxEpoch /\ 1 \in 1 .. MaxEpoch /\ now \in 1 .. MaxTime
  BY CompletionTimelineConstants DEF IInv, NumbersOk
<1>3. /\ v \in ReceiptBodies /\ v.id = <<"receipt", r>> /\ v.action = "PROMOTE_CANDIDATE"
      /\ v.observed <= epoch /\ v.updated <= now
  BY <1>2 DEF ReceiptBodies, Outcomes, Actions
<1> HIDE DEF v
<1>4. ReceiptsOk' /\ ReceiptsStay
  BY <1>1, <1>2, <1>3, ReceiptWritten DEF IInv
<1>5. NumbersOk' /\ fences <= fences'
  BY <1>1, <1>2 DEF NumbersOk
<1>6. QED
  BY <1>1, <1>4, <1>5, WorldMoves

LEMMA FinishStep ==
    ASSUME IInv, NEW r \in Receipt, Finish(r)
    PROVE  IInv'
<1>1. PICK outcome \in {"VERIFIED", "AMBIGUOUS"} :
        receipt' = [receipt EXCEPT ![r] =
              [outcome |-> outcome,
               reason |-> IF outcome = "VERIFIED" THEN "NONE" ELSE "PROVIDER_OUTCOME_AMBIGUOUS",
               action |-> "PROMOTE_CANDIDATE", epoch |-> 1, observed |-> 1, updated |-> now,
               id |-> <<"receipt", r>>]]
  BY DEF Finish
<1>2. PICK reason \in {"NONE", "PROVIDER_OUTCOME_AMBIGUOUS"} :
        reason = IF outcome = "VERIFIED" THEN "NONE" ELSE "PROVIDER_OUTCOME_AMBIGUOUS"
  OBVIOUS
<1> DEFINE v == [outcome |-> outcome, reason |-> reason, action |-> "PROMOTE_CANDIDATE",
                 epoch |-> 1, observed |-> 1, updated |-> now, id |-> <<"receipt", r>>]
<1>3. /\ receipt[r] = NoReceipt /\ receipt' = [receipt EXCEPT ![r] = v] /\ epoch = 1
      /\ UNCHANGED <<tvars, work>>
      /\ UNCHANGED <<now, faults, epoch, opened, fences, revoked>>
  BY <1>1, <1>2 DEF Finish, tvars, authority
<1>4. NumbersOk /\ 1 \in 1 .. MaxEpoch /\ now \in 1 .. MaxTime
  BY CompletionTimelineConstants DEF IInv, NumbersOk
<1>5. /\ v \in ReceiptBodies /\ v.id = <<"receipt", r>> /\ v.action = "PROMOTE_CANDIDATE"
      /\ v.observed <= epoch /\ v.updated <= now
  BY <1>3, <1>4 DEF ReceiptBodies, Outcomes, Actions
<1> HIDE DEF v
<1>6. ReceiptsOk' /\ ReceiptsStay
  BY <1>3, <1>4, <1>5, ReceiptWritten DEF IInv
<1>7. NumbersOk' /\ fences <= fences'
  BY <1>3, <1>4 DEF NumbersOk
<1>8. QED
  BY <1>3, <1>6, <1>7, WorldMoves

-----------------------------------------------------------------------------
\* A step of the workflow: one call moves, and may begin an append.

LEMMA CallStep ==
    ASSUME IInv, NEW c \in Caller, NEW w, CallOk(c, w)', work' = [work EXCEPT ![c] = w],
           UNCHANGED <<now, head, entries, identity, raw, tomb, late, sweep>>,
           NumbersOk', ReceiptsOk', ReceiptsStay, fences <= fences', revoked # 0 => revoked' # 0,
           NEW k, JobInv(k), \/ job' = job
                             \/ job' = [job EXCEPT ![c] = k]
    PROVE  IInv'
<1>1. NumbersOk /\ ChainOk /\ JobsOk /\ LateOk /\ CallsOk /\ RawOk /\ SweepOk
  BY DEF IInv
<1>2. now \in Nat /\ now' \in Nat /\ fences' \in Nat /\ now <= now'
  BY <1>1 DEF NumbersOk
<1>3. Grows /\ ChainOk' /\ Known' = Known
  BY <1>1, <1>2, Unmoved DEF ReceiptsStay
<1>4. RawOk'
  BY <1>1, <1>2, RawKept
<1>5. JobsOk' /\ \A d \in Caller : d # c => job'[d] = job[d]
  <2>1. CASE job' = job
    BY <1>1, <1>3, <2>1, JobsSame
  <2>2. CASE job' = [job EXCEPT ![c] = k]
    <3>1. JobInv(k)'
      BY <1>1, <1>3, JobKept
    <3>2. QED
      BY <1>1, <1>3, <2>2, <3>1, JobsKept DEF JobsOk
  <2>3. QED
    BY <2>1, <2>2
<1>6. LateOk' /\ SweepOk'
  BY <1>1, <1>3, LateKept, SweepKept
<1>7. CallsOk'
  BY <1>1, <1>3, <1>5, CallsStep
<1>8. QED
  BY <1>3, <1>4, <1>5, <1>6, <1>7 DEF IInv

\* What the step of a call leaves alone, but for the call that begins a revocation.
Aside == UNCHANGED <<now, head, entries, identity, raw, tomb, late, sweep,
                     epoch, opened, fences, revoked, receipt>>

LEMMA CallMoves ==
    ASSUME IInv, NEW c \in Caller, NEW w, WorkTyped(w), WorkFits(w),
           work' = [work EXCEPT ![c] = w], Aside, faults' \in 0 .. MaxFaults,
           NEW k, JobInv(k), \/ job' = job /\ k = job[c]
                             \/ job' = [job EXCEPT ![c] = k],
           w.pc = "record" => Promise(c, w, Known \cup Sources(k.items)),
           w.pc = "route" \/ (w.pc = "done" /\ w.out = "ok") => Promise(c, w, Known)
    PROVE  IInv'
<1>1. /\ UNCHANGED <<now, head, entries, identity, raw, tomb, late, sweep>>
      /\ UNCHANGED <<epoch, opened, fences, revoked, receipt>>
  BY DEF Aside
<1>2. NumbersOk' /\ ReceiptsOk' /\ ReceiptsStay /\ fences <= fences'
  BY <1>1 DEF IInv, NumbersOk, ReceiptsOk, ReceiptOk, ReceiptsStay
<1>3. job'[c] = k
  BY DEF IInv, JobsOk
<1>4. WorkFits(w)'
  BY <1>1 DEF WorkFits, OfOk
<1>5. WorkTyped(w)'
  BY DEF WorkTyped
<1>6. PromiseKept(c, w)'
  <2>1. Known' = Known /\ fences' = fences
    BY <1>1 DEF Known
  <2>2. InHand(c)' = Known \cup Sources(k.items)
    BY <1>3, <2>1 DEF InHand
  <2>3. w.pc = "record" => Promise(c, w, InHand(c))'
    BY <2>1, <2>2 DEF Promise
  <2>4. w.pc = "route" \/ (w.pc = "done" /\ w.out = "ok") => Promise(c, w, Known)'
    BY <2>1 DEF Promise
  <2>5. QED
    BY <2>3, <2>4 DEF PromiseKept
<1>7. CallOk(c, w)'
  BY <1>4, <1>5, <1>6 DEF CallOk
<1>8. QED
  BY <1>1, <1>2, <1>7, CallStep

-----------------------------------------------------------------------------
\* The events of a group.

LEMMA IdleFacts ==
    /\ DOMAIN Idle = WorkShape /\ Idle.pc = "idle" /\ Idle.kind = "none" /\ Idle.out = "none"
    /\ ValidEvidence(Idle.configuration) /\ Idle.configuration.kind = "CONFIGURATION"
    /\ ValidEvidence(Idle.probe) /\ Idle.probe.kind = "PROBE"
<1>1. \A kind \in {"CONFIGURATION", "PROBE"} :
        ValidEvidence(NoEvidence(kind)) /\ NoEvidence(kind).kind = kind
  BY DEF ValidEvidence, NoEvidence
<1>2. /\ Idle.configuration = NoEvidence("CONFIGURATION") /\ Idle.probe = NoEvidence("PROBE")
      /\ DOMAIN Idle = WorkShape /\ Idle.pc = "idle" /\ Idle.kind = "none" /\ Idle.out = "none"
  BY DEF Idle, WorkShape
<1>3. QED
  BY <1>1, <1>2

LEMMA EvidenceEventOk ==
    ASSUME NEW n \in 1 .. MaxEpoch
    PROVE  LET e == EvidenceEvent(n)
           IN Genuine(e) /\ ~ IsVerdict(e) /\ e.source = <<"evidence", n>>
<1>1. <<"evidence", n>> \in Source
  BY CompletionTimelineConstants DEF AllSources
<1>2. QED
  BY <1>1 DEF EvidenceEvent, Event, Genuine, BodyOk, IsVerdict

LEMMA OperatorEventOk ==
    ASSUME NEW c \in Caller
    PROVE  LET e == OperatorEvent(c)
           IN Genuine(e) /\ ~ IsVerdict(e) /\ e.source = <<"operator", c>>
<1>1. <<"operator", c>> \in Source
  BY CompletionTimelineConstants DEF AllSources
<1>2. QED
  BY <1>1 DEF OperatorEvent, Event, Genuine, BodyOk, IsVerdict

LEMMA ReceiptEventOk ==
    ASSUME ReceiptsOk, NEW r, r \in Receipt, receipt[r] # NoReceipt
    PROVE  LET e == ReceiptEvent(receipt[r])
           IN /\ Genuine(e) /\ ~ IsVerdict(e)
              /\ e.source = <<"receipt", r>> /\ e.source = receipt[r].id /\ e.body = receipt[r]
<1>1. <<"receipt", r>> \in Source
  BY CompletionTimelineConstants DEF AllSources
<1>2. receipt[r] \in ReceiptBodies /\ receipt[r].id = <<"receipt", r>>
  BY DEF ReceiptsOk, ReceiptOk
<1>3. ReceiptEvent(receipt[r]) = Event(<<"receipt", r>>, receipt[r])
  BY <1>2 DEF ReceiptEvent
<1>4. QED
  BY <1>1, <1>2, <1>3 DEF Event, Genuine, BodyOk, IsVerdict

LEMMA VerificationEventOk ==
    ASSUME NEW c \in Caller, NEW ev, ValidEvidence(ev)
    PROVE  LET e == VerificationEvent(c, ev)
           IN /\ Genuine(e) /\ ~ IsVerdict(e)
              /\ e.source = <<ev.kind, c>> /\ e.body = ev
<1>1. ev.kind \in {"CONFIGURATION", "PROBE"}
  BY DEF ValidEvidence
<1>2. <<ev.kind, c>> \in Source
  BY <1>1, CompletionTimelineConstants DEF AllSources
<1>3. QED
  BY <1>1, <1>2 DEF VerificationEvent, Event, Genuine, BodyOk, IsVerdict

LEMMA ClassificationEventOk ==
    ASSUME NEW c \in Caller, NEW b, ValidClassification(b)
    PROVE  LET e == ClassificationEvent(c, b)
           IN /\ Genuine(e) /\ e.source = <<"classification", c>> /\ e.body = b
              /\ IsVerdict(e) => b.status = "COMPLETE"
<1>1. <<"classification", c>> \in Source
  BY CompletionTimelineConstants DEF AllSources
<1>2. QED
  BY <1>1 DEF ClassificationEvent, Event, Genuine, BodyOk, IsVerdict

LEMMA RevocationEventOk ==
    ASSUME NEW n \in 0 .. MaxEpoch, NEW b, ValidClassification(b)
    PROVE  LET e == RevocationEvent(n, b)
           IN Genuine(e) /\ e.source = <<"revocation", n>> /\ e.body = b
<1>1. <<"revocation", n>> \in Source
  BY CompletionTimelineConstants DEF AllSources
<1>2. QED
  BY <1>1 DEF RevocationEvent, Event, Genuine, BodyOk

\* A group that ends in a verdict stands on the events before it.
LEMMA GroupOfVerdict ==
    ASSUME NEW pre, pre \in Seq(Members(pre)), NEW e, ValidGroup(pre \o <<e>>),
           \A x \in Members(pre) : Genuine(x) /\ ~ IsVerdict(x),
           Genuine(e), Backed(e, Members(pre))
    PROVE  /\ GroupOk(pre \o <<e>>)
           /\ Sources(pre \o <<e>>) = Sources(pre) \cup {e.source}
<1>1. PICK items : items = pre \o <<e>>
  OBVIOUS
<1>2. PICK n \in Nat : n = Len(pre)
  BY SeqFacts
<1>3. /\ <<e>> \in Seq(Members(<<e>>)) /\ Len(<<e>>) = 1 /\ <<e>>[1] = e
      /\ Sources(<<e>>) = {e.source}
  BY SingleFacts
<1>4. /\ items \in Seq(Members(items)) /\ Len(items) = n + 1
      /\ \A i \in 1 .. n : items[i] = pre[i]
      /\ items[n + 1] = e /\ Sources(items) = Sources(pre) \cup {e.source}
  <2>1. PICK s : s = <<e>>
    OBVIOUS
  <2>2. s \in Seq(Members(s)) /\ Len(s) = 1 /\ s[1] = e /\ Sources(s) = {e.source}
    BY <1>3, <2>1
  <2>3. /\ pre \o s \in Seq(Members(pre \o s)) /\ Len(pre \o s) = Len(pre) + Len(s)
        /\ \A i \in 1 .. Len(pre) : (pre \o s)[i] = pre[i]
        /\ \A i \in 1 .. Len(s) : (pre \o s)[Len(pre) + i] = s[i]
        /\ Sources(pre \o s) = Sources(pre) \cup Sources(s)
    BY <2>2, ConcatFacts
  <2>4. 1 \in 1 .. Len(s)
    BY <2>2
  <2>5. (pre \o s)[n + 1] = e
    BY <1>2, <2>2, <2>3, <2>4
  <2>6. items = pre \o s
    BY <1>1, <2>1
  <2>7. QED
    BY <1>2, <2>2, <2>3, <2>5, <2>6
<1>5. ValidGroup(items)
  BY <1>1
<1>6. \A i, k \in 1 .. Len(items) : items[i].source = items[k].source => i = k
  BY <1>4, <1>5, SourcesDistinct DEF ValidGroup
<1>7. ASSUME NEW i \in 1 .. Len(items)
      PROVE  Genuine(items[i]) /\ Backed(items[i], Stored \cup {items[k] : k \in 1 .. i - 1})
  <2>1. CASE i \in 1 .. n
    <3>1. items[i] = pre[i] /\ pre[i] \in Members(pre)
      BY <1>2, <1>4, <2>1 DEF Members
    <3>2. Genuine(items[i]) /\ ~ IsVerdict(items[i])
      BY <3>1
    <3>3. QED
      BY <3>2 DEF Backed
  <2>2. CASE i \notin 1 .. n
    <3>1. i = n + 1 /\ i - 1 = n
      BY <1>4, <2>2
    <3>2. Members(pre) \subseteq Stored \cup {items[k] : k \in 1 .. n}
      BY <1>2, <1>4 DEF Members
    <3>3. PICK S : S = Stored \cup {items[k] : k \in 1 .. n}
      OBVIOUS
    <3>4. Backed(e, S)
      BY <3>2, <3>3, BackedMore
    <3>5. QED
      BY <1>4, <3>1, <3>3, <3>4
  <2>3. QED
    BY <2>1, <2>2
<1>8. GroupOk(items)
  BY <1>4, <1>5, <1>6, <1>7 DEF GroupOk
<1>9. QED
  BY <1>1, <1>4, <1>8

\* A single event that is no verdict.
LEMMA SingleGroup ==
    ASSUME NEW e, Genuine(e), ~ IsVerdict(e)
    PROVE  GroupOk(<<e>>) /\ Sources(<<e>>) = {e.source}
<1>1. PICK s : s = <<e>>
  OBVIOUS
<1>2. s \in Seq(Members(s)) /\ Len(s) = 1 /\ s[1] = e /\ Sources(s) = {e.source}
  BY <1>1, SingleFacts
<1>3. Cardinality(Sources(s)) = 1
  BY <1>2, FS_Singleton
<1>4. ValidGroup(s)
  <2>1. s # <<>>
    BY <1>2, Len(<<>>) = 0
  <2>2. QED
    BY <1>2, <1>3, <2>1 DEF ValidGroup
<1>5. \A i \in 1 .. Len(s) : i = 1
  BY <1>2
<1>6. \A i \in 1 .. Len(s) :
        Genuine(s[i]) /\ Backed(s[i], Stored \cup {s[k] : k \in 1 .. i - 1})
  BY <1>2, <1>5 DEF Backed
<1>7. GroupOk(s)
  BY <1>2, <1>4, <1>5, <1>6 DEF GroupOk
<1>8. QED
  BY <1>1, <1>2, <1>7

\* An event that is there or not.
LEMMA OptionalEvent ==
    ASSUME NEW e, NEW absent \in BOOLEAN
    PROVE  LET s == IF absent THEN <<>> ELSE <<e>>
           IN s \in Seq(Members(s)) /\ Members(s) = IF absent THEN {} ELSE {e}
<1>1. <<>> \in Seq(Members(<<>>)) /\ Members(<<>>) = {}
  BY DEF Members
<1>2. <<e>> \in Seq(Members(<<e>>)) /\ Members(<<e>>) = {e}
  <2>1. PICK s : s = <<e>>
    OBVIOUS
  <2>2. s \in Seq(Members(s)) /\ Len(s) = 1 /\ s[1] = e
    BY <2>1, SingleFacts
  <2>3. QED
    BY <2>1, <2>2 DEF Members
<1>3. QED
  BY <1>1, <1>2

LEMMA ObservedFacts ==
    ASSUME NEW c \in Caller, NEW w, WorkTyped(w)
    PROVE  LET o == ObservedEvents(c, w)
           IN /\ o \in Seq(Members(o))
              /\ \A x \in Members(o) : Genuine(x) /\ ~ IsVerdict(x)
              /\ \A ev \in {w.configuration, w.probe} :
                   ev.verdict # "ABSENT" => VerificationEvent(c, ev) \in Members(o)
<1> DEFINE configuration == VerificationEvent(c, w.configuration)
           probe == VerificationEvent(c, w.probe)
           s == IF w.configuration.verdict = "ABSENT" THEN <<>> ELSE <<configuration>>
           t == IF w.probe.verdict = "ABSENT" THEN <<>> ELSE <<probe>>
<1>1. ValidEvidence(w.configuration) /\ ValidEvidence(w.probe)
  BY DEF WorkTyped
<1>2. /\ Genuine(configuration) /\ ~ IsVerdict(configuration)
      /\ Genuine(probe) /\ ~ IsVerdict(probe)
  BY <1>1, VerificationEventOk
<1>3. ObservedEvents(c, w) = s \o t
  BY DEF ObservedEvents
<1> HIDE DEF configuration, probe
<1>4. /\ s \in Seq(Members(s))
      /\ Members(s) = IF w.configuration.verdict = "ABSENT" THEN {} ELSE {configuration}
  BY OptionalEvent
<1>5. /\ t \in Seq(Members(t))
      /\ Members(t) = IF w.probe.verdict = "ABSENT" THEN {} ELSE {probe}
  BY OptionalEvent
<1> HIDE DEF s, t
<1>6. s \o t \in Seq(Members(s \o t)) /\ Members(s \o t) = Members(s) \cup Members(t)
  BY <1>4, <1>5, ConcatFacts
<1>7. \A x \in Members(s \o t) : Genuine(x) /\ ~ IsVerdict(x)
  BY <1>2, <1>4, <1>5, <1>6
<1>8. \A ev \in {w.configuration, w.probe} :
        ev.verdict # "ABSENT" => VerificationEvent(c, ev) \in Members(s \o t)
  BY <1>4, <1>5, <1>6 DEF configuration, probe
<1>9. QED
  BY <1>3, <1>6, <1>7, <1>8

-----------------------------------------------------------------------------
\* The verdicts of the classifier.

LEMMA KindOfReason ==
    ASSUME NEW b, ClassificationReason(b) \in CompleteReasons
    PROVE  /\ b.kind = "REVOCATION" => ClassificationReason(b) = "REVOCATION_COMPLETE"
           /\ b.kind = "STALE_DENIAL" =>
                /\ ClassificationReason(b) = "STALE_CAPABILITY_DENIAL_COMPLETE"
                /\ StaleDenialReason(b) = "STALE_CAPABILITY_DENIAL_COMPLETE"
           /\ b.kind = "PROMOTION" =>
                /\ ClassificationReason(b) = "PROMOTION_COMPLETE"
                /\ ReceiptReason(b) = "PROMOTION_COMPLETE"
<1>1. /\ RevocationReason(b) \in CompleteReasons => RevocationReason(b) = "REVOCATION_COMPLETE"
      /\ StaleDenialReason(b) \in CompleteReasons =>
           StaleDenialReason(b) = "STALE_CAPABILITY_DENIAL_COMPLETE"
  BY DEF RevocationReason, StaleDenialReason, CompleteReasons
<1>2. ConfigurationVerdict(b) \notin CompleteReasons /\ ProbeVerdict(b) \notin CompleteReasons
  BY DEF ConfigurationVerdict, ProbeVerdict, CompleteReasons
<1>3. b.kind = "PROMOTION" /\ ReceiptReason(b) \in CompleteReasons =>
        ReceiptReason(b) = "PROMOTION_COMPLETE"
  BY <1>2 DEF ReceiptReason, CompleteReasons
<1>4. \/ ClassificationReason(b) \in {"UNCERTAIN_WRITE", "EVIDENCE_BINDING_MISMATCH"}
      \/ b.kind = "REVOCATION" /\ ClassificationReason(b) = RevocationReason(b)
      \/ b.kind = "STALE_DENIAL" /\ ClassificationReason(b) = StaleDenialReason(b)
      \/ /\ b.kind \notin {"REVOCATION", "STALE_DENIAL"}
         /\ ClassificationReason(b) = ReceiptReason(b)
  BY DEF ClassificationReason
<1>5. ClassificationReason(b) \notin {"UNCERTAIN_WRITE", "EVIDENCE_BINDING_MISMATCH"}
  BY DEF CompleteReasons
<1>6. QED
  BY <1>1, <1>3, <1>4, <1>5

\* The reasons that are COMPLETE for one kind are so for that kind alone.
LEMMA ClassificationIsValid ==
    ASSUME NEW b, b.kind \in {"REVOCATION", "STALE_DENIAL", "PROMOTION"},
           ValidAssessment(b.kind, b.request, b.assessed)
    PROVE  LET v == ClassifyCompletion(b)
           IN /\ ValidClassification(v) /\ v.kind = b.kind /\ v.request = b.request
              /\ v.status = "COMPLETE" => ClassificationReason(b) \in CompleteReasons
<1> DEFINE reason == ClassificationReason(b)
           status == IF reason \in CompleteReasons THEN "COMPLETE" ELSE "AMBIGUOUS"
           v == [kind |-> b.kind, request |-> b.request, reason |-> reason,
                 status |-> status, at |-> b.assessed]
<1>1. ClassifyCompletion(b) = v
  BY DEF ClassifyCompletion
<1>2. /\ b.kind = "REVOCATION" /\ reason \in CompleteReasons => reason = "REVOCATION_COMPLETE"
      /\ b.kind = "STALE_DENIAL" /\ reason \in CompleteReasons =>
           reason = "STALE_CAPABILITY_DENIAL_COMPLETE"
      /\ b.kind = "PROMOTION" /\ reason \in CompleteReasons => reason = "PROMOTION_COMPLETE"
  BY KindOfReason
<1> HIDE DEF reason
<1>3. status = "COMPLETE" <=> reason \in CompleteReasons
  OBVIOUS
<1> HIDE DEF status
<1>4. /\ v.kind = b.kind /\ v.request = b.request /\ v.reason = reason
      /\ v.status = status /\ v.at = b.assessed
  OBVIOUS
<1> HIDE DEF v
<1>5. (status = "COMPLETE") =
        (reason = CASE b.kind = "PROMOTION" -> "PROMOTION_COMPLETE"
                    [] b.kind = "RECOVERY" -> "RECOVERY_COMPLETE"
                    [] b.kind = "REVOCATION" -> "REVOCATION_COMPLETE"
                    [] b.kind = "STALE_DENIAL" -> "STALE_CAPABILITY_DENIAL_COMPLETE")
  <2>1. CASE b.kind = "REVOCATION"
    BY <1>2, <1>3, <2>1 DEF CompleteReasons
  <2>2. CASE b.kind = "STALE_DENIAL"
    BY <1>2, <1>3, <2>2 DEF CompleteReasons
  <2>3. CASE b.kind = "PROMOTION"
    BY <1>2, <1>3, <2>3 DEF CompleteReasons
  <2>4. QED
    BY <2>1, <2>2, <2>3
<1>6. ValidClassification(v)
  BY <1>4, <1>5 DEF ValidClassification
<1>7. QED
  BY <1>1, <1>3, <1>4, <1>6 DEF reason

\* A COMPLETE denial has the advancement that opened the epoch which the
\* denied receipt observed, later than its own.
LEMMA DenialVerdict ==
    ASSUME NEW b, StaleDenialReason(b) = "STALE_CAPABILITY_DENIAL_COMPLETE"
    PROVE  /\ b.authority.kind = "EPOCH_ADVANCEMENT"
           /\ b.execution.outcome = "DENIED"
           /\ ~ (b.execution.observed <= b.execution.epoch)
  BY DEF StaleDenialReason, AuthorityMatches

\* A COMPLETE promotion has both observations of its own request.
LEMMA PromotionVerdict ==
    ASSUME NEW b, b.kind = "PROMOTION", ReceiptReason(b) = "PROMOTION_COMPLETE"
    PROVE  /\ b.configuration.verdict \notin {"ABSENT", "UNAVAILABLE", "MISMATCH"}
           /\ b.configuration.kind = "CONFIGURATION" /\ b.configuration.request = b.request
           /\ b.probe.verdict \notin {"ABSENT", "INCONCLUSIVE"}
           /\ b.probe.kind = "PROBE" /\ b.probe.request = b.request
<1>1. ConfigurationVerdict(b) = "MATCH" \/ ConfigurationVerdict(b) = "PROMOTION_COMPLETE"
  BY DEF ReceiptReason
<1>2. ProbeVerdict(b) = "MATCH" \/ ProbeVerdict(b) = "PROMOTION_COMPLETE"
  BY <1>1 DEF ReceiptReason, ConfigurationVerdict
<1>3. ConfigurationVerdict(b) = "MATCH" /\ ProbeVerdict(b) = "MATCH"
  BY <1>1, <1>2 DEF ConfigurationVerdict, ProbeVerdict
<1>4. /\ b.configuration.verdict \notin {"ABSENT", "UNAVAILABLE", "MISMATCH"}
      /\ EvidenceMatches(b.configuration, b, "CONFIGURATION")
  BY <1>3 DEF ConfigurationVerdict
<1>5. b.probe.verdict \notin {"ABSENT", "INCONCLUSIVE"} /\ EvidenceMatches(b.probe, b, "PROBE")
  BY <1>3 DEF ProbeVerdict
<1>6. QED
  BY <1>4, <1>5 DEF EvidenceMatches

\* What the assessment of a call concludes, and on what.
LEMMA AssessedOk ==
    ASSUME IInv, NEW c \in Caller, NEW w, WorkTyped(w), WorkFits(w), w.pc = "classify",
           w.kind \in {"denial", "complete"}, NEW intentVerified \in BOOLEAN
    PROVE  LET b == Assessed(w, intentVerified)
           IN /\ ValidClassification(b)
              /\ b.kind = IF w.kind = "complete" THEN "PROMOTION" ELSE "STALE_DENIAL"
              /\ b.request = w.request
              /\ b.status = "COMPLETE" /\ w.kind = "complete" =>
                   \A ev \in {w.configuration, w.probe} :
                     ev.verdict = "MATCH" /\ ev.request = w.request
              /\ b.status = "COMPLETE" /\ w.kind = "denial" =>
                   /\ w.proof.kind = "EPOCH_ADVANCEMENT"
                   /\ w.of.outcome = "DENIED" /\ ~ (w.of.observed <= w.of.epoch)
<1> DEFINE kind == IF w.kind = "complete" THEN "PROMOTION" ELSE "STALE_DENIAL"
           execution == ExecutionEvidence(w.request, w.of, intentVerified)
           bundle == [kind |-> kind, request |-> w.request, assessed |-> now,
                      execution |-> execution, configuration |-> w.configuration,
                      probe |-> w.probe, authority |-> w.proof]
<1>1. Assessed(w, intentVerified) = ClassifyCompletion(bundle)
  BY DEF Assessed, Bundle
<1>2. execution.outcome # "ABSENT" =>
        /\ execution.outcome = w.of.outcome /\ execution.observed = w.of.observed
        /\ execution.epoch = w.of.epoch
  BY DEF ExecutionEvidence, NoExecution
<1>3. kind \in {"PROMOTION", "STALE_DENIAL"} /\ (w.kind = "complete" <=> kind = "PROMOTION")
  OBVIOUS
<1> HIDE DEF kind, execution
<1>4. /\ bundle.kind = kind /\ bundle.request = w.request /\ bundle.assessed = now
      /\ bundle.execution = execution /\ bundle.configuration = w.configuration
      /\ bundle.probe = w.probe /\ bundle.authority = w.proof
  OBVIOUS
<1> HIDE DEF bundle
<1>5. PICK r \in Receipt : w.of = receipt[r] /\ receipt[r] # NoReceipt
  BY DEF WorkFits, OfOk
<1>6. w.of.action = "PROMOTE_CANDIDATE"
  BY <1>5 DEF IInv, ReceiptsOk, ReceiptOk
<1>7. /\ w.request.started \in 1 .. now /\ now \in Nat
      /\ w.kind = "complete" => w.request.action = "PROMOTE_CANDIDATE"
  BY <1>6 DEF IInv, NumbersOk, WorkFits, ReceiptRequest, VerificationRequest
<1>8. ValidAssessment(bundle.kind, bundle.request, bundle.assessed)
  BY <1>3, <1>4, <1>7 DEF ValidAssessment
<1> DEFINE b == ClassifyCompletion(bundle)
<1>9. /\ ValidClassification(b) /\ b.kind = kind /\ b.request = w.request
      /\ b.status = "COMPLETE" => ClassificationReason(bundle) \in CompleteReasons
  BY <1>3, <1>4, <1>8, ClassificationIsValid
<1> HIDE DEF b
<1>10. ASSUME b.status = "COMPLETE", w.kind = "complete"
       PROVE  \A ev \in {w.configuration, w.probe} :
                ev.verdict = "MATCH" /\ ev.request = w.request
  <2>1. ReceiptReason(bundle) = "PROMOTION_COMPLETE" /\ bundle.kind = "PROMOTION"
    BY <1>3, <1>4, <1>9, <1>10, KindOfReason
  <2>2. /\ w.configuration.verdict \notin {"ABSENT", "UNAVAILABLE", "MISMATCH"}
        /\ w.configuration.request = w.request
        /\ w.probe.verdict \notin {"ABSENT", "INCONCLUSIVE"} /\ w.probe.request = w.request
    BY <1>4, <2>1, PromotionVerdict
  <2>3. QED
    BY <2>2 DEF WorkTyped, ValidEvidence
<1>11. ASSUME b.status = "COMPLETE", w.kind = "denial"
       PROVE  /\ w.proof.kind = "EPOCH_ADVANCEMENT"
              /\ w.of.outcome = "DENIED" /\ ~ (w.of.observed <= w.of.epoch)
  <2>1. bundle.kind = "STALE_DENIAL"
    BY <1>3, <1>4, <1>11
  <2>2. StaleDenialReason(bundle) = "STALE_CAPABILITY_DENIAL_COMPLETE"
    BY <1>9, <1>11, <2>1, KindOfReason
  <2>3. /\ w.proof.kind = "EPOCH_ADVANCEMENT" /\ execution.outcome = "DENIED"
        /\ ~ (execution.observed <= execution.epoch)
    BY <1>4, <2>2, DenialVerdict
  <2>4. QED
    BY <1>2, <2>3
<1>12. QED
  BY <1>1, <1>9, <1>10, <1>11 DEF b, kind

\* The recorder's groups stand on what is in them.
LEMMA CompletionGroupOk ==
    ASSUME IInv, NEW c \in Caller, NEW w, WorkTyped(w), WorkFits(w), w.pc = "classify",
           w.kind = "complete", NEW intentVerified \in BOOLEAN, NEW b,
           b = Assessed(w, intentVerified), ValidGroup(CompletionGroup(c, w, b))
    PROVE  /\ GroupOk(CompletionGroup(c, w, b))
           /\ <<"classification", c>> \in Sources(CompletionGroup(c, w, b))
<1> DEFINE pre == ObservedEvents(c, w)
           e == ClassificationEvent(c, b)
<1>1. /\ ValidClassification(b) /\ b.kind = "PROMOTION" /\ b.request = w.request
      /\ b.status = "COMPLETE" =>
           \A ev \in {w.configuration, w.probe} : ev.verdict = "MATCH" /\ ev.request = w.request
  BY AssessedOk
<1>2. /\ Genuine(e) /\ e.source = <<"classification", c>> /\ e.body = b
      /\ IsVerdict(e) => b.status = "COMPLETE"
  BY <1>1, ClassificationEventOk
<1>3. /\ pre \in Seq(Members(pre)) /\ \A x \in Members(pre) : Genuine(x) /\ ~ IsVerdict(x)
      /\ \A ev \in {w.configuration, w.probe} :
           ev.verdict # "ABSENT" => VerificationEvent(c, ev) \in Members(pre)
  BY ObservedFacts
<1>4. CompletionGroup(c, w, b) = pre \o <<e>>
  BY DEF CompletionGroup
<1> HIDE DEF pre, e
<1>5. Backed(e, Members(pre))
  <2>1. ASSUME b.status = "COMPLETE"
        PROVE  \A kind \in {"CONFIGURATION", "PROBE"} :
                 \E x \in Members(pre) : /\ x.source = <<kind, c>>
                                         /\ x.body.verdict = "MATCH" /\ x.body.request = b.request
    <3>1. ASSUME NEW ev \in {w.configuration, w.probe}
          PROVE  \E x \in Members(pre) : /\ x.source = <<ev.kind, c>>
                                         /\ x.body.verdict = "MATCH" /\ x.body.request = b.request
      <4>1. ValidEvidence(ev)
        BY <3>1 DEF WorkTyped
      <4>2. ev.verdict = "MATCH" /\ ev.request = b.request
        BY <1>1, <2>1, <3>1
      <4>3. VerificationEvent(c, ev) \in Members(pre)
        BY <1>3, <3>1, <4>2
      <4>4. VerificationEvent(c, ev).source = <<ev.kind, c>> /\ VerificationEvent(c, ev).body = ev
        BY <4>1, VerificationEventOk
      <4>5. QED
        BY <4>2, <4>3, <4>4
    <3>2. w.configuration.kind = "CONFIGURATION" /\ w.probe.kind = "PROBE"
      BY DEF WorkTyped
    <3>3. QED
      BY <3>1, <3>2
  <2>2. e.source[2] = c
    BY <1>2
  <2>3. IsVerdict(e) => PromotionBacked(e.body, e.source, Members(pre))
    BY <1>1, <1>2, <2>1, <2>2 DEF PromotionBacked
  <2>4. QED
    BY <2>3 DEF Backed
<1>6. GroupOk(pre \o <<e>>) /\ Sources(pre \o <<e>>) = Sources(pre) \cup {e.source}
  BY <1>2, <1>3, <1>4, <1>5, GroupOfVerdict
<1>7. QED
  BY <1>2, <1>4, <1>6

LEMMA StaleDenialGroupOk ==
    ASSUME IInv, NEW c \in Caller, NEW w, WorkTyped(w), WorkFits(w), w.pc = "classify",
           w.kind = "denial", NEW intentVerified \in BOOLEAN, NEW b,
           b = Assessed(w, intentVerified), ValidGroup(StaleDenialGroup(c, w, b))
    PROVE  /\ GroupOk(StaleDenialGroup(c, w, b))
           /\ <<"classification", c>> \in Sources(StaleDenialGroup(c, w, b))
           /\ w.of.id \in Sources(StaleDenialGroup(c, w, b))
<1> DEFINE advanced == EvidenceEvent(w.proof.epoch)
           denied == ReceiptEvent(w.of)
           e == ClassificationEvent(c, b)
           absent == (w.proof.kind = "ABSENT")
           p == IF absent THEN <<>> ELSE <<advanced>>
           o == ObservedEvents(c, w)
<1>1. /\ ValidClassification(b) /\ b.kind = "STALE_DENIAL" /\ b.request = w.request
      /\ b.status = "COMPLETE" =>
           /\ w.proof.kind = "EPOCH_ADVANCEMENT"
           /\ w.of.outcome = "DENIED" /\ ~ (w.of.observed <= w.of.epoch)
  BY AssessedOk
<1>2. /\ Genuine(e) /\ e.source = <<"classification", c>> /\ e.body = b
      /\ IsVerdict(e) => b.status = "COMPLETE"
  BY <1>1, ClassificationEventOk
<1>3. o \in Seq(Members(o)) /\ \A x \in Members(o) : Genuine(x) /\ ~ IsVerdict(x)
  BY ObservedFacts
<1>4. StaleDenialGroup(c, w, b) = p \o <<denied>> \o o \o <<e>>
  BY DEF StaleDenialGroup
<1>5. PICK r \in Receipt : w.of = receipt[r] /\ receipt[r] # NoReceipt
  BY DEF WorkFits, OfOk
<1>6. /\ w.of \in ReceiptBodies /\ w.of.id = <<"receipt", r>>
      /\ w.of.observed \in 1 .. MaxEpoch /\ w.of.epoch \in 1 .. MaxEpoch
  BY <1>5 DEF IInv, ReceiptsOk, ReceiptOk, ReceiptBodies
<1>7. /\ w.request = StaleDenialRequest(w.of, w.request.started) /\ ProofOk(w)
      /\ w.request.subject = w.of.id /\ w.request.epoch = w.of.epoch
  <2>1. w.request = StaleDenialRequest(w.of, w.request.started) /\ ProofOk(w)
    BY DEF WorkFits
  <2>2. PICK t : t = w.request.started
    OBVIOUS
  <2>3. w.request = StaleDenialRequest(w.of, t)
    BY <2>1, <2>2
  <2>4. w.request.subject = w.of.id /\ w.request.epoch = w.of.epoch
    BY <2>3 DEF StaleDenialRequest, VerificationRequest
  <2>5. QED
    BY <2>1, <2>4
<1>8. ~ absent => w.proof.epoch = w.of.observed
  BY <1>7 DEF ProofOk, NoAuthorityProof, AuthorityProof
<1>9. Genuine(denied) /\ ~ IsVerdict(denied) /\ denied.source = w.of.id /\ denied.body = w.of
  BY <1>5, ReceiptEventOk DEF IInv
<1>10. ~ absent => /\ Genuine(advanced) /\ ~ IsVerdict(advanced)
                   /\ advanced.source = <<"evidence", w.of.observed>>
  BY <1>6, <1>8, EvidenceEventOk
<1>11. absent \in BOOLEAN
  OBVIOUS
<1> HIDE DEF advanced, denied, e, o
<1>12. p \in Seq(Members(p)) /\ Members(p) = IF absent THEN {} ELSE {advanced}
  BY <1>11, OptionalEvent
<1> HIDE DEF p, absent
<1>13. PICK d : d = <<denied>>
  OBVIOUS
<1>14. d \in Seq(Members(d)) /\ Members(d) = {denied} /\ Sources(d) = {denied.source}
  BY <1>13, SingleFacts DEF Members
<1>15. PICK q : q = p \o d
  OBVIOUS
<1>16. /\ q \in Seq(Members(q)) /\ Members(q) = Members(p) \cup Members(d)
       /\ Sources(q) = Sources(p) \cup Sources(d)
  BY <1>12, <1>14, <1>15, ConcatFacts
<1>17. PICK pre : pre = q \o o
  OBVIOUS
<1>18. /\ pre \in Seq(Members(pre)) /\ Members(pre) = Members(q) \cup Members(o)
       /\ Sources(pre) = Sources(q) \cup Sources(o)
  BY <1>3, <1>16, <1>17, ConcatFacts
<1>19. StaleDenialGroup(c, w, b) = pre \o <<e>>
  BY <1>4, <1>13, <1>15, <1>17
<1>20. \A x \in Members(pre) : Genuine(x) /\ ~ IsVerdict(x)
  BY <1>3, <1>9, <1>10, <1>12, <1>14, <1>16, <1>18
<1>21. Backed(e, Members(pre))
  <2>1. ASSUME b.status = "COMPLETE" PROVE DenialBacked(b, Members(pre))
    <3>1. ~ absent /\ w.of.outcome = "DENIED" /\ ~ (w.of.observed <= w.of.epoch)
      BY <1>1, <2>1 DEF absent
    <3>2. denied \in Members(pre) /\ advanced \in Members(pre)
      BY <1>12, <1>14, <1>16, <1>18, <3>1
    <3>3. w.of.observed \in b.request.epoch + 1 .. MaxEpoch
      BY <1>1, <1>6, <1>7, <3>1, CompletionTimelineConstants
    <3>4. \E x \in Members(pre) : /\ x.source = b.request.subject
                                  /\ x.body.outcome = "DENIED" /\ x.body.id = b.request.subject
      BY <1>1, <1>7, <1>9, <3>1, <3>2
    <3>5. \E n \in b.request.epoch + 1 .. MaxEpoch :
            \E x \in Members(pre) : x.source = <<"evidence", n>>
      BY <1>10, <3>1, <3>2, <3>3
    <3>6. QED
      BY <1>1, <3>4, <3>5 DEF DenialBacked
  <2>2. QED
    BY <1>2, <2>1 DEF Backed
<1>22. /\ GroupOk(pre \o <<e>>)
       /\ Sources(pre \o <<e>>) = Sources(pre) \cup {e.source}
  <2>1. ValidGroup(pre \o <<e>>)
    BY <1>19
  <2>2. pre \in Seq(Members(pre)) /\ Genuine(e)
    BY <1>2, <1>18
  <2>3. QED
    BY <1>20, <1>21, <2>1, <2>2, GroupOfVerdict
<1>23. QED
  BY <1>2, <1>9, <1>14, <1>16, <1>18, <1>19, <1>22

LEMMA RevocationGroupOk ==
    ASSUME IInv, NEW c \in Caller, revoked # 0, NEW b, b = ClassifyCompletion(RevocationBundle),
           ValidGroup(RevocationGroup(c, b))
    PROVE  /\ GroupOk(RevocationGroup(c, b))
           /\ <<"evidence", 2>> \in Sources(RevocationGroup(c, b))
           /\ <<"operator", c>> \in Sources(RevocationGroup(c, b))
           /\ <<"revocation", fences>> \in Sources(RevocationGroup(c, b))
<1> DEFINE x == EvidenceEvent(2)
           y == OperatorEvent(c)
           e == RevocationEvent(fences, b)
<1>1. 2 \in 1 .. MaxEpoch /\ fences \in 0 .. MaxEpoch /\ revoked \in Nat
  BY CompletionTimelineConstants DEF IInv, NumbersOk
<1>2. /\ Genuine(x) /\ ~ IsVerdict(x) /\ x.source = <<"evidence", 2>>
      /\ Genuine(y) /\ ~ IsVerdict(y) /\ y.source = <<"operator", c>>
  BY <1>1, EvidenceEventOk, OperatorEventOk
<1>3. ValidClassification(b) /\ b.kind = "REVOCATION"
  <2>1. /\ RevocationBundle.kind = "REVOCATION"
        /\ RevocationBundle.request = AuthorityRequest(2, revoked)
        /\ RevocationBundle.assessed = revoked
    BY DEF RevocationBundle, Bundle
  <2>2. AuthorityRequest(2, revoked).started = revoked
    BY DEF AuthorityRequest, VerificationRequest
  <2>3. ValidAssessment(RevocationBundle.kind, RevocationBundle.request,
                        RevocationBundle.assessed)
    BY <1>1, <2>1, <2>2 DEF ValidAssessment
  <2>4. PICK u : u = RevocationBundle
    OBVIOUS
  <2>5. u.kind = "REVOCATION" /\ ValidAssessment(u.kind, u.request, u.assessed)
    BY <2>1, <2>3, <2>4
  <2>6. b = ClassifyCompletion(u)
    BY <2>4
  <2>7. QED
    BY <2>5, <2>6, ClassificationIsValid
<1>4. Genuine(e) /\ e.source = <<"revocation", fences>> /\ e.body = b
  BY <1>1, <1>3, RevocationEventOk
<1>5. RevocationGroup(c, b) = <<x, y, e>>
  BY DEF RevocationGroup
<1> HIDE DEF x, y, e
<1>6. PICK pre : pre = <<x, y>>
  OBVIOUS
<1>7. /\ pre \in Seq({x, y}) /\ Len(pre) = 2 /\ pre[1] = x /\ pre[2] = y
      /\ <<x, y, e>> = pre \o <<e>>
  BY <1>6
<1>8. pre \in Seq(Members(pre)) /\ Members(pre) = {x, y} /\ Sources(pre) = {x.source, y.source}
  <2>1. pre \in Seq(Members(pre))
    BY <1>7, SeqOfMembers
  <2>2. \A i \in 1 .. 2 : i = 1 \/ i = 2
    OBVIOUS
  <2>3. QED
    BY <1>7, <2>1, <2>2 DEF Members, Sources
<1>9. Backed(e, Members(pre))
  <2>1. RevocationBacked(b, Members(pre))
    BY <1>2, <1>3, <1>8 DEF RevocationBacked
  <2>2. QED
    BY <1>4, <2>1 DEF Backed
<1>10. GroupOk(pre \o <<e>>) /\ Sources(pre \o <<e>>) = Sources(pre) \cup {e.source}
  <2>1. ValidGroup(pre \o <<e>>)
    BY <1>5, <1>7
  <2>2. pre \in Seq(Members(pre)) /\ Genuine(e)
    BY <1>4, <1>8
  <2>3. \A z \in Members(pre) : Genuine(z) /\ ~ IsVerdict(z)
    BY <1>2, <1>8
  <2>4. QED
    BY <1>9, <2>1, <2>2, <2>3, GroupOfVerdict
<1>11. QED
  BY <1>2, <1>4, <1>5, <1>7, <1>8, <1>10

-----------------------------------------------------------------------------
\* The steps of the workflow.

\* What a call has in hand when it takes a step.
LEMMA CallInHand ==
    ASSUME IInv, NEW c \in Caller
    PROVE  /\ WorkTyped(work[c]) /\ WorkFits(work[c]) /\ PromiseKept(c, work[c])
           /\ DOMAIN work[c] = WorkShape /\ JobInv(job[c])
  BY DEF IInv, CallsOk, CallOk, JobsOk, WorkTyped

LEMMA AnswerStep ==
    ASSUME IInv, NEW c \in Caller, work[c].pc # "idle", NEW out, Answer(c, out), Aside,
           job' = job, faults' \in 0 .. MaxFaults,
           out = "ok" => Promise(c, work[c], Known)
    PROVE  IInv'
<1> DEFINE w == [Idle EXCEPT !.pc = "done", !.kind = work[c].kind, !.of = work[c].of,
                             !.out = out]
<1>1. work' = [work EXCEPT ![c] = w]
  BY DEF Answer, Step
<1>2. PICK kind : kind = work[c].kind
  OBVIOUS
<1>3. PICK of : of = work[c].of
  OBVIOUS
<1>4. /\ DOMAIN w = WorkShape /\ w.pc = "done" /\ w.kind = kind /\ w.of = of /\ w.out = out
      /\ w.configuration = Idle.configuration /\ w.probe = Idle.probe
  BY <1>2, <1>3, IdleFacts DEF WorkShape
<1> HIDE DEF w
<1>5. WorkTyped(work[c]) /\ WorkFits(work[c])
  BY CallInHand
<1>6. WorkTyped(w)
  BY <1>2, <1>4, <1>5, IdleFacts DEF WorkTyped
<1>7. WorkFits(w)
  BY <1>2, <1>3, <1>4, <1>5 DEF WorkFits, OfOk
<1>8. out = "ok" => Promise(c, w, Known)
  BY <1>2, <1>3, <1>4 DEF Promise
<1>9. PICK k : k = job[c]
  OBVIOUS
<1>10. JobInv(k)
  BY <1>9, CallInHand
<1>11. w.pc = "record" => Promise(c, w, Known \cup Sources(k.items))
  BY <1>4
<1>12. w.pc = "route" \/ (w.pc = "done" /\ w.out = "ok") => Promise(c, w, Known)
  BY <1>4, <1>8
<1>13. QED
  BY <1>1, <1>6, <1>7, <1>9, <1>10, <1>11, <1>12, CallMoves

LEMMA BeginRevokeStep ==
    ASSUME IInv, NEW c \in Caller, BeginRevoke(c)
    PROVE  IInv'
<1> DEFINE w == [Idle EXCEPT !.pc = "classify", !.kind = "revoke"]
<1>1. /\ \/ revoked = 0 /\ Advance(0) /\ revoked' = now
         \/ revoked # 0 /\ UNCHANGED authority
      /\ work' = [work EXCEPT ![c] = w] /\ receipt' = receipt
      /\ UNCHANGED <<now, head, entries, identity, raw, tomb, late, sweep, job, faults>>
  BY DEF BeginRevoke, Step, tvars
<1>2. now # 0 /\ NumbersOk
  BY DEF IInv, NumbersOk
<1>3. NumbersOk' /\ fences <= fences' /\ epoch <= epoch' /\ revoked' # 0
  <2>1. CASE Advance(0) /\ revoked' = now
    <3>1. revoked' \in {revoked, now} /\ UNCHANGED <<now, faults>> /\ 0 \in {0, 1}
      BY <1>1, <2>1
    <3>2. NumbersOk' /\ fences <= fences' /\ epoch <= epoch'
      BY <1>2, <2>1, <3>1, AdvanceOk
    <3>3. QED
      BY <1>2, <2>1, <3>2
  <2>2. CASE revoked # 0 /\ UNCHANGED authority
    BY <1>1, <1>2, <2>2 DEF NumbersOk, authority
  <2>3. QED
    BY <1>1, <2>1, <2>2
<1>4. ReceiptsOk' /\ ReceiptsStay
  BY <1>1, <1>2, <1>3, ReceiptsKept DEF IInv, NumbersOk
<1>5. /\ DOMAIN w = WorkShape /\ w.pc = "classify" /\ w.kind = "revoke"
      /\ w.configuration = Idle.configuration /\ w.probe = Idle.probe
  BY IdleFacts DEF WorkShape
<1> HIDE DEF w
<1>6. WorkTyped(w)' /\ WorkFits(w)' /\ PromiseKept(c, w)'
  BY <1>3, <1>5, IdleFacts DEF WorkTyped, WorkFits, PromiseKept
<1>7. CallOk(c, w)'
  BY <1>6 DEF CallOk
<1>8. PICK k : k = job[c]
  OBVIOUS
<1>9. JobInv(k)
  BY <1>8, CallInHand
<1>10. UNCHANGED <<now, head, entries, identity, raw, tomb, late, sweep>> /\ job' = job
  BY <1>1
<1>11. QED
  BY <1>1, <1>3, <1>4, <1>7, <1>9, <1>10, CallStep

LEMMA BeginDenialStep ==
    ASSUME IInv, NEW c \in Caller, NEW r \in Receipt, BeginDenial(c, r)
    PROVE  IInv'
<1> DEFINE w == [Idle EXCEPT !.pc = "authority", !.kind = "denial", !.of = receipt[r]]
<1>1. /\ receipt[r].reason = "EPOCH_MISMATCH" /\ work' = [work EXCEPT ![c] = w]
      /\ Aside /\ job' = job /\ faults' = faults
  BY DEF BeginDenial, Step, tvars, authority, Aside
<1>2. receipt[r] # NoReceipt
  BY <1>1 DEF NoReceipt
<1>3. /\ DOMAIN w = WorkShape /\ w.pc = "authority" /\ w.kind = "denial" /\ w.of = receipt[r]
      /\ w.configuration = Idle.configuration /\ w.probe = Idle.probe
  BY IdleFacts DEF WorkShape
<1> HIDE DEF w
<1>4. WorkTyped(w) /\ WorkFits(w)
  BY <1>2, <1>3, IdleFacts DEF WorkTyped, WorkFits, OfOk
<1>5. PICK k : k = job[c]
  OBVIOUS
<1>6. JobInv(k)
  BY <1>5, CallInHand
<1>7. w.pc # "record" /\ w.pc # "route" /\ w.pc # "done"
  BY <1>3
<1>8. faults' \in 0 .. MaxFaults
  BY <1>1 DEF IInv, NumbersOk
<1>9. QED
  BY <1>1, <1>4, <1>5, <1>6, <1>7, <1>8, CallMoves

LEMMA BeginObservationStep ==
    ASSUME IInv, NEW c \in Caller, NEW r \in Receipt, BeginObservation(c, r)
    PROVE  IInv'
<1> DEFINE w == [Idle EXCEPT !.pc = "observe", !.kind = "complete", !.of = receipt[r],
                             !.request = ReceiptRequest(receipt[r], now)]
<1>1. /\ receipt[r].outcome \in {"VERIFIED", "AMBIGUOUS"} /\ work' = [work EXCEPT ![c] = w]
      /\ Aside /\ job' = job /\ faults' = faults
  BY DEF BeginObservation, Step, tvars, authority, Aside
<1>2. receipt[r] # NoReceipt
  BY <1>1 DEF NoReceipt
<1>3. PICK q : q = ReceiptRequest(receipt[r], now)
  OBVIOUS
<1>4. /\ DOMAIN w = WorkShape /\ w.pc = "observe" /\ w.kind = "complete" /\ w.of = receipt[r]
      /\ w.request = q
      /\ w.configuration = Idle.configuration /\ w.probe = Idle.probe
  BY <1>3, IdleFacts DEF WorkShape
<1> HIDE DEF w
<1>5. q.started = now /\ now \in 1 .. now
  BY <1>3 DEF ReceiptRequest, VerificationRequest, IInv, NumbersOk
<1>6. WorkTyped(w) /\ WorkFits(w)
  BY <1>2, <1>3, <1>4, <1>5, IdleFacts DEF WorkTyped, WorkFits, OfOk
<1>7. PICK k : k = job[c]
  OBVIOUS
<1>8. JobInv(k)
  BY <1>7, CallInHand
<1>9. w.pc # "record" /\ w.pc # "route" /\ w.pc # "done"
  BY <1>4
<1>10. faults' \in 0 .. MaxFaults
  BY <1>1 DEF IInv, NumbersOk
<1>11. QED
  BY <1>1, <1>6, <1>7, <1>8, <1>9, <1>10, CallMoves

\* A read of the authority is the beginning of a denial's assessment, whose
\* window opens when the epoch did that the receipt observed.
LEMMA ReadAuthorityStep ==
    ASSUME IInv, NEW c \in Caller, ReadAuthority(c)
    PROVE  IInv'
<1> DEFINE r == work[c].of
<1>1. work[c].pc = "authority" /\ Aside /\ job' = job
  BY DEF ReadAuthority, Still, Quiet, store, authority, Aside
<1>2. WorkTyped(work[c]) /\ WorkFits(work[c]) /\ DOMAIN work[c] = WorkShape
  BY CallInHand
<1>3. work[c].kind = "denial" /\ OfOk(work[c])
  BY <1>1, <1>2 DEF WorkTyped, WorkFits
<1>4. r.observed \in 1 .. epoch /\ r.updated \in 1 .. now
  <2>1. PICK q \in Receipt : r = receipt[q] /\ receipt[q] # NoReceipt
    BY <1>3 DEF OfOk
  <2>2. r \in ReceiptBodies /\ r.observed <= epoch /\ r.updated <= now
    BY <2>1 DEF IInv, ReceiptsOk, ReceiptOk
  <2>3. QED
    BY <2>2 DEF ReceiptBodies, IInv, NumbersOk
<1>5. opened[r.observed] \in 1 .. now /\ opened[epoch] \in 1 .. now
  BY <1>4 DEF IInv, NumbersOk
<1>6. faults' \in 0 .. MaxFaults
  <2>1. Fault \/ NoFault
    BY DEF ReadAuthority
  <2>2. QED
    BY <2>1, FaultsCounted DEF IInv
<1>7. ASSUME NEW proof, NEW started \in 1 .. now,
             \/ proof = NoAuthorityProof
             \/ proof = AuthorityProof("EPOCH_ADVANCEMENT", r.observed, started),
             Step(c, [work[c] EXCEPT !.pc = "observe", !.proof = proof,
                                     !.request = StaleDenialRequest(r, started)])
      PROVE  IInv'
  <2>1. PICK v : v = work[c]
    OBVIOUS
  <2>2. PICK q : q = StaleDenialRequest(r, started)
    OBVIOUS
  <2> DEFINE w == [v EXCEPT !.pc = "observe", !.proof = proof, !.request = q]
  <2>3. work' = [work EXCEPT ![c] = w]
    BY <1>7, <2>1, <2>2 DEF Step
  <2>4. /\ DOMAIN w = WorkShape /\ w.pc = "observe" /\ w.kind = v.kind /\ w.of = v.of
        /\ w.request = q /\ w.proof = proof
        /\ w.configuration = v.configuration /\ w.probe = v.probe
    BY <1>2, <2>1 DEF WorkShape
  <2> HIDE DEF w
  <2>5. q.started = started
    BY <2>2 DEF StaleDenialRequest, VerificationRequest
  <2>6. WorkTyped(w)
    BY <1>2, <2>1, <2>4 DEF WorkTyped
  <2>7. ProofOk(w) /\ OfOk(w)
    BY <1>3, <1>7, <2>1, <2>4, <2>5 DEF ProofOk, OfOk
  <2>8. WorkFits(w)
    BY <1>3, <2>1, <2>2, <2>4, <2>5, <2>7 DEF WorkFits
  <2>9. PICK k : k = job[c]
    OBVIOUS
  <2>10. JobInv(k)
    BY <2>9, CallInHand
  <2>11. w.pc # "record" /\ w.pc # "route" /\ w.pc # "done"
    BY <2>4
  <2>12. QED
    BY <1>1, <1>6, <2>3, <2>6, <2>8, <2>9, <2>10, <2>11, CallMoves
<1>8. \/ \E proof : \E started \in 1 .. now :
           /\ \/ proof = NoAuthorityProof
              \/ proof = AuthorityProof("EPOCH_ADVANCEMENT", r.observed, started)
           /\ Step(c, [work[c] EXCEPT !.pc = "observe", !.proof = proof,
                                      !.request = StaleDenialRequest(r, started)])
      \/ Answer(c, "unavailable")
  BY <1>4, <1>5 DEF ReadAuthority
<1>9. Answer(c, "unavailable") => IInv'
  BY <1>1, <1>6, AnswerStep
<1>10. QED
  BY <1>7, <1>8, <1>9

LEMMA EvidenceIsValid ==
    ASSUME NEW q, ValidRequest(q), NEW t \in Nat
    PROVE  /\ \A f : LET ev == ConfigurationEvidence(q, f, t, t)
                     IN ValidEvidence(ev) /\ ev.kind = "CONFIGURATION"
           /\ LET ev == UnreadableEvidence(q, t, t)
              IN ValidEvidence(ev) /\ ev.kind = "CONFIGURATION"
           /\ \A n : LET ev == ProbeEvidence(q, n, t, t)
                     IN ValidEvidence(ev) /\ ev.kind = "PROBE"
<1>1. \A kind \in {"CONFIGURATION", "PROBE"} :
        ValidEvidence(NoEvidence(kind)) /\ NoEvidence(kind).kind = kind
  BY DEF ValidEvidence, NoEvidence
<1>2. ASSUME InWindow(t, q), NEW kind \in {"CONFIGURATION", "PROBE"}, NEW verdict, NEW reason,
             (reason = "MATCH") = (verdict = "MATCH"),
             verdict \in {"MATCH"} \cup (IF kind = "PROBE" THEN {"INCONCLUSIVE"}
                                         ELSE {"MISMATCH", "UNAVAILABLE"})
      PROVE  LET ev == Evidence(kind, q, verdict, reason, t, t)
             IN ValidEvidence(ev) /\ ev.kind = kind
  <2> DEFINE ev == [verdict |-> verdict, kind |-> kind, reason |-> reason, request |-> q,
                    occurred |-> t, verified |-> t]
  <2>1. Evidence(kind, q, verdict, reason, t, t) = ev
    BY DEF Evidence
  <2>2. /\ ev.verdict = verdict /\ ev.kind = kind /\ ev.reason = reason /\ ev.request = q
        /\ ev.occurred = t /\ ev.verified = t
    OBVIOUS
  <2> HIDE DEF ev
  <2>3. ValidEvidence(ev)
    BY <1>2, <2>2 DEF ValidEvidence
  <2>4. QED
    BY <2>1, <2>2, <2>3
<1>3. ASSUME NEW f
      PROVE  LET ev == ConfigurationEvidence(q, f, t, t)
             IN ValidEvidence(ev) /\ ev.kind = "CONFIGURATION"
  <2>1. PICK reason : reason = ConfigurationReason(q, f)
    OBVIOUS
  <2>2. PICK verdict \in {"MATCH", "MISMATCH"} :
          verdict = IF reason = "MATCH" THEN "MATCH" ELSE "MISMATCH"
    OBVIOUS
  <2>3. ConfigurationEvidence(q, f, t, t) =
          IF ~ InWindow(t, q) THEN NoEvidence("CONFIGURATION")
          ELSE Evidence("CONFIGURATION", q, verdict, reason, t, t)
    BY <2>1, <2>2 DEF ConfigurationEvidence
  <2>4. (reason = "MATCH") = (verdict = "MATCH")
    BY <2>2
  <2>5. QED
    BY <1>1, <1>2, <2>3, <2>4
<1>4. LET ev == UnreadableEvidence(q, t, t)
      IN ValidEvidence(ev) /\ ev.kind = "CONFIGURATION"
  BY <1>1, <1>2 DEF UnreadableEvidence
<1>5. ASSUME NEW n
      PROVE  LET ev == ProbeEvidence(q, n, t, t)
             IN ValidEvidence(ev) /\ ev.kind = "PROBE"
  <2>1. PICK reason : reason = ProbeReason(q.action, n)
    OBVIOUS
  <2>2. PICK verdict \in {"MATCH", "INCONCLUSIVE"} :
          verdict = IF reason = "MATCH" THEN "MATCH" ELSE "INCONCLUSIVE"
    OBVIOUS
  <2>3. ProbeEvidence(q, n, t, t) =
          IF ~ InWindow(t, q) THEN NoEvidence("PROBE")
          ELSE Evidence("PROBE", q, verdict, reason, t, t)
    BY <2>1, <2>2 DEF ProbeEvidence
  <2>4. (reason = "MATCH") = (verdict = "MATCH")
    BY <2>2
  <2>5. QED
    BY <1>1, <1>2, <2>3, <2>4
<1>6. QED
  BY <1>3, <1>4, <1>5

LEMMA ObservedIsValid ==
    ASSUME NEW c, NEW ev, ValidEvidence(ev)
    PROVE  ValidEvidence(Observed(c, ev)) /\ Observed(c, ev).kind = ev.kind
<1>1. ev.kind \in {"CONFIGURATION", "PROBE"}
  BY DEF ValidEvidence
<1>2. ValidEvidence(NoEvidence(ev.kind)) /\ NoEvidence(ev.kind).kind = ev.kind
  BY <1>1 DEF ValidEvidence, NoEvidence
<1>3. Observed(c, ev) = ev \/ Observed(c, ev) = NoEvidence(ev.kind)
  BY DEF Observed, PostDenialEvidence
<1>4. QED
  BY <1>2, <1>3

\* The request of an assessment opens a window of its own.
LEMMA RequestOk ==
    ASSUME IInv, NEW w, WorkFits(w), w.kind \in {"denial", "complete"},
           w.pc \notin {"authority", "done"}
    PROVE  /\ ValidRequest(w.request) /\ w.request.started \in Nat
           /\ InWindow(w.request.started, w.request)
<1>1. PICK r \in Receipt : w.of = receipt[r] /\ receipt[r] # NoReceipt
  BY DEF WorkFits, OfOk
<1>2. w.of.action = "PROMOTE_CANDIDATE"
  BY <1>1 DEF IInv, ReceiptsOk, ReceiptOk
<1>3. PICK t : t = w.request.started
  OBVIOUS
<1>4. t \in 1 .. now /\ now \in Nat
  BY <1>3 DEF WorkFits, IInv, NumbersOk
<1>5. w.request = StaleDenialRequest(w.of, t) \/ w.request = ReceiptRequest(w.of, t)
  BY <1>3 DEF WorkFits
<1>6. /\ w.request.action \in Actions /\ w.request.started = t
      /\ w.request.ends = t + Window
  BY <1>2, <1>5 DEF StaleDenialRequest, ReceiptRequest, VerificationRequest, Actions
<1>7. Window \in Nat /\ Window # 0
  BY CompletionConstants
<1>8. QED
  BY <1>4, <1>6, <1>7 DEF ValidRequest, InWindow

LEMMA ObserveStep ==
    ASSUME IInv, NEW c \in Caller, Observe(c)
    PROVE  IInv'
<1>1. work[c].pc = "observe" /\ Aside /\ job' = job
  BY DEF Observe, Still, Quiet, store, authority, Aside
<1>2. WorkTyped(work[c]) /\ WorkFits(work[c]) /\ DOMAIN work[c] = WorkShape
  BY CallInHand
<1>3. work[c].kind \in {"denial", "complete"}
  BY <1>1, <1>2 DEF WorkTyped, WorkFits
<1>4. PICK q : q = work[c].request
  OBVIOUS
<1>5. ValidRequest(q) /\ now \in Nat
  BY <1>1, <1>2, <1>3, <1>4, RequestOk DEF IInv, NumbersOk
<1>6. PICK configuration, probe :
        /\ configuration \in AttestedConfiguration(c).good \cup AttestedConfiguration(c).bad
        /\ probe \in AttestedProbe(c).good \cup AttestedProbe(c).bad
        /\ Step(c, [work[c] EXCEPT !.pc = "classify",
                                   !.configuration = Observed(c, configuration),
                                   !.probe = Observed(c, probe)])
  BY DEF Observe
<1>7. faults' \in 0 .. MaxFaults
  <2>1. Fault \/ NoFault
    BY DEF Observe
  <2>2. QED
    BY <2>1, FaultsCounted DEF IInv
<1>8. \A kind \in {"CONFIGURATION", "PROBE"} :
        ValidEvidence(NoEvidence(kind)) /\ NoEvidence(kind).kind = kind
  BY DEF ValidEvidence, NoEvidence
<1>9. ValidEvidence(configuration) /\ configuration.kind = "CONFIGURATION"
  <2>1. configuration \in {ConfigurationEvidence(q, service, now, now),
                           UnreadableEvidence(q, now, now), NoEvidence("CONFIGURATION")}
    BY <1>4, <1>6 DEF AttestedConfiguration
  <2>2. QED
    BY <1>5, <1>8, <2>1, EvidenceIsValid
<1>10. ValidEvidence(probe) /\ probe.kind = "PROBE"
  <2>1. (\E n : probe = ProbeEvidence(q, n, now, now)) \/ probe = NoEvidence("PROBE")
    BY <1>4, <1>6 DEF AttestedProbe
  <2>2. QED
    BY <1>5, <1>8, <2>1, EvidenceIsValid
<1>11. PICK x : x = Observed(c, configuration)
  OBVIOUS
<1>12. PICK y : y = Observed(c, probe)
  OBVIOUS
<1>13. /\ ValidEvidence(x) /\ x.kind = "CONFIGURATION"
       /\ ValidEvidence(y) /\ y.kind = "PROBE"
  BY <1>9, <1>10, <1>11, <1>12, ObservedIsValid
<1>14. PICK v : v = work[c]
  OBVIOUS
<1> DEFINE w == [v EXCEPT !.pc = "classify", !.configuration = x, !.probe = y]
<1>15. work' = [work EXCEPT ![c] = w]
  BY <1>6, <1>11, <1>12, <1>14 DEF Step
<1>16. /\ DOMAIN w = WorkShape /\ w.pc = "classify" /\ w.kind = v.kind /\ w.of = v.of
       /\ w.request = v.request /\ w.proof = v.proof /\ w.configuration = x /\ w.probe = y
  BY <1>2, <1>14 DEF WorkShape
<1> HIDE DEF w
<1>17. WorkTyped(w)
  BY <1>2, <1>13, <1>14, <1>16 DEF WorkTyped
<1>18. WorkFits(w)
  BY <1>1, <1>2, <1>3, <1>14, <1>16 DEF WorkFits, OfOk, ProofOk
<1>19. PICK k : k = job[c]
  OBVIOUS
<1>20. JobInv(k)
  BY <1>19, CallInHand
<1>21. w.pc # "record" /\ w.pc # "route" /\ w.pc # "done"
  BY <1>16
<1>22. QED
  BY <1>1, <1>7, <1>15, <1>17, <1>18, <1>19, <1>20, <1>21, CallMoves

\* A call goes on to record a group, or one event of its route.
LEMMA RecordStep ==
    ASSUME IInv, NEW c \in Caller, NEW pc \in {"record", "route"}, work[c].pc \notin {"idle", "done", "authority"},
           work' = [work EXCEPT ![c] = [work[c] EXCEPT !.pc = pc]], Aside,
           faults' \in 0 .. MaxFaults,
           NEW k, JobInv(k), job' = [job EXCEPT ![c] = k],
           IF pc = "record" THEN Promise(c, work[c], Known \cup Sources(k.items))
           ELSE Promise(c, work[c], Known)
    PROVE  IInv'
<1>1. WorkTyped(work[c]) /\ WorkFits(work[c]) /\ DOMAIN work[c] = WorkShape
  BY CallInHand
<1>2. PICK v : v = work[c]
  OBVIOUS
<1> DEFINE w == [v EXCEPT !.pc = pc]
<1>3. work' = [work EXCEPT ![c] = w]
  BY <1>2
<1>4. /\ DOMAIN w = WorkShape /\ w.pc = pc /\ w.kind = v.kind /\ w.of = v.of
      /\ w.request = v.request /\ w.proof = v.proof
      /\ w.configuration = v.configuration /\ w.probe = v.probe
  BY <1>1, <1>2 DEF WorkShape
<1> HIDE DEF w
<1>5. WorkTyped(w)
  BY <1>1, <1>2, <1>4 DEF WorkTyped
<1>6. WorkFits(w)
  BY <1>1, <1>2, <1>4 DEF WorkFits, OfOk, ProofOk
<1>7. w.pc = "record" => Promise(c, w, Known \cup Sources(k.items))
  BY <1>2, <1>4 DEF Promise
<1>8. w.pc = "route" \/ (w.pc = "done" /\ w.out = "ok") => Promise(c, w, Known)
  BY <1>2, <1>4 DEF Promise
<1>9. QED
  BY <1>3, <1>5, <1>6, <1>7, <1>8, CallMoves

\* An append of a whole group begins.
LEMMA StartStep ==
    ASSUME IInv, NEW c \in Caller, work[c].pc = "classify",
           work' = [work EXCEPT ![c] = [work[c] EXCEPT !.pc = "record"]], Aside,
           faults' \in 0 .. MaxFaults,
           NEW items, GroupOk(items), StartAppend(c, items),
           Promise(c, work[c], Known \cup Sources(items))
    PROVE  IInv'
<1>1. PICK k : k = [NoJob EXCEPT !.pc = "read", !.items = items]
  OBVIOUS
<1>2. JobInv(k) /\ k.items = items
  BY <1>1, FreshJob
<1>3. job' = [job EXCEPT ![c] = k]
  BY <1>1 DEF StartAppend
<1>4. Promise(c, work[c], Known \cup Sources(k.items))
  BY <1>2
<1>5. work[c].pc \notin {"idle", "done", "authority"}
  OBVIOUS
<1>6. QED
  BY <1>2, <1>3, <1>4, <1>5, RecordStep

LEMMA ClassifyRevocationStep ==
    ASSUME IInv, NEW c \in Caller, ClassifyRevocation(c)
    PROVE  IInv'
<1>1. work[c].pc = "classify" /\ work[c].kind = "revoke" /\ Aside
  BY DEF ClassifyRevocation, Quiet, store, authority, Aside
<1>2. PICK b : b = ClassifyCompletion(RevocationBundle)
  OBVIOUS
<1>3. \/ /\ StartAppend(c, RevocationGroup(c, b))
         /\ work' = [work EXCEPT ![c] = [work[c] EXCEPT !.pc = "record"]]
      \/ Answer(c, "unknown") /\ job' = job
  BY <1>2 DEF ClassifyRevocation, Step
<1>4. faults' \in 0 .. MaxFaults
  <2>1. Fault \/ NoFault
    BY DEF ClassifyRevocation
  <2>2. QED
    BY <2>1, FaultsCounted DEF IInv
<1>5. CASE /\ StartAppend(c, RevocationGroup(c, b))
           /\ work' = [work EXCEPT ![c] = [work[c] EXCEPT !.pc = "record"]]
  <2>1. revoked # 0 /\ fences \in Nat
    BY <1>1, CallInHand DEF WorkFits, IInv, NumbersOk
  <2>2. ValidGroup(RevocationGroup(c, b))
    BY <1>5 DEF StartAppend
  <2>3. PICK items : items = RevocationGroup(c, b)
    OBVIOUS
  <2>4. /\ GroupOk(items) /\ <<"evidence", 2>> \in Sources(items)
        /\ <<"operator", c>> \in Sources(items) /\ <<"revocation", fences>> \in Sources(items)
    BY <1>2, <2>1, <2>2, <2>3, RevocationGroupOk
  <2>5. Promise(c, work[c], Known \cup Sources(items))
    BY <1>1, <2>1, <2>4 DEF Promise
  <2>6. StartAppend(c, items)
    BY <1>5, <2>3
  <2>7. QED
    BY <1>1, <1>4, <1>5, <2>4, <2>5, <2>6, StartStep
<1>6. CASE Answer(c, "unknown") /\ job' = job
  BY <1>1, <1>4, <1>6, AnswerStep
<1>7. QED
  BY <1>3, <1>5, <1>6

LEMMA ClassifyStep ==
    ASSUME IInv, NEW c \in Caller, Classify(c)
    PROVE  IInv'
<1>1. /\ work[c].pc = "classify" /\ work[c].kind \in {"denial", "complete"} /\ Aside
      /\ work' = [work EXCEPT ![c] = [work[c] EXCEPT !.pc = "record"]]
  BY DEF Classify, Step, Quiet, store, authority, Aside
<1>2. WorkTyped(work[c]) /\ WorkFits(work[c])
  BY CallInHand
<1>3. PICK w : w = work[c]
  OBVIOUS
<1>4. PICK intentVerified \in BOOLEAN :
        /\ StartAppend(c, IF w.kind = "complete"
                          THEN CompletionGroup(c, w, Assessed(w, intentVerified))
                          ELSE StaleDenialGroup(c, w, Assessed(w, intentVerified)))
        /\ Fault \/ NoFault
  BY <1>3 DEF Classify
<1>5. faults' \in 0 .. MaxFaults
  BY <1>4, FaultsCounted DEF IInv
<1>6. PICK b : b = Assessed(w, intentVerified)
  OBVIOUS
<1>7. CASE w.kind = "complete"
  <2>1. PICK items : items = CompletionGroup(c, w, b)
    OBVIOUS
  <2>2. StartAppend(c, items) /\ ValidGroup(CompletionGroup(c, w, b))
    BY <1>4, <1>6, <1>7, <2>1 DEF StartAppend
  <2>3. GroupOk(items) /\ <<"classification", c>> \in Sources(items)
    BY <1>1, <1>2, <1>3, <1>6, <1>7, <2>1, <2>2, CompletionGroupOk
  <2>4. Promise(c, work[c], Known \cup Sources(items))
    BY <1>3, <1>7, <2>3 DEF Promise
  <2>5. QED
    BY <1>1, <1>5, <2>2, <2>3, <2>4, StartStep
<1>8. CASE w.kind = "denial"
  <2>1. PICK items : items = StaleDenialGroup(c, w, b)
    OBVIOUS
  <2>2. StartAppend(c, items) /\ ValidGroup(StaleDenialGroup(c, w, b))
    BY <1>4, <1>6, <1>8, <2>1 DEF StartAppend
  <2>3. GroupOk(items) /\ <<"classification", c>> \in Sources(items) /\ w.of.id \in Sources(items)
    BY <1>1, <1>2, <1>3, <1>6, <1>8, <2>1, <2>2, StaleDenialGroupOk
  <2>4. Promise(c, work[c], Known \cup Sources(items))
    BY <1>3, <1>8, <2>3 DEF Promise
  <2>5. QED
    BY <1>1, <1>5, <2>2, <2>3, <2>4, StartStep
<1>9. QED
  BY <1>1, <1>3, <1>7, <1>8

\* Once its group is recorded a call has what it was promised.
LEMMA RecordedStep ==
    ASSUME IInv, NEW c \in Caller, Recorded(c)
    PROVE  IInv'
<1>1. /\ work[c].pc = "record" /\ job[c].pc = "done" /\ Aside /\ faults' = faults
  BY DEF Recorded, Quiet, store, authority, Aside
<1>2. faults' \in 0 .. MaxFaults
  BY <1>1 DEF IInv, NumbersOk
<1>3. CASE job' = job /\ \E out : out # "ok" /\ Answer(c, out)
  BY <1>1, <1>2, <1>3, AnswerStep
<1>4. CASE job[c].out = "recorded" /\ \E items \in RouteGroups(c) :
             IF items = <<>> THEN Answer(c, "ok") /\ UNCHANGED job
             ELSE AppendOne(c, items[1]) /\ Step(c, [work[c] EXCEPT !.pc = "route"])
  <2>1. Promise(c, work[c], Known)
    <3>1. ~ Lost(c) /\ Promise(c, work[c], InHand(c))
      BY <1>1, <1>4, CallInHand DEF PromiseKept, Lost
    <3>2. job[c].items = <<>>
      BY <1>1, CallInHand DEF JobInv, PlaceOk
    <3>3. Sources(<<>>) = {}
      BY DEF Sources
    <3>4. InHand(c) = Known
      BY <3>2, <3>3 DEF InHand
    <3>5. QED
      BY <3>1, <3>4
  <2>2. CASE Answer(c, "ok") /\ UNCHANGED job
    BY <1>1, <1>2, <2>1, <2>2, AnswerStep
  <2>3. CASE \E items \in RouteGroups(c) : /\ items # <<>> /\ AppendOne(c, items[1])
                                           /\ Step(c, [work[c] EXCEPT !.pc = "route"])
    <3>1. PICK items \in RouteGroups(c) : /\ items # <<>> /\ AppendOne(c, items[1])
                                          /\ Step(c, [work[c] EXCEPT !.pc = "route"])
      BY <2>3
    <3>2. work[c].kind \in {"revoke", "denial", "complete"}
      BY <1>1, CallInHand DEF WorkTyped, WorkFits
    <3>3. PICK e : e = items[1]
      OBVIOUS
    <3>4. Genuine(e) /\ ~ IsVerdict(e)
      <4>1. CASE work[c].kind = "revoke"
        <5>1. items = <<OperatorEvent(c)>>
          BY <3>1, <4>1 DEF RouteGroups
        <5>2. e = OperatorEvent(c)
          BY <3>3, <5>1
        <5>3. QED
          BY <5>2, OperatorEventOk
      <4>2. CASE work[c].kind = "denial"
        <5>1. items = <<ReceiptEvent(work[c].of)>>
          BY <3>1, <4>2 DEF RouteGroups
        <5>2. e = ReceiptEvent(work[c].of)
          BY <3>3, <5>1
        <5>3. PICK r \in Receipt : work[c].of = receipt[r] /\ receipt[r] # NoReceipt
          BY <4>2, CallInHand DEF WorkFits, OfOk
        <5>4. QED
          BY <5>2, <5>3, ReceiptEventOk DEF IInv
      <4>3. CASE work[c].kind = "complete"
        BY <3>1, <4>3 DEF RouteGroups
      <4>4. QED
        BY <3>2, <4>1, <4>2, <4>3
    <3>5. GroupOk(<<e>>)
      BY <3>4, SingleGroup
    <3>6. PICK k : k = [NoJob EXCEPT !.pc = "read", !.items = <<e>>, !.one = TRUE]
      OBVIOUS
    <3>7. JobInv(k)
      BY <3>5, <3>6, FreshSingle
    <3>8. job' = [job EXCEPT ![c] = k]
      BY <3>1, <3>3, <3>6 DEF AppendOne
    <3>9. work' = [work EXCEPT ![c] = [work[c] EXCEPT !.pc = "route"]]
      BY <3>1 DEF Step
    <3>10. "route" \in {"record", "route"} /\ work[c].pc \notin {"idle", "done", "authority"}
      BY <1>1
    <3>11. QED
      BY <1>1, <1>2, <2>1, <3>7, <3>8, <3>9, <3>10, RecordStep
  <2>4. QED
    BY <1>4, <2>2, <2>3
<1>5. QED
  BY <1>3, <1>4 DEF Recorded

LEMMA RouteRecordedStep ==
    ASSUME IInv, NEW c \in Caller, RouteRecorded(c)
    PROVE  IInv'
<1>1. /\ work[c].pc = "route" /\ Aside /\ job' = job /\ faults' = faults
      /\ \E out : Answer(c, out)
  BY DEF RouteRecorded, Still, Quiet, store, authority, Aside
<1>2. faults' \in 0 .. MaxFaults
  BY <1>1 DEF IInv, NumbersOk
<1>3. Promise(c, work[c], Known)
  BY <1>1, CallInHand DEF PromiseKept
<1>4. QED
  BY <1>1, <1>2, <1>3, AnswerStep

-----------------------------------------------------------------------------
LEMMA InitInv == Init => IInv
<1> SUFFICES ASSUME Init PROVE IInv
  OBVIOUS
<1>1. /\ now = 1 /\ head = 0 /\ entries = <<>> /\ late = {} /\ sweep = NoSweep /\ faults = 0
      /\ identity = [s \in Source |-> 0] /\ raw = [s \in Source |-> 0]
      /\ tomb = [s \in Source |-> 0] /\ job = [c \in Caller |-> NoJob]
      /\ epoch = 1 /\ opened = [e \in 1 .. MaxEpoch |-> IF e = 1 THEN 1 ELSE 0]
      /\ fences = 0 /\ revoked = 0 /\ receipt = [r \in Receipt |-> NoReceipt]
      /\ work = [c \in Caller |-> Idle]
  BY DEF Init, TimelineInit
<1>2. NumbersOk
  BY <1>1, TimelineConstants, CompletionTimelineConstants DEF NumbersOk
<1>3. ReceiptsOk
  BY <1>1 DEF ReceiptsOk, ReceiptOk
<1>4. ChainOk
  <2>1. <<>> \in Seq(Members(<<>>)) /\ Len(<<>>) = 0
    OBVIOUS
  <2>2. QED
    BY <1>1, <2>1 DEF ChainOk
<1>5. RawOk
  BY <1>1 DEF RawOk
<1>6. JobsOk
  <2>1. JobInv(NoJob)
    BY DEF JobInv, PlaceOk, NoJob, JobShape
  <2>2. QED
    BY <1>1, <2>1 DEF JobsOk
<1>7. LateOk /\ SweepOk
  BY <1>1 DEF LateOk, SweepOk, NoSweep
<1>8. CallsOk
  <2>1. WorkTyped(Idle) /\ WorkFits(Idle)
    BY IdleFacts DEF WorkTyped, WorkFits
  <2>2. \A c \in Caller : PromiseKept(c, Idle)
    BY IdleFacts DEF PromiseKept
  <2>3. QED
    BY <1>1, <2>1, <2>2 DEF CallsOk, CallOk
<1>9. QED
  BY <1>2, <1>3, <1>4, <1>5, <1>6, <1>7, <1>8 DEF IInv

LEMMA StutterInv ==
    ASSUME IInv, UNCHANGED vars
    PROVE  IInv'
<1>1. UNCHANGED <<tvars, work>> /\ UNCHANGED <<epoch, opened, fences, revoked, receipt, now, faults>>
  BY DEF vars, wvars, tvars
<1>2. NumbersOk' /\ ReceiptsOk' /\ ReceiptsStay /\ fences <= fences'
  BY <1>1 DEF IInv, NumbersOk, ReceiptsOk, ReceiptOk, ReceiptsStay
<1>3. QED
  BY <1>1, <1>2, WorldMoves

\* An export changes nothing.
LEMMA ExportAside ==
    ASSUME IInv, NEW c \in Caller, Export(c)
    PROVE  IInv'
<1>1. UNCHANGED <<now, head, entries, identity, raw, tomb, job, late, sweep>>
      /\ UNCHANGED wvars
  BY DEF Export, ExportStep, store
<1>2. faults' \in 0 .. MaxFaults
  <2>1. Fault \/ NoFault
    BY DEF Export, ExportStep, ReadPage, FixTime, ReadLifecycle
  <2>2. QED
    BY <2>1, FaultsCounted DEF IInv
<1>3. now' \in 1 .. MaxTime /\ now <= now' /\ now \in Nat /\ now' \in Nat
  BY <1>1 DEF IInv, NumbersOk
<1>4. RawOk'
  BY <1>1, <1>3, RawKept DEF IInv
<1>5. SweepOk'
  BY <1>1 DEF IInv, SweepOk, Expires
<1>6. late' \subseteq late
  BY <1>1
<1>7. QED
  BY <1>1, <1>2, <1>3, <1>4, <1>5, <1>6, StoreOnly

LEMMA NextInv == IInv /\ [Next]_vars => IInv'
<1> SUFFICES ASSUME IInv, [Next]_vars PROVE IInv'
  OBVIOUS
<1>1. ASSUME NEW c \in Caller, Workflow(c) PROVE IInv'
  BY <1>1, BeginRevokeStep, ClassifyRevocationStep, BeginDenialStep, BeginObservationStep,
     ReadAuthorityStep, ObserveStep, ClassifyStep, RecordedStep, RouteRecordedStep
  DEF Workflow
<1>2. CASE World
  BY <1>2, FenceStep, DenyStep, FinishStep DEF World
<1>3. CASE AppendStep /\ UNCHANGED wvars
  BY <1>3, ReadItemStep, AdoptItemStep, CommitStep DEF AppendStep
<1>4. CASE StoreStep /\ UNCHANGED wvars
  BY <1>4, LandLateStep, SweepQueryStep, SweepDeleteStep DEF StoreStep
<1>5. CASE Tick /\ UNCHANGED wvars
  BY <1>5, TickStep
<1>6. ASSUME NEW c \in Caller, Export(c) PROVE IInv'
  BY <1>6, ExportAside
<1>7. CASE UNCHANGED vars
  BY <1>7, StutterInv
<1>8. QED
  BY <1>1, <1>2, <1>3, <1>4, <1>5, <1>6, <1>7 DEF Next

-----------------------------------------------------------------------------
\* What follows from the invariant.

LEMMA InvChain ==
    ASSUME IInv PROVE ChainIsWhole
<1>1. head = Len(entries) /\ head \in Nat /\ NumbersOk
  BY DEF IInv, ChainOk
<1>2. ASSUME NEW i \in 1 .. head
      PROVE  /\ identity[entries[i].source] = i
             /\ entries[i].prev = IF i = 1 THEN NoSource ELSE entries[i - 1].source
  BY DEF IInv, ChainOk, EntryInPlace
<1>3. PageIsLinked(0, head)
  BY <1>1, <1>2 DEF PageIsLinked
<1>4. \A s \in Source : identity[s] # 0 => identity[s] <= head
  BY <1>1 DEF IInv, ChainOk
<1>5. QED
  BY <1>1, <1>2, <1>3, <1>4 DEF ChainIsWhole

LEMMA InvAnswers ==
    ASSUME IInv PROVE AnswersAreRecorded
<1>1. ASSUME NEW c \in Caller, work[c].pc = "done", work[c].out = "ok"
      PROVE  /\ work[c].kind = "revoke" =>
                  /\ identity[<<"evidence", 2>>] # 0 /\ identity[<<"operator", c>>] # 0
                  /\ \E n \in 0 .. fences : identity[<<"revocation", n>>] # 0
             /\ work[c].kind = "denial" =>
                  /\ identity[work[c].of.id] # 0 /\ identity[<<"classification", c>>] # 0
                  /\ entries[identity[work[c].of.id]].body = work[c].of
             /\ work[c].kind = "complete" => identity[<<"classification", c>>] # 0
  <2>1. Promise(c, work[c], Known)
    BY <1>1, CallInHand DEF PromiseKept
  <2>2. \A s \in Known : s \in Source /\ identity[s] # 0
    BY DEF Known
  <2>3. ASSUME work[c].kind = "denial"
        PROVE  entries[identity[work[c].of.id]].body = work[c].of
    <3>1. PICK r \in Receipt : work[c].of = receipt[r] /\ receipt[r] # NoReceipt
      BY <2>3, CallInHand DEF WorkFits, OfOk
    <3>2. PICK s : s = <<"receipt", r>>
      OBVIOUS
    <3>3. work[c].of.id = s
      BY <3>1, <3>2 DEF IInv, ReceiptsOk, ReceiptOk
    <3>4. s \in Source /\ identity[s] # 0
      BY <2>1, <2>2, <2>3, <3>3 DEF Promise
    <3>5. PICK i : i = identity[s]
      OBVIOUS
    <3>6. i \in 1 .. head /\ entries[i].source = s
      BY <3>4, <3>5 DEF IInv, ChainOk
    <3>7. Genuine(EventAt(i)) /\ EventAt(i).source = s /\ EventAt(i).body = entries[i].body
      BY <3>6 DEF IInv, ChainOk, EntryInPlace, EventAt, Event
    <3>8. entries[i].body = receipt[r]
      BY <3>2, <3>7 DEF Genuine
    <3>9. QED
      BY <3>1, <3>3, <3>5, <3>8
  <2>4. QED
    BY <2>1, <2>2, <2>3 DEF Promise
<1>2. QED
  BY <1>1 DEF AnswersAreRecorded

LEMMA InvCorrupt ==
    ASSUME IInv, ExportsOk PROVE CorruptOnlyUnswept
<1>1. \A c \in Caller : job[c].out # "corrupt"
  BY DEF IInv, JobsOk, JobInv
<1>2. \A c \in Caller : export[c].out = "corrupt" => Excused(export[c])
  BY DEF ExportsOk, ExportInv
<1>3. QED
  BY <1>1, <1>2 DEF CorruptOnlyUnswept, Excused, Page, Expired, Retired

LEMMA InvVerdicts ==
    ASSUME IInv PROVE VerdictsAreBacked
<1>1. ASSUME NEW i \in 1 .. head,
             entries[i].source[1] \in {"classification", "revocation"},
             entries[i].body.status = "COMPLETE"
      PROVE  LET b == entries[i].body
                 at == entries[i].source
                 before(source) == {k \in 1 .. i - 1 : entries[k].source = source}
             IN \/ b.kind = "REVOCATION" /\ before(<<"evidence", 2>>) # {}
                \/ /\ b.kind = "STALE_DENIAL"
                   /\ \E k \in before(b.request.subject) :
                        /\ entries[k].body.outcome = "DENIED"
                        /\ entries[k].body.id = b.request.subject
                   /\ \E e \in b.request.epoch + 1 .. MaxEpoch : before(<<"evidence", e>>) # {}
                \/ /\ b.kind = "PROMOTION"
                   /\ \A kind \in {"CONFIGURATION", "PROBE"} :
                        \E k \in before(<<kind, at[2]>>) :
                          /\ entries[k].body.verdict = "MATCH"
                          /\ entries[k].body.request = b.request
  <2>1. EventAt(i).source = entries[i].source /\ EventAt(i).body = entries[i].body
    BY DEF EventAt, Event
  <2>2. Backed(EventAt(i), EventsTo(i - 1)) /\ IsVerdict(EventAt(i))
    BY <1>1, <2>1 DEF IInv, ChainOk, EntryInPlace, IsVerdict
  <2>3. \A x \in EventsTo(i - 1) :
          \E k \in 1 .. i - 1 : x.source = entries[k].source /\ x.body = entries[k].body
    BY DEF EventsTo, EventAt, Event
  <2>4. PICK S : S = EventsTo(i - 1)
    OBVIOUS
  <2>5. \/ RevocationBacked(entries[i].body, S)
        \/ DenialBacked(entries[i].body, S)
        \/ PromotionBacked(entries[i].body, entries[i].source, S)
    BY <2>1, <2>2, <2>4 DEF Backed
  <2>6. \A x \in S : \E k \in 1 .. i - 1 : x.source = entries[k].source /\ x.body = entries[k].body
    BY <2>3, <2>4
  <2>7. CASE RevocationBacked(entries[i].body, S)
    BY <2>6, <2>7 DEF RevocationBacked
  <2>8. CASE DenialBacked(entries[i].body, S)
    <3> DEFINE b == entries[i].body
               before(source) == {k \in 1 .. i - 1 : entries[k].source = source}
    <3>1. \E k \in before(b.request.subject) :
             entries[k].body.outcome = "DENIED" /\ entries[k].body.id = b.request.subject
      BY <2>6, <2>8 DEF DenialBacked
    <3>2. \E e \in b.request.epoch + 1 .. MaxEpoch : before(<<"evidence", e>>) # {}
      <4>1. PICK e \in b.request.epoch + 1 .. MaxEpoch : \E x \in S : x.source = <<"evidence", e>>
        BY <2>8 DEF DenialBacked
      <4>2. before(<<"evidence", e>>) # {}
        BY <2>6, <4>1
      <4>3. QED
        BY <4>2
    <3>3. QED
      BY <2>8, <3>1, <3>2 DEF DenialBacked
  <2>9. CASE PromotionBacked(entries[i].body, entries[i].source, S)
    BY <2>6, <2>9 DEF PromotionBacked
  <2>10. QED
    BY <2>5, <2>7, <2>8, <2>9
<1>2. QED
  BY <1>1 DEF VerdictsAreBacked, RecordedBefore

LEMMA InvTypes ==
    ASSUME IInv, ExportsOk PROVE TypeOK
<1>1. NumbersOk /\ now \in Nat /\ now <= MaxTime
  BY TimelineConstants DEF IInv, NumbersOk
<1>2. ASSUME NEW i \in 1 .. head
      PROVE  EntryOk(entries[i], i) /\ BodyOk(entries[i].source, entries[i].body)
  <2>1. EntryInPlace(i)
    BY DEF IInv, ChainOk
  <2>2. /\ entries[i].source \in Source /\ BodyOk(entries[i].source, entries[i].body)
    BY <2>1 DEF EntryInPlace, Genuine, EventAt, Event
  <2>3. i # 1 => entries[i].prev \in Source
    <3>1. ASSUME i # 1 PROVE entries[i].prev \in Source
      <4>1. i - 1 \in 1 .. head
        BY <3>1 DEF IInv, ChainOk
      <4>2. entries[i - 1].source \in Source
        BY <4>1 DEF IInv, ChainOk, EntryInPlace, Genuine, EventAt, Event
      <4>3. QED
        BY <2>1, <3>1, <4>2 DEF EntryInPlace
    <3>2. QED
      BY <3>1
  <2>4. i = 1 => entries[i].prev = NoSource
    BY <2>1 DEF EntryInPlace
  <2>5. entries[i].at \in 1 .. MaxTime
    BY <1>1, <2>1, TimelineConstants DEF EntryInPlace
  <2>6. QED
    BY <2>1, <2>2, <2>3, <2>4, <2>5, TimelineConstants DEF EntryOk, EntryInPlace
<1>3. ASSUME NEW s \in Source
      PROVE  /\ identity[s] \in 0 .. head
             /\ raw[s] \in 0 .. MaxTime + Retention /\ tomb[s] \in 0 .. MaxTime
  <2>1. identity[s] \in 0 .. head
    BY DEF IInv, ChainOk
  <2>2. CASE identity[s] = 0
    BY <2>1, <2>2, TimelineConstants DEF IInv, RawOk
  <2>3. CASE identity[s] # 0
    <3>1. identity[s] \in 1 .. head
      BY <2>1, <2>3 DEF IInv, ChainOk
    <3>2. entries[identity[s]].at \in 1 .. now
      BY <3>1 DEF IInv, ChainOk, EntryInPlace
    <3>3. Expires(s) \in 0 .. MaxTime + Retention /\ Expires(s) \in Nat
      BY <1>1, <3>2, TimelineConstants DEF Expires
    <3>4. \/ raw[s] = Expires(s) /\ tomb[s] = 0
          \/ raw[s] = 0 /\ tomb[s] \in Expires(s) .. now
      BY <2>3 DEF IInv, RawOk
    <3>5. QED
      BY <1>1, <2>1, <3>3, <3>4, TimelineConstants
  <2>4. QED
    BY <2>2, <2>3
<1>4. ASSUME NEW c \in Caller PROVE JobOk(job[c])
  <2>1. PICK j : j = job[c]
    OBVIOUS
  <2>2. JobInv(j)
    BY <2>1, CallInHand
  <2>3. j.pc \in {"read", "adopt", "commit"} => ValidGroup(j.items)
    BY <2>2 DEF JobInv, PlaceOk, GroupOk
  <2>4. Len(j.seen) <= Len(j.items) /\ j.adopt \in 0 .. Len(j.seen)
    <3>1. CASE j.pc \in {"read", "adopt", "commit"}
      <4>1. GroupOk(j.items) /\ j.seen \in Seq(BOOLEAN)
        BY <2>2, <3>1 DEF JobInv, PlaceOk
      <4>2. Len(j.items) \in Nat /\ Len(j.seen) \in Nat
        BY <4>1, SeqFacts, LenProperties DEF GroupOk
      <4>3. CASE j.pc = "read"
        BY <2>2, <4>2, <4>3 DEF JobInv, PlaceOk
      <4>4. CASE j.pc = "commit"
        <5>1. j.seen = <<>> /\ j.adopt = 0
          BY <2>2, <4>4 DEF JobInv, PlaceOk
        <5>2. Len(j.seen) = 0
          BY <5>1
        <5>3. QED
          BY <4>2, <5>1, <5>2
      <4>5. CASE j.pc = "adopt"
        <5>1. Len(j.seen) = Len(j.items) /\ \E n \in 1 .. Len(j.seen) : j.adopt \in 1 .. n
          BY <2>2, <4>5 DEF JobInv, PlaceOk
        <5>2. QED
          BY <4>2, <5>1
      <4>6. QED
        BY <3>1, <4>3, <4>4, <4>5
    <3>2. CASE j.pc \in {"idle", "done"}
      <4>1. j.seen = <<>> /\ j.items = <<>> /\ j.adopt = 0
        BY <2>2, <3>2 DEF JobInv, PlaceOk
      <4>2. QED
        BY <4>1
    <3>3. QED
      BY <2>2, <3>1, <3>2 DEF JobInv
  <2>5. JobOk(j)
    BY <2>2, <2>3, <2>4 DEF JobInv, JobOk
  <2>6. QED
    BY <2>1, <2>5
<1>5. ASSUME NEW c \in Caller
      PROVE  /\ ValidEvidence(work[c].configuration) /\ ValidEvidence(work[c].probe)
             /\ work[c].pc \in {"observe", "classify", "record", "route"}
                /\ work[c].kind = "denial"
                  => ValidRequest(work[c].request)
                     /\ ValidAuthorityProof(work[c].proof, work[c].request)
  <2>1. WorkTyped(work[c]) /\ WorkFits(work[c])
    BY CallInHand
  <2>2. ASSUME work[c].pc \in {"observe", "classify", "record", "route"},
               work[c].kind = "denial"
        PROVE  ValidRequest(work[c].request)
               /\ ValidAuthorityProof(work[c].proof, work[c].request)
    <3>1. PICK w : w = work[c]
      OBVIOUS
    <3>2. ValidRequest(w.request) /\ InWindow(w.request.started, w.request)
      BY <2>1, <2>2, <3>1, RequestOk
    <3>3. ProofOk(w)
      BY <2>1, <2>2, <3>1 DEF WorkFits
    <3>4. ValidAuthorityProof(w.proof, w.request)
      BY <3>2, <3>3 DEF ProofOk, ValidAuthorityProof, NoAuthorityProof, AuthorityProof
    <3>5. QED
      BY <3>1, <3>2, <3>4
  <2>3. QED
    BY <2>1, <2>2 DEF WorkTyped
<1>6. head \in Nat /\ Len(entries) = head /\ faults \in 0 .. MaxFaults /\ epoch \in 1 .. MaxEpoch
  BY DEF IInv, ChainOk, NumbersOk
<1>7. ASSUME NEW c \in Caller PROVE ExportOk(export[c])
  <2>1. export[c] \in Exports /\ PlaceInPage(export[c]) /\ now \in Nat /\ head \in Nat
    BY <1>1, <1>6 DEF ExportsOk, ExportInv
  <2>2. QED
    BY <2>1 DEF Exports, PlaceInPage, Page, ExportOk
<1>8. QED
  BY <1>1, <1>2, <1>3, <1>4, <1>5, <1>6, <1>7 DEF TypeOK, NumbersOk

-----------------------------------------------------------------------------
\* The exports.  The store only moves on: entries and receipts stay.

StoreMovesOn ==
    /\ head <= head' /\ now <= now' /\ head' \in Nat /\ now' \in Nat
    /\ \A i \in 1 .. head : entries'[i] = entries[i]
    /\ \A s \in Source : tomb[s] # 0 => tomb'[s] # 0

LEMMA StoreStays ==
    ASSUME IInv, now' \in Nat, now <= now', UNCHANGED <<head, entries, tomb>>
    PROVE  StoreMovesOn
  BY DEF IInv, ChainOk, StoreMovesOn

\* A deletion writes a receipt only where there is none.
LEMMA DeletionMovesOn ==
    ASSUME IInv, UNCHANGED <<now, head, entries>>,
           NEW s, NEW at, DeleteRaw(s, at) \/ UNCHANGED <<raw, tomb>>
    PROVE  StoreMovesOn
<1>1. head \in Nat /\ now \in Nat /\ tomb \in [Source -> Nat]
  BY DEF IInv, ChainOk, RawOk, NumbersOk
<1>2. tomb' = tomb \/ (tomb[s] = 0 /\ tomb' = [tomb EXCEPT ![s] = at])
  BY DEF DeleteRaw, DeletionResult
<1>3. \A t \in Source : tomb[t] # 0 => tomb'[t] # 0
  BY <1>1, <1>2
<1>4. QED
  BY <1>1, <1>3 DEF StoreMovesOn

LEMMA WriteMovesOn ==
    ASSUME IInv, UNCHANGED now, NEW items, GroupOk(items), NEW at, at \in 1 .. now,
           GroupIsNew(items), WriteGroup(items, at)
    PROVE  StoreMovesOn
<1>1. PICK h : h = head
  OBVIOUS
<1>2. Written(h, items, at)
  BY <1>1, GroupIsWritten DEF IInv
<1>3. h \in Nat /\ now \in Nat /\ Len(items) \in Nat
  BY <1>1, SeqFacts DEF IInv, ChainOk, NumbersOk, GroupOk
<1>4. QED
  BY <1>1, <1>2, <1>3 DEF Written, StoreMovesOn

LEMMA MovesOn == IInv /\ [Next]_vars => StoreMovesOn
<1> SUFFICES ASSUME IInv, [Next]_vars PROVE StoreMovesOn
  OBVIOUS
<1>1. now \in Nat /\ now' = now => now' \in Nat /\ now <= now'
  BY DEF IInv, NumbersOk
<1>0. now \in Nat
  BY DEF IInv, NumbersOk
<1>2. CASE UNCHANGED <<now, head, entries, tomb>>
  BY <1>0, <1>1, <1>2, StoreStays
<1>3. ASSUME NEW c \in Caller, Workflow(c) PROVE UNCHANGED <<now, head, entries, tomb>>
  BY <1>3 DEF Workflow, BeginRevoke, ClassifyRevocation, BeginDenial, BeginObservation,
     ReadAuthority, Observe, Classify, Recorded, RouteRecorded, Still, Quiet, tvars, store
<1>4. CASE World
  BY <1>2, <1>4 DEF World, Fence, Deny, Finish, tvars
<1>5. ASSUME NEW c \in Caller, ReadItem(c) PROVE StoreMovesOn
  BY <1>2, <1>5 DEF ReadItem, store
<1>6. ASSUME NEW c \in Caller, AdoptItem(c) PROVE StoreMovesOn
  <2>1. PICK s : s = job[c].items[job[c].adopt].source
    OBVIOUS
  <2>2. UNCHANGED <<now, head, entries>> /\ (DeleteRaw(s, now) \/ UNCHANGED <<raw, tomb>>)
    BY <1>6, <2>1 DEF AdoptItem
  <2>3. QED
    BY <2>2, DeletionMovesOn
<1>7. ASSUME NEW c \in Caller, Commit(c) PROVE StoreMovesOn
  <2>1. PICK items, at : items = job[c].items /\ at = job[c].at
    OBVIOUS
  <2>2. /\ UNCHANGED now /\ job[c].pc = "commit"
        /\ UNCHANGED store \/ (GroupIsNew(items) /\ WriteGroup(items, at))
    BY <1>7, <2>1 DEF Commit
  <2>3. GroupOk(items) /\ at \in 1 .. now
    BY <2>1, <2>2 DEF IInv, JobsOk, JobInv, PlaceOk
  <2>4. QED
    BY <1>2, <2>2, <2>3, WriteMovesOn DEF store
<1>8. CASE LandLate
  <2>1. PICK p \in late : UNCHANGED store \/ (GroupIsNew(p.items) /\ WriteGroup(p.items, p.at))
    BY <1>8 DEF LandLate
  <2>2. PICK items, at : items = p.items /\ at = p.at
    OBVIOUS
  <2>3. /\ UNCHANGED now /\ GroupOk(items) /\ at \in 1 .. now
        /\ UNCHANGED store \/ (GroupIsNew(items) /\ WriteGroup(items, at))
    BY <1>8, <2>1, <2>2 DEF LandLate, IInv, LateOk
  <2>4. QED
    BY <1>2, <2>3, WriteMovesOn DEF store
<1>9. CASE SweepQuery
  BY <1>2, <1>9 DEF SweepQuery, store
<1>10. CASE SweepDelete
  <2>1. PICK s, at : s = Head(sweep.todo) /\ at = sweep.at
    OBVIOUS
  <2>2. UNCHANGED <<now, head, entries>> /\ (DeleteRaw(s, at) \/ UNCHANGED <<raw, tomb>>)
    BY <1>10, <2>1 DEF SweepDelete
  <2>3. QED
    BY <2>2, DeletionMovesOn
<1>11. CASE Tick
  <2>1. now' \in Nat /\ now <= now' /\ UNCHANGED <<head, entries, tomb>>
    BY <1>0, <1>11 DEF Tick, store
  <2>2. QED
    BY <2>1, StoreStays
<1>12. ASSUME NEW c \in Caller, Export(c) PROVE StoreMovesOn
  BY <1>2, <1>12 DEF Export, ExportStep, store
<1>13. CASE UNCHANGED vars
  BY <1>2, <1>13 DEF vars, tvars
<1>14. QED
  BY <1>2, <1>3, <1>4, <1>5, <1>6, <1>7, <1>8, <1>9, <1>10, <1>11, <1>12, <1>13
  DEF Next, AppendStep, StoreStep

\* What an export has read stays true of the store.
LEMMA ExportKept ==
    ASSUME IInv, StoreMovesOn, NEW CONSTANT e \in Exports, ExportInv(e)
    PROVE  ExportInv(e)'
<1>1. e.after \in Nat /\ e.upto \in Nat /\ e.at \in Nat /\ head \in Nat /\ now \in Nat
  BY DEF Exports, IInv, ChainOk, NumbersOk
<1>2. PlaceInPage(e)'
  BY <1>1 DEF ExportInv, PlaceInPage, StoreMovesOn, Page
<1>3. ASSUME NEW i \in Page(e)
      PROVE  Expired(i, e.at)' = Expired(i, e.at) /\ (Retired(i) => Retired(i)')
  <2>1. i \in 1 .. head
    BY <1>1 DEF ExportInv, PlaceInPage, Page
  <2>2. entries'[i] = entries[i] /\ entries[i].source \in Source
    BY <2>1 DEF StoreMovesOn, IInv, ChainOk, EntryInPlace, Genuine, EventAt, Event
  <2>3. QED
    BY <2>2 DEF StoreMovesOn, Expired, Retired
<1>4. \A i \in e.retired : Expired(i, e.at)' /\ Retired(i)'
  BY <1>3 DEF ExportInv, PlaceInPage
<1>5. Excused(e) => Excused(e)'
  BY <1>3 DEF Excused
<1>6. QED
  BY <1>2, <1>4, <1>5 DEF ExportInv

LEMMA PlaceOfEntry ==
    ASSUME IInv, NEW i \in 1 .. head
    PROVE  /\ identity[entries[i].source] = i /\ entries[i].source \in Source
           /\ entries[i].at \in Nat /\ entries[i].at # 0
<1>1. EntryInPlace(i) /\ now \in Nat
  BY DEF IInv, ChainOk, NumbersOk
<1>2. Genuine(EventAt(i)) /\ entries[i].at \in 1 .. now /\ identity[entries[i].source] = i
  BY <1>1 DEF EntryInPlace
<1>3. entries[i].source \in Source
  BY <1>2 DEF Genuine, EventAt, Event
<1>4. QED
  BY <1>1, <1>2, <1>3

\* An entry that was retired had expired.
LEMMA RetiredHasExpired ==
    ASSUME IInv, NEW i \in 1 .. head, Retired(i)
    PROVE  Expired(i, now)
<1>1. PICK s : s = entries[i].source
  OBVIOUS
<1>2. identity[s] = i /\ s \in Source /\ entries[i].at \in Nat /\ entries[i].at # 0
  BY <1>1, PlaceOfEntry
<1>3. tomb[s] \in Expires(s) .. now /\ Expires(s) = entries[i].at + Retention /\ now \in Nat
  BY <1>1, <1>2 DEF IInv, NumbersOk, RawOk, Retired, Expires
<1>4. QED
  BY <1>2, <1>3, TimelineConstants DEF Expired

\* A document is not what the slice must hold only of an entry that expired
\* without its receipt, or has its receipt before its expiry.
LEMMA WrongDocument ==
    ASSUME IInv, NEW i \in 1 .. head, NEW at \in Nat, NEW doc \in {"raw", "receipt"},
           DocumentStored(doc, i) # Expected(doc, i, at)
    PROVE  (Expired(i, at) \/ Retired(i)) /\ ~ (Expired(i, at) /\ Retired(i))
<1>1. PICK s : s = entries[i].source
  OBVIOUS
<1>2. PICK x : x = entries[i].at + Retention
  OBVIOUS
<1>3. identity[s] = i /\ s \in Source /\ entries[i].at \in Nat /\ entries[i].at # 0
  BY <1>1, PlaceOfEntry
<1>4. x \in Nat /\ x # 0 /\ i # 0
  BY <1>2, <1>3, TimelineConstants
<1>5. (raw[s] # 0) = (tomb[s] = 0)
  <2>1. Expires(s) = x /\ now \in Nat
    BY <1>2, <1>3 DEF Expires, IInv, NumbersOk
  <2>2. (raw[s] = x /\ tomb[s] = 0) \/ (raw[s] = 0 /\ tomb[s] \in x .. now)
    BY <1>3, <1>4, <2>1 DEF IInv, RawOk
  <2>3. QED
    BY <1>4, <2>1, <2>2
<1>6. Expired(i, at) = (at >= x) /\ Retired(i) = (tomb[s] # 0) /\ (at < x) = ~ (at >= x)
  BY <1>1, <1>2, <1>4 DEF Expired, Retired
<1>7. DocumentStored(doc, i) = ((doc = "raw") = (tomb[s] = 0))
  BY <1>1, <1>5 DEF DocumentStored
<1>8. Expected(doc, i, at) = ((doc = "raw") = (at < x))
  BY <1>2 DEF Expected
<1>9. QED
  BY <1>6, <1>7, <1>8

\* A slice is answered from what was read.
LEMMA SlicedOk ==
    ASSUME NEW e \in Exports, ExportInv(e), e.pc = "read"
    PROVE  Sliced(e) \in Exports /\ ExportInv(Sliced(e))
<1>1. CASE e.todo # {}
  BY <1>1 DEF Sliced
<1>2. CASE e.todo = {}
  <2>1. PICK f : f = [e EXCEPT !.pc = "done", !.out = IF e.good THEN "exported" ELSE "corrupt"]
    OBVIOUS
  <2>2. f \in Exports /\ Sliced(e) = f
    BY <1>2, <2>1 DEF Exports, Sliced
  <2>3. /\ f.pc = "done" /\ f.out = (IF e.good THEN "exported" ELSE "corrupt")
        /\ f.after = e.after /\ f.upto = e.upto /\ f.at = e.at /\ f.todo = e.todo
        /\ f.retired = e.retired /\ f.good = e.good
    BY <2>1 DEF Exports
  <2>4. PlaceInPage(f)
    BY <2>3 DEF ExportInv, PlaceInPage, Page
  <2>5. Page(f) = Page(e) /\ Excused(f) = Excused(e)
    BY <2>3 DEF Page, Excused
  <2>6. ExportInv(f)
    BY <2>3, <2>4, <2>5 DEF ExportInv
  <2>7. QED
    BY <2>2, <2>6
<1>3. QED
  BY <1>1, <1>2

LEMMA ClosedOk ==
    ASSUME NEW e \in Exports, NEW out \in {"exported", "unavailable"}, ExportInv(e)
    PROVE  LET f == [e EXCEPT !.pc = "done", !.out = out] IN f \in Exports /\ ExportInv(f)
<1>1. PICK f : f = [e EXCEPT !.pc = "done", !.out = out]
  OBVIOUS
<1>2. /\ f \in Exports /\ f.pc = "done" /\ f.out = out
      /\ f.after = e.after /\ f.upto = e.upto /\ f.at = e.at /\ f.todo = e.todo
      /\ f.retired = e.retired /\ f.good = e.good
  BY <1>1 DEF Exports
<1>3. PlaceInPage(f)
  BY <1>2 DEF ExportInv, PlaceInPage, Page
<1>4. Page(f) = Page(e) /\ Excused(f) = Excused(e)
  BY <1>2 DEF Page, Excused
<1>5. ExportInv(f)
  BY <1>2, <1>3, <1>4 DEF ExportInv
<1>6. QED
  BY <1>1, <1>2, <1>5

LEMMA NoExportOk ==
    ASSUME IInv PROVE NoExport \in Exports /\ ExportInv(NoExport)
<1>1. head \in Nat /\ now \in Nat
  BY DEF IInv, ChainOk, NumbersOk
<1>2. QED
  BY <1>1 DEF NoExport, Exports, ExportInv, PlaceInPage

\* A page that is read: it is linked, for the chain is whole.
LEMMA PageRead ==
    ASSUME IInv, NEW c \in Caller, ReadPage(c)
    PROVE  \E e \in Exports : ExportInv(e) /\ Exporting(c, e)
<1>1. CASE Exporting(c, [NoExport EXCEPT !.pc = "done", !.out = "unavailable"])
  BY <1>1, NoExportOk, ClosedOk
<1>2. ASSUME NEW after \in 0 .. head,
             Exporting(c, IF PageIsLinked(after, PageEnd(after))
                          THEN [NoExport EXCEPT !.pc = "clock", !.after = after,
                                                !.upto = PageEnd(after)]
                          ELSE [NoExport EXCEPT !.pc = "done", !.out = "corrupt"])
      PROVE  \E e \in Exports : ExportInv(e) /\ Exporting(c, e)
  <2>1. /\ head \in Nat /\ head = Len(entries) /\ after \in Nat /\ now \in Nat
        /\ PageEnd(after) \in Nat /\ PageEnd(after) <= head /\ after <= PageEnd(after)
    BY TimelineConstants DEF IInv, ChainOk, NumbersOk, PageEnd
  <2>2. \A i \in after + 1 .. PageEnd(after) : i \in 1 .. head
    BY <2>1
  <2>3. PageIsLinked(after, PageEnd(after))
    BY <2>1, <2>2 DEF PageIsLinked, IInv, ChainOk, EntryInPlace
  <2>4. PICK upto : upto = PageEnd(after)
    OBVIOUS
  <2>5. PICK e : e = [NoExport EXCEPT !.pc = "clock", !.after = after, !.upto = upto]
    OBVIOUS
  <2>6. /\ e.pc = "clock" /\ e.after = after /\ e.upto = upto /\ e.at = 0 /\ e.todo = {}
        /\ e.good /\ e.retired = {} /\ e.out = "none" /\ e \in Exports
    BY <2>1, <2>4, <2>5 DEF NoExport, Exports
  <2>7. PlaceInPage(e)
    BY <2>1, <2>4, <2>6 DEF PlaceInPage
  <2>8. ExportInv(e)
    BY <2>6, <2>7 DEF ExportInv
  <2>9. QED
    BY <1>2, <2>3, <2>4, <2>5, <2>6, <2>8
<1>3. QED
  BY <1>1, <1>2 DEF ReadPage

\* The time is fixed: what is retired by now has expired.
LEMMA TimeFixed ==
    ASSUME IInv, NEW c \in Caller, export[c] \in Exports, ExportInv(export[c]), FixTime(c)
    PROVE  \E e \in Exports : ExportInv(e) /\ Exporting(c, e)
<1>1. PICK d : d = export[c]
  OBVIOUS
<1>2. PICK page : page = d.after + 1 .. d.upto
  OBVIOUS
<1>3. PICK retired : retired = {i \in page : Retired(i)}
  OBVIOUS
<1>4. PICK e : e = [d EXCEPT !.pc = "read", !.at = now, !.todo = page \X {"raw", "receipt"},
                             !.retired = retired]
  OBVIOUS
<1>5. Exporting(c, Sliced(e)) /\ d.pc = "clock" /\ d \in Exports /\ ExportInv(d)
  BY <1>1, <1>2, <1>3, <1>4 DEF FixTime, Retired
<1>6. /\ d.after \in Nat /\ d.upto \in Nat /\ now \in Nat /\ head \in Nat /\ d.good
      /\ d.out = "none" /\ d.after <= d.upto /\ d.upto <= head
  BY <1>5 DEF Exports, ExportInv, PlaceInPage, IInv, ChainOk, NumbersOk
<1>7. page \subseteq 1 .. head /\ page \subseteq Nat /\ retired \subseteq page
  BY <1>2, <1>3, <1>6
<1>8. /\ e.pc = "read" /\ e.at = now /\ e.todo = page \X {"raw", "receipt"} /\ e.good
      /\ e.retired = retired /\ e.after = d.after /\ e.upto = d.upto /\ e.out = "none"
      /\ e \in Exports
  BY <1>4, <1>5, <1>6, <1>7 DEF Exports
<1>9. PlaceInPage(e)
  BY <1>2, <1>6, <1>7, <1>8 DEF PlaceInPage, Page
<1>10. \A i \in retired : Expired(i, now) /\ Retired(i)
  BY <1>3, <1>7, RetiredHasExpired
<1>11. ExportInv(e)
  BY <1>8, <1>9, <1>10 DEF ExportInv
<1>12. QED
  BY <1>5, <1>8, <1>11, SlicedOk

\* A document is read: a wrong one is of an entry that was not retired before.
LEMMA LifecycleRead ==
    ASSUME IInv, NEW c \in Caller, export[c] \in Exports, ExportInv(export[c]),
           ReadLifecycle(c)
    PROVE  \E e \in Exports : ExportInv(e) /\ Exporting(c, e)
<1>1. PICK d : d = export[c]
  OBVIOUS
<1>2. d \in Exports /\ ExportInv(d) /\ d.pc = "read"
  BY <1>1 DEF ReadLifecycle
<1>3. CASE Exporting(c, [d EXCEPT !.pc = "done", !.out = "unavailable"])
  BY <1>2, <1>3, ClosedOk
<1>4. ASSUME NEW t \in d.todo,
             Exporting(c, Sliced([d EXCEPT !.todo = @ \ {t},
                 !.good = @ /\ DocumentStored(t[2], t[1]) = Expected(t[2], t[1], d.at)]))
      PROVE  \E e \in Exports : ExportInv(e) /\ Exporting(c, e)
  <2>1. PICK good : good = (d.good /\ DocumentStored(t[2], t[1]) = Expected(t[2], t[1], d.at))
    OBVIOUS
  <2>2. PICK e : e = [d EXCEPT !.todo = @ \ {t}, !.good = good]
    OBVIOUS
  <2>3. Exporting(c, Sliced(e))
    BY <1>4, <2>1, <2>2
  <2>4. PICK i, doc : t = <<i, doc>> /\ i \in Page(d) /\ doc \in {"raw", "receipt"}
    BY <1>2, <1>4 DEF ExportInv, PlaceInPage
  <2>5. i \in 1 .. head /\ d.at \in Nat
    BY <1>2, <2>4 DEF Exports, ExportInv, PlaceInPage, Page, IInv, ChainOk
  <2>6. /\ e.pc = "read" /\ e.out = d.out /\ e.after = d.after /\ e.upto = d.upto /\ e.at = d.at
        /\ e.todo = d.todo \ {t} /\ e.good = good /\ e.retired = d.retired /\ e \in Exports
    BY <1>2, <2>1, <2>2 DEF Exports
  <2>7. Page(e) = Page(d) /\ (Excused(e) = Excused(d)) /\ PlaceInPage(e)
    BY <1>2, <2>6 DEF ExportInv, PlaceInPage, Page, Excused
  <2>8. ASSUME ~ good PROVE Excused(d)
    <3>1. CASE ~ d.good
      BY <1>2, <3>1 DEF ExportInv
    <3>2. CASE d.good
      <4>1. DocumentStored(doc, i) # Expected(doc, i, d.at)
        BY <2>1, <2>4, <2>8, <3>2
      <4>2. (Expired(i, d.at) \/ Retired(i)) /\ ~ (Expired(i, d.at) /\ Retired(i))
        BY <2>4, <2>5, <4>1, WrongDocument
      <4>3. i \notin d.retired
        BY <1>2, <4>2 DEF ExportInv
      <4>4. QED
        BY <2>4, <4>2, <4>3 DEF Excused
    <3>3. QED
      BY <1>2, <3>1, <3>2 DEF Exports
  <2>9. ExportInv(e)
    BY <1>2, <2>6, <2>7, <2>8 DEF ExportInv
  <2>10. QED
    BY <2>3, <2>6, <2>9, SlicedOk
<1>5. QED
  BY <1>1, <1>3, <1>4 DEF ReadLifecycle

LEMMA InitExports == Init => ExportsOk
<1> SUFFICES ASSUME Init PROVE ExportsOk
  OBVIOUS
<1>1. IInv /\ export = [c \in Caller |-> NoExport]
  BY InitInv DEF Init, TimelineInit
<1>2. QED
  BY <1>1, NoExportOk DEF ExportsOk

LEMMA NextExports == IInv /\ IInv' /\ ExportsOk /\ [Next]_vars => ExportsOk'
<1> SUFFICES ASSUME IInv, IInv', ExportsOk, [Next]_vars PROVE ExportsOk'
  OBVIOUS
<1>1. StoreMovesOn
  BY MovesOn
<1>2. \A c \in Caller : ExportInv(export[c]) /\ export[c] \in Exports
  BY DEF ExportsOk
<1>3. CASE UNCHANGED export
  <2>1. ASSUME NEW c \in Caller PROVE ExportInv(export[c])'
    <3>1. \A e \in Exports : ExportInv(e) => ExportInv(e)'
      BY <1>1, ExportKept
    <3>2. QED
      BY <1>2, <1>3, <3>1
  <2>2. QED
    BY <1>3, <2>1 DEF ExportsOk
<1>4. ASSUME NEW c \in Caller, Export(c) PROVE ExportsOk'
  <2>1. ReadPage(c) \/ FixTime(c) \/ ReadLifecycle(c)
    BY <1>4 DEF Export, ExportStep
  <2>2. PICK e \in Exports : ExportInv(e) /\ Exporting(c, e)
    BY <1>2, <2>1, PageRead, TimeFixed, LifecycleRead
  <2>3. \A f \in Exports : ExportInv(f) => ExportInv(f)'
    BY <1>1, ExportKept
  <2>4. export' \in [Caller -> Exports] /\ export'[c] = e
        /\ \A d \in Caller : d # c => export'[d] = export[d]
    BY <2>2 DEF Exporting, ExportsOk
  <2>5. QED
    BY <1>2, <2>2, <2>3, <2>4 DEF ExportsOk
<1>5. QED
  BY <1>3, <1>4 DEF Next, vars

-----------------------------------------------------------------------------
\* The whole argument: numbers, receipts, the chain with its raw records, the
\* appends, the late transactions, the sweep and the calls fit together at any
\* time (GoogleFirestoreGlobalTimelineStore and the completion workflows).
THEOREM TimelineInvariant == Spec => []IInv
<1>1. QED
  BY InitInv, NextInv, PTL DEF Spec

\* And every export is consistent with the store that it was read from, however
\* that moved on between its reads.
THEOREM ExportsFollowTheStore == Spec => []ExportsOk
<1>1. Init => ExportsOk
  BY InitExports
<1>2. IInv /\ IInv' /\ ExportsOk /\ [Next]_vars => ExportsOk'
  BY NextExports
<1>3. QED
  BY <1>1, <1>2, TimelineInvariant, PTL DEF Spec

\* Every record in the store and in every call is one that its contract admits
\* (the contracts of TimelineEntryV1, of the evidence and of the verdicts).
THEOREM RecordsAreValid == Spec => []TypeOK
<1>1. QED
  BY TimelineInvariant, ExportsFollowTheStore, InvTypes, PTL

\* However appends race, are adopted, start over or land late, the chain is
\* whole: linked, without gaps, each source recorded once and in its place
\* (_append_group and its readback).
THEOREM ChainStaysWhole == Spec => []ChainIsWhole
<1>1. QED
  BY TimelineInvariant, InvChain, PTL

\* The store calls none of its own records corrupt in an append; an export does
\* so only when an entry of its page was expired but not swept at evaluated_at, or
\* was swept between the export's reads (delete_raw_record, _raw_result and
\* read_raw_export).
THEOREM StoreIsSound == Spec => []CorruptOnlyUnswept
<1>1. QED
  BY TimelineInvariant, ExportsFollowTheStore, InvCorrupt, PTL

\* A recorded COMPLETE verdict is preceded by what it stands on (the causal
\* groups of the completion recorder).
THEOREM VerdictsStand == Spec => []VerdictsAreBacked
<1>1. QED
  BY TimelineInvariant, InvVerdicts, PTL

\* Who is answered finds the records of the answer in the timeline (the
\* recorders of the revocation, the stale denial and the completion check).
THEOREM AnswersLeaveRecords == Spec => []AnswersAreRecorded
<1>1. QED
  BY TimelineInvariant, InvAnswers, PTL
=============================================================================
