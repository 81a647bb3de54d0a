------------------------------ MODULE Timeline ------------------------------
(***************************************************************************)
(* The hash-linked evidence timeline of one target, as Firestore keeps it: *)
(* a head, the entries behind it, one identity per source record, and the  *)
(* raw record of every entry until its retention ends and a deletion       *)
(* receipt takes its place.                                                *)
(*                                                                         *)
(* A recorder call appends a causal group of events in one transaction.    *)
(* It first looks for the events that are there already, adopts a prefix   *)
(* of them and appends the rest, and it looks again when its transaction   *)
(* is refused or its answer is lost.  A sweep deletes expired raw records. *)
(* An export reads a page, then the clock, then raw record and deletion    *)
(* receipt of every entry, each in a read of its own; it changes nothing.  *)
(*                                                                         *)
(* An event is a source identity and a body; the body stands for the       *)
(* digests, and equal bodies for equal events.  An entry's link names its  *)
(* predecessor, an entry of the same store, instead of hashing it.  Reads  *)
(* of one event (identity, entry, head) are one step: what they read is    *)
(* written in one transaction and never changed.                           *)
(***************************************************************************)
EXTENDS Integers, Sequences, FiniteSets

CONSTANTS
    Caller,      \* calls that record or export
    Source,      \* identities of source records
    NoSource,    \* predecessor of the first entry
    Retention,   \* raw_retention_days of an event
    SweepLimit,  \* TIMELINE_RETENTION_SWEEP_LIMIT
    PageLimit,   \* entries in an export page
    MaxTime,     \* bound on the clock
    MaxFaults    \* bound on lost answers and failed reads

ASSUME TimelineConstants ==
    /\ NoSource \notin Source
    /\ Retention \in Nat \ {0} /\ SweepLimit \in Nat \ {0} /\ PageLimit \in Nat \ {0}
    /\ MaxTime \in Nat /\ MaxFaults \in Nat

VARIABLES
    now,       \* the clock of the coordinator
    head,      \* sequence in the head document, 0 without one
    entries,   \* the entry documents by sequence
    identity,  \* sequence in the identity document of a source, 0 without one
    raw,       \* expires_at of the raw document of a source, 0 without one
    tomb,      \* deletion_confirmed_at of the deletion receipt, 0 without one
    job,       \* the append of each call
    late,      \* append transactions whose callers stopped waiting
    sweep,     \* the retention sweep
    export,    \* the export of each call
    faults     \* how many faults happened so far

store == <<head, entries, identity, raw, tomb>>
tvars == <<now, head, entries, identity, raw, tomb, job, late, sweep, faults>>

Event(source, body) == [source |-> source, body |-> body]

\* why: what the append is looking for the group after: nothing yet, a refused
\* transaction, lost contention, or an error that leaves its outcome open.
NoJob == [pc |-> "idle", items |-> <<>>, seen |-> <<>>, again |-> FALSE, why |-> "first",
          adopt |-> 0, at |-> 0, out |-> "none", one |-> FALSE]
NoSweep == [pc |-> "idle", at |-> 0, todo |-> <<>>]

\* after, upto: the page; at: evaluated_at; todo: the documents still to read;
\* good: what was read so far is what the slice must hold.  retired, which no
\* step looks at: entries with a deletion receipt when the time was fixed.
NoExport == [pc |-> "idle", after |-> 0, upto |-> 0, at |-> 0, todo |-> {}, good |-> TRUE,
             retired |-> {}, out |-> "none"]

TimelineInit ==
    /\ now = 1 /\ head = 0 /\ entries = <<>>
    /\ identity = [s \in Source |-> 0]
    /\ raw = [s \in Source |-> 0] /\ tomb = [s \in Source |-> 0]
    /\ job = [c \in Caller |-> NoJob] /\ late = {}
    /\ sweep = NoSweep /\ export = [c \in Caller |-> NoExport] /\ faults = 0

Fault == faults < MaxFaults /\ faults' = faults + 1
NoFault == UNCHANGED faults

Sources(items) == {items[i].source : i \in 1..Len(items)}

(* ------------------------------ the append ----------------------------- *)

\* A group is not empty, within its limit and names every source once.
ValidGroup(items) ==
    /\ items # <<>> /\ Len(items) <= 32
    /\ Cardinality(Sources(items)) = Len(items)

StartAppend(c, items) ==
    /\ ValidGroup(items)
    /\ job' = [job EXCEPT ![c] = [NoJob EXCEPT !.pc = "read", !.items = items]]

\* A single event takes the same path but for a refused transaction.
AppendOne(c, e) ==
    job' = [job EXCEPT ![c] = [NoJob EXCEPT !.pc = "read", !.items = <<e>>, !.one = TRUE]]

Answered(out) == [NoJob EXCEPT !.pc = "done", !.out = out]

EntryMatches(e) == entries[identity[e.source]].body = e.body

\* What is stored of one event: nothing, the same, another one, or an entry
\* that the head does not reach.
ReadExistingAppend(e) ==
    IF identity[e.source] = 0 THEN "absent"
    ELSE IF ~EntryMatches(e) THEN "conflict"
    ELSE IF head < identity[e.source] THEN "corrupt" ELSE "same"

\* Nothing of the group is there: append it, or say why it is not there.
NothingAdopted(j) ==
    CASE j.why = "first" -> [j EXCEPT !.pc = "commit", !.at = now, !.seen = <<>>]
      [] j.why \in {"refused", "contention"} -> Answered("conflict")
      [] j.why = "error" -> Answered("unknown")

\* The events found must be a prefix of the group; otherwise the group is read
\* once more.
AdoptExactPrefix(j, seen) ==
    LET absent == {i \in 1..Len(seen) : ~seen[i]}
        n == IF absent = {} THEN Len(seen)
             ELSE (CHOOSE i \in absent : \A k \in absent : i <= k) - 1
    IN IF \E i \in n + 1 .. Len(seen) : seen[i]
       THEN IF j.again THEN Answered("conflict")
            ELSE [j EXCEPT !.seen = <<>>, !.again = TRUE]
       ELSE IF n = 0 THEN NothingAdopted(j)
       ELSE [j EXCEPT !.pc = "adopt", !.seen = seen, !.adopt = 1]

Seen(c, found) ==
    LET j == job[c]
        seen == Append(j.seen, found)
    IN job' = [job EXCEPT ![c] = IF Len(seen) < Len(j.items) THEN [j EXCEPT !.seen = seen]
                                 ELSE AdoptExactPrefix(j, seen)]

\* One event of the group; an unavailable read counts as nothing found.
ReadItem(c) ==
    /\ job[c].pc = "read"
    /\ LET r == ReadExistingAppend(job[c].items[Len(job[c].seen) + 1])
       IN \/ /\ IF r \in {"absent", "same"} THEN Seen(c, r = "same")
                ELSE job' = [job EXCEPT ![c] = Answered(r)]
             /\ NoFault
          \/ Seen(c, FALSE) /\ Fault
    /\ UNCHANGED <<now, store, late, sweep>>

Expires(s) == entries[identity[s]].at + Retention

\* Mutant: a receipt that is there already is not adopted.
DeletionAgain(s) == IF raw[s] = 0 THEN "corrupt" ELSE "deleted"

\* The deletion transaction; a receipt that is there already is adopted.
DeletionResult(s) ==
    IF tomb[s] # 0 THEN IF raw[s] # 0 THEN "corrupt" ELSE "replay"
    ELSE IF raw[s] = 0 THEN "corrupt" ELSE "deleted"

DeleteRaw(s, confirmed) ==
    IF DeletionResult(s) = "deleted"
    THEN raw' = [raw EXCEPT ![s] = 0] /\ tomb' = [tomb EXCEPT ![s] = confirmed]
    ELSE UNCHANGED <<raw, tomb>>

\* An adopted event must still have its raw record; an expired one is retired.
RawResult(s) ==
    IF now >= Expires(s) THEN DeletionResult(s)
    ELSE IF raw[s] = 0 THEN "corrupt" ELSE "present"

\* Mutant: an adopted prefix stands for the group.
AdoptedPrefix(j) ==
    IF j.adopt < Cardinality({i \in 1..Len(j.seen) : j.seen[i]})
    THEN [j EXCEPT !.adopt = j.adopt + 1] ELSE Answered("recorded")

\* All adopted: done.  Some: append the others, a new group.
Adopted(j) ==
    IF j.adopt < Cardinality({i \in 1..Len(j.seen) : j.seen[i]})
    THEN [j EXCEPT !.adopt = j.adopt + 1]
    ELSE IF j.adopt = Len(j.items) THEN Answered("recorded")
    ELSE [NoJob EXCEPT !.pc = "read", !.items = SubSeq(j.items, j.adopt + 1, Len(j.items))]

AdoptItem(c) ==
    /\ job[c].pc = "adopt"
    /\ LET j == job[c]
           s == j.items[j.adopt].source
       IN \/ /\ job' = [job EXCEPT ![c] = IF RawResult(s) = "corrupt"
                                          THEN Answered("corrupt") ELSE Adopted(j)]
             /\ IF now >= Expires(s) THEN DeleteRaw(s, now) ELSE UNCHANGED <<raw, tomb>>
             /\ NoFault
          \/ /\ job' = [job EXCEPT ![c] = Answered(IF j.why = "first" THEN "unavailable"
                                                      ELSE "unknown")]
             /\ UNCHANGED <<raw, tomb>> /\ Fault
    /\ UNCHANGED <<now, head, entries, identity, late, sweep>>

\* The entries of a group, each linked to the one before it.
LinkedEntries(items, at, last) ==
    [i \in 1..Len(items) |->
        [source |-> items[i].source, body |-> items[i].body, at |-> at,
         prev |-> IF i = 1 THEN last ELSE items[i - 1].source]]

LastSource == IF head = 0 THEN NoSource ELSE entries[head].source

GroupIsNew(items) == \A s \in Sources(items) : identity[s] = 0
SlotsAreFree(items) ==
    Len(entries) = head /\ \A s \in Sources(items) : raw[s] = 0

\* One transaction writes identities, entries, raw records and the head.
WriteGroup(items, at) ==
    /\ entries' = entries \o LinkedEntries(items, at, LastSource)
    /\ head' = head + Len(items)
    /\ identity' = [s \in Source |->
                      IF s \in Sources(items)
                      THEN head + (CHOOSE i \in 1..Len(items) : items[i].source = s)
                      ELSE identity[s]]
    /\ raw' = [s \in Source |-> IF s \in Sources(items) THEN at + Retention ELSE raw[s]]
    /\ UNCHANGED tomb

\* Look for the group again after a transaction.
LookAgain(j, why) == [j EXCEPT !.pc = "read", !.seen = <<>>, !.again = FALSE, !.why = why]

\* The transaction found an event of the group.  A single one is adopted as the
\* transaction read it.
Refused(j) ==
    IF ~j.one THEN LookAgain(j, "refused")
    ELSE IF EntryMatches(j.items[1]) THEN [j EXCEPT !.pc = "adopt", !.seen = <<TRUE>>, !.adopt = 1]
    ELSE Answered("conflict")

Commit(c) ==
    /\ job[c].pc = "commit"
    /\ LET j == job[c]
       IN \/ /\ ~(GroupIsNew(j.items) /\ SlotsAreFree(j.items))
             /\ job' = [job EXCEPT ![c] = IF GroupIsNew(j.items) THEN Answered("corrupt")
                                          ELSE Refused(j)]
             /\ UNCHANGED <<store, late>> /\ NoFault
          \/ /\ GroupIsNew(j.items) /\ SlotsAreFree(j.items) /\ WriteGroup(j.items, j.at)
             /\ UNCHANGED late
             /\ \/ job' = [job EXCEPT ![c] = Answered("recorded")] /\ NoFault
                \/ job' = [job EXCEPT ![c] = LookAgain(j, "error")] /\ Fault
          \/ /\ job' = [job EXCEPT ![c] = LookAgain(j, "contention")]
             /\ UNCHANGED <<store, late>> /\ Fault
          \/ /\ job' = [job EXCEPT ![c] = LookAgain(j, "error")]
             /\ late' = late \cup {[items |-> j.items, at |-> j.at, head |-> head]}
             /\ UNCHANGED store /\ Fault
    /\ UNCHANGED <<now, sweep>>

\* Mutant: a late transaction lands on whatever is there.
LandAnyway ==
    /\ \E p \in late : late' = late \ {p} /\ WriteGroup(p.items, p.at)
    /\ UNCHANGED <<now, job, sweep, faults>>

\* A transaction that timed out lands, unless what it read has changed.
LandLate ==
    /\ \E p \in late :
         /\ late' = late \ {p}
         /\ IF p.head = head /\ GroupIsNew(p.items) /\ SlotsAreFree(p.items)
            THEN WriteGroup(p.items, p.at) ELSE UNCHANGED store
    /\ UNCHANGED <<now, job, sweep, faults>>

(* ------------------------------ retention ------------------------------ *)

\* The expired raw records, oldest first, up to the limit.
ExpiredRaw(t) == {i \in 1..Len(entries) : raw[entries[i].source] \in 1..t}
OldestExpired(t) ==
    LET before(i, k) == \/ raw[entries[i].source] < raw[entries[k].source]
                        \/ raw[entries[i].source] = raw[entries[k].source] /\ i < k
        rank(i) == Cardinality({k \in ExpiredRaw(t) : before(k, i)}) + 1
        size == IF Cardinality(ExpiredRaw(t)) < SweepLimit
                THEN Cardinality(ExpiredRaw(t)) ELSE SweepLimit
    IN [n \in 1..size |-> entries[CHOOSE i \in ExpiredRaw(t) : rank(i) = n].source]

SweepQuery ==
    /\ sweep.pc = "idle" /\ ExpiredRaw(now) # {}
    /\ sweep' = [pc |-> "delete", at |-> now, todo |-> OldestExpired(now)]
    /\ UNCHANGED <<now, store, job, late, faults>>

\* One deletion after another; the first that fails ends the sweep.
SweepDelete ==
    /\ sweep.pc = "delete"
    /\ LET s == Head(sweep.todo)
       IN \/ /\ DeleteRaw(s, sweep.at) /\ NoFault
             /\ sweep' = IF DeletionResult(s) = "corrupt" \/ Len(sweep.todo) = 1 THEN NoSweep
                         ELSE [sweep EXCEPT !.todo = Tail(@)]
          \/ /\ sweep' = NoSweep /\ Fault
             /\ DeleteRaw(s, sweep.at) \/ UNCHANGED <<raw, tomb>>
    /\ UNCHANGED <<now, head, entries, identity, job, late>>

(* ------------------------------- the export ---------------------------- *)

\* The page must be linked from the cursor on; it has no gaps.
PageIsLinked(after, upto) ==
    /\ upto <= Len(entries)
    /\ \A i \in after + 1 .. upto :
         entries[i].prev = IF i = 1 THEN NoSource ELSE entries[i - 1].source

\* The last entry of the page behind a cursor.
PageEnd(after) == IF head < after + PageLimit THEN head ELSE after + PageLimit

Exporting(c, e) == export' = [export EXCEPT ![c] = e]

\* read_page: the head and the entries behind the cursor, which never change.
ReadPage(c) ==
    /\ export[c].pc = "idle"
    /\ \/ /\ \E after \in 0..head :
               Exporting(c, IF PageIsLinked(after, PageEnd(after))
                            THEN [NoExport EXCEPT !.pc = "clock", !.after = after,
                                                  !.upto = PageEnd(after)]
                            ELSE [NoExport EXCEPT !.pc = "done", !.out = "corrupt"])
          /\ NoFault
       \/ Exporting(c, [NoExport EXCEPT !.pc = "done", !.out = "unavailable"]) /\ Fault

\* The slice is checked once everything is read.
Sliced(e) ==
    IF e.todo # {} THEN e
    ELSE [e EXCEPT !.pc = "done", !.out = IF e.good THEN "exported" ELSE "corrupt"]

\* evaluated_at is fixed before anything of an entry's lifecycle is read.
FixTime(c) ==
    /\ export[c].pc = "clock"
    /\ LET page == export[c].after + 1 .. export[c].upto
       IN Exporting(c, Sliced([export[c] EXCEPT
              !.pc = "read", !.at = now, !.todo = page \X {"raw", "receipt"},
              !.retired = {i \in page : tomb[entries[i].source] # 0}]))
    /\ NoFault

\* Mutant: at its very expiry an entry still has its raw record.
ExpectedLonger(doc, i, at) == (doc = "raw") = (at <= entries[i].at + Retention)

\* Before its expiry an entry has its raw record, afterwards its receipt.
Expected(doc, i, at) == (doc = "raw") = (at < entries[i].at + Retention)

DocumentStored(doc, i) ==
    IF doc = "raw" THEN raw[entries[i].source] # 0 ELSE tomb[entries[i].source] # 0

\* One of the documents is read, whichever comes first.
ReadLifecycle(c) ==
    /\ export[c].pc = "read"
    /\ \/ /\ \E d \in export[c].todo :
               Exporting(c, Sliced([export[c] EXCEPT
                   !.todo = @ \ {d},
                   !.good = @ /\ DocumentStored(d[2], d[1])
                                   = Expected(d[2], d[1], export[c].at)]))
          /\ NoFault
       \/ Exporting(c, [export[c] EXCEPT !.pc = "done", !.out = "unavailable"]) /\ Fault

Tick ==
    /\ now < MaxTime /\ now' = now + 1
    /\ UNCHANGED <<store, job, late, sweep, faults>>

AppendStep == \E c \in Caller : ReadItem(c) \/ AdoptItem(c) \/ Commit(c)
StoreStep == LandLate \/ SweepQuery \/ SweepDelete
ExportStep(c) ==
    /\ ReadPage(c) \/ FixTime(c) \/ ReadLifecycle(c)
    /\ UNCHANGED <<now, store, job, late, sweep>>

(* ----------------------------- properties ------------------------------ *)

\* An entry: only the first has no predecessor.
EntryOk(e, i) ==
    /\ DOMAIN e = {"source", "body", "at", "prev"}
    /\ e.source \in Source /\ e.at \in 1..MaxTime
    /\ e.prev \in Source \cup {NoSource} /\ (i = 1) = (e.prev = NoSource)

JobOk(j) ==
    /\ j.pc \in {"idle", "read", "adopt", "commit", "done"}
    /\ j.why \in {"first", "refused", "contention", "error"}
    /\ j.out \in {"none", "recorded", "conflict", "corrupt", "unavailable", "unknown"}
    /\ (j.out = "none") = (j.pc # "done")
    /\ j.pc \in {"read", "adopt", "commit"} => ValidGroup(j.items)
    /\ Len(j.seen) <= Len(j.items) /\ j.adopt \in 0..Len(j.seen)

ExportOk(e) ==
    /\ e.pc \in {"idle", "clock", "read", "done"}
    /\ e.out \in {"none", "exported", "corrupt", "unavailable"}
    /\ (e.out = "none") = (e.pc # "done")
    /\ e.after \in 0..e.upto /\ e.upto \in 0..head /\ e.at \in 0..now
    /\ e.retired \subseteq e.after + 1 .. e.upto
    /\ e.todo \subseteq (e.after + 1 .. e.upto) \X {"raw", "receipt"}

\* The chain is whole: the head is its last entry, every entry is linked to the
\* one before it, and every source that is recorded is recorded once, where its
\* identity says, whichever groups raced, were adopted or landed late.
ChainIsWhole ==
    /\ head = Len(entries)
    /\ PageIsLinked(0, head)
    /\ \A i \in 1..head : identity[entries[i].source] = i
    /\ \A s \in Source : identity[s] # 0 => identity[s] <= head

\* The store never calls its own records corrupt in an append or an adoption,
\* and in an export for one reason only: when evaluated_at was fixed an entry of
\* the page was expired and not yet swept, or it was swept while the export read.
\* A record that had been retired by then never does it, nor a boundary between
\* the sweep's idea of an expiry and the export's.
CorruptOnlyUnswept ==
    /\ \A c \in Caller : job[c].out # "corrupt"
    /\ \A c \in Caller :
         LET e == export[c]
         IN e.out = "corrupt" =>
              \E i \in (e.after + 1 .. e.upto) \ e.retired :
                 e.at >= entries[i].at + Retention \/ tomb[entries[i].source] # 0

=============================================================================
