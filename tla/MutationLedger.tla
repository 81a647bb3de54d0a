---------------------------- MODULE MutationLedger ----------------------------
(***************************************************************************)
(* What receipt execution promises for each idempotency key: the mutation  *)
(* takes effect at most once; its recorded outcome only moves forward; and *)
(* an outcome that says "nothing happened" (DENIED, FAILED_SAFE) is final, *)
(* recorded only while nothing has happened, and nothing happens after it. *)
(***************************************************************************)
CONSTANTS Key, Caller

VARIABLES outcome,  \* the recorded outcome of each key
          effect    \* the calls that changed the service for each key

Effectless == {"DENIED", "FAILED_SAFE"}

\* The outcomes that may be recorded after o (_RECEIPT_TRANSITIONS).
Forward(o) ==
    IF o = "CLAIMED" THEN {"DENIED", "APPLIED", "FAILED_SAFE", "AMBIGUOUS"}
    ELSE IF o \in {"APPLIED", "AMBIGUOUS"} THEN {"VERIFIED", "AMBIGUOUS"}
    ELSE {}

Init == /\ outcome = [k \in Key |-> "ABSENT"]
        /\ effect = [k \in Key |-> {}]

\* The key is claimed, once.
Claim(k) == /\ outcome[k] = "ABSENT"
            /\ outcome' = [outcome EXCEPT ![k] = "CLAIMED"]
            /\ UNCHANGED effect

\* The service changes on behalf of a claimed key that is not concluded
\* as effectless.  A key may be AMBIGUOUS or even VERIFIED by then: a call is
\* processed late, when a readback has already seen the same target state.
TakeEffect(k, c) == /\ outcome[k] \notin {"ABSENT"} \cup Effectless
                    /\ effect[k] = {}
                    /\ effect' = [effect EXCEPT ![k] = {c}]
                    /\ UNCHANGED outcome

Record(k, o) == /\ o \in Forward(outcome[k])
                /\ o \in Effectless => effect[k] = {}
                /\ outcome' = [outcome EXCEPT ![k] = o]
                /\ UNCHANGED effect

Next == \E k \in Key : \/ Claim(k)
                       \/ \E c \in Caller : TakeEffect(k, c)
                       \/ \E o \in Forward(outcome[k]) : Record(k, o)

vars == <<outcome, effect>>

Spec == Init /\ [][Next]_vars
=============================================================================
