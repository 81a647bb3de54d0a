---------------------------- MODULE RolloutReducer ----------------------------
(***************************************************************************)
(* reduce_rollout, the pure reducer of a rollout, driven by every history  *)
(* of events and facts: state and ambiguity_origin of one output are the   *)
(* input of the next call, as its callers thread them.                     *)
(***************************************************************************)
EXTENDS Integers, Sequences

CONSTANTS Supplied    \* the denial reasons a caller may supply

None == "NONE"

RolloutEvent == {"STABLE_CAPTURE_REQUESTED", "STABLE_CAPTURED", "ROOT_CREATED",
                 "CANARY_REQUESTED", "CANARY_APPLIED", "CANARY_VERIFIED", "HEALTHY",
                 "UNHEALTHY", "PROMOTION_APPLIED", "PROMOTION_VERIFIED",
                 "RECOVERY_APPLIED", "RECOVERY_VERIFIED", "REVOCATION_REQUESTED",
                 "EPOCH_REVOKED", "COMPLETION_CONFIRMED", "AUTHORITY_DENIED",
                 "OPERATION_FAILED_SAFE", "PROVIDER_OUTCOME_AMBIGUOUS",
                 "AMBIGUITY_RESOLVED_CANARY", "AMBIGUITY_RESOLVED_PROMOTION",
                 "AMBIGUITY_RESOLVED_RECOVERY", "AMBIGUITY_UNRESOLVED"}

ASSUME SuppliedAssumption == Supplied \subseteq STRING /\ None \notin Supplied

FactStatus == {"CONFIRMED", "REJECTED", "UNKNOWN", "NOT_APPLICABLE"}
ProviderOutcome == {"APPLIED", "FAILED_SAFE", "AMBIGUOUS", "NOT_APPLICABLE"}
Fact == {"authorization", "authority", "time_window", "observation"}
ReducerFacts == [status : [Fact -> FactStatus], provider : ProviderOutcome]

-----------------------------------------------------------------------------
\* The transition table, a set of rows with at most one for a state and event.

Row(from, on, to, command, needs) ==
    [from |-> from, on |-> on, to |-> to, command |-> command, needs |-> needs,
     provider |-> None, origin |-> None, terminal |-> FALSE]

Control == {"authorization", "authority", "time_window"}
Observed == {"observation"}

Journey == {
    Row("ROOT_PENDING", "STABLE_CAPTURE_REQUESTED", "ROOT_PENDING", "CAPTURE_STABLE_V1",
        {"authorization", "time_window"}),
    Row("ROOT_PENDING", "STABLE_CAPTURED", "ROOT_PENDING", "CREATE_ROLLOUT_ROOT_V1",
        {"authorization", "time_window", "observation"}),
    [Row("ROOT_PENDING", "ROOT_CREATED", "ROOT_ACTIVE", None, {})
        EXCEPT !.provider = "APPLIED"],
    Row("ROOT_ACTIVE", "CANARY_REQUESTED", "CANARY_PENDING", "APPLY_CANARY_V1", Control),
    Row("CANARY_PENDING", "CANARY_VERIFIED", "CANARY_OBSERVING", "EVALUATE_HEALTH_V1",
        Observed),
    Row("CANARY_OBSERVING", "HEALTHY", "PROMOTION_PENDING", "PROMOTE_CANDIDATE_V1",
        Control \cup Observed),
    Row("CANARY_OBSERVING", "UNHEALTHY", "RECOVERY_PENDING", "RECOVER_STABLE_V1",
        Control \cup Observed),
    Row("PROMOTION_PENDING", "PROMOTION_VERIFIED", "PROMOTED", None, Observed),
    Row("RECOVERY_PENDING", "RECOVERY_VERIFIED", "RECOVERED", None, Observed)}

Applied == {[Row(x[1], x[2], x[1], "VERIFY_TARGET_V1", {}) EXCEPT !.provider = "APPLIED"] :
              x \in {<<"CANARY_PENDING", "CANARY_APPLIED">>,
                     <<"PROMOTION_PENDING", "PROMOTION_APPLIED">>,
                     <<"RECOVERY_PENDING", "RECOVERY_APPLIED">>}}

Completed == {[Row(s, "COMPLETION_CONFIRMED", s, None, Observed) EXCEPT !.terminal = TRUE] :
                s \in {"PROMOTED", "RECOVERED"}}

Resolved == {
    [Row("AMBIGUOUS", "AMBIGUITY_RESOLVED_CANARY", "CANARY_OBSERVING",
         "EVALUATE_HEALTH_V1", Observed) EXCEPT !.origin = "CANARY_PENDING"],
    [Row("AMBIGUOUS", "AMBIGUITY_RESOLVED_PROMOTION", "PROMOTED", None, Observed)
        EXCEPT !.origin = "PROMOTION_PENDING"],
    [Row("AMBIGUOUS", "AMBIGUITY_RESOLVED_RECOVERY", "RECOVERED", None, Observed)
        EXCEPT !.origin = "RECOVERY_PENDING"],
    [Row("AMBIGUOUS", "AMBIGUITY_UNRESOLVED", "AMBIGUOUS", None, {})
        EXCEPT !.terminal = TRUE]}

MutationStates == {"CANARY_PENDING", "PROMOTION_PENDING", "RECOVERY_PENDING"}
RevocableStates == MutationStates \cup {"ROOT_ACTIVE", "CANARY_OBSERVING"}
CommandStates == MutationStates \cup {"ROOT_PENDING"}

Revoking ==
    {Row(s, "REVOCATION_REQUESTED", s, "REVOKE_EPOCH_V1", Control) : s \in RevocableStates}
    \cup
    {[Row(s, "EPOCH_REVOKED", "REVOKED", None, {})
        EXCEPT !.provider = "APPLIED", !.terminal = TRUE] : s \in RevocableStates}

Failing ==
    {[Row(s, "AUTHORITY_DENIED", "DENIED", None, {}) EXCEPT !.terminal = TRUE] :
        s \in CommandStates}
    \cup
    {[Row(s, "OPERATION_FAILED_SAFE", "FAILED_SAFE", None, {})
        EXCEPT !.provider = "FAILED_SAFE", !.terminal = TRUE] : s \in CommandStates}
    \cup
    {[Row(s, "PROVIDER_OUTCOME_AMBIGUOUS", "AMBIGUOUS", None, {})
        EXCEPT !.provider = "AMBIGUOUS"] : s \in MutationStates}

Transitions ==
    Journey \cup Applied \cup Completed \cup Resolved \cup Revoking \cup Failing

-----------------------------------------------------------------------------
\* reduce_rollout on a request [state, event, facts, denial, origin].

Or(reason, default) == IF reason = None THEN default ELSE reason

Output(to, command, reason, valid, terminal, origin) ==
    [state |-> to, command |-> command, reason |-> reason, valid |-> valid,
     terminal |-> terminal, origin |-> origin]

Deny(req, reason) == Output("DENIED", None, Or(req.denial, reason), TRUE, TRUE, None)

\* Mutant: every ambiguity is taken for one of the canary.
AmbiguityOfCanary(req) ==
    Output("AMBIGUOUS", None, "PROVIDER_OUTCOME_AMBIGUOUS", TRUE, FALSE,
           "CANARY_PENDING")

Ambiguity(req) ==
    Output("AMBIGUOUS", None, "PROVIDER_OUTCOME_AMBIGUOUS", TRUE, FALSE,
           Or(req.origin, req.state))

Invalid(req) ==
    Output(req.state, None, "TRANSITION_INVALID", FALSE,
           req.state \in {"REVOKED", "DENIED", "FAILED_SAFE"}, req.origin)

\* Why a fact that is needed and not confirmed denies the request.
Unconfirmed(fact, status) ==
    CASE fact = "authorization" -> IF status = "REJECTED" THEN "CALLER_UNAUTHORIZED"
                                   ELSE "CALLER_UNAUTHENTICATED"
      [] fact = "authority" -> IF status = "REJECTED" THEN "EPOCH_MISMATCH"
                               ELSE "AUTHORITY_UNAVAILABLE"
      [] OTHER -> IF status = "REJECTED" THEN "CAPABILITY_EXPIRED"
                  ELSE "CONTRACT_INVALID"

\* The facts are checked in this order.
ControlOrder == <<"authorization", "authority", "time_window">>

Missing(req, row, fact) == fact \in row.needs /\ req.facts.status[fact] # "CONFIRMED"

\* The outputs of _check_required_facts: none when the facts suffice.
CheckRequiredFacts(req, row) ==
    LET missing == {i \in 1 .. 3 : Missing(req, row, ControlOrder[i])} IN
    IF missing # {}
    THEN LET f == ControlOrder[CHOOSE i \in missing : \A j \in missing : i <= j]
         IN  {Deny(req, Unconfirmed(f, req.facts.status[f]))}
    ELSE IF Missing(req, row, "observation") THEN {Ambiguity(req)}
    ELSE IF row.provider = None THEN {}
    ELSE IF req.facts.provider = "FAILED_SAFE"
         THEN {Output("FAILED_SAFE", None, Or(req.denial, "PROVIDER_PRECONDITION_FAILED"),
                      TRUE, TRUE, None)}
    ELSE IF req.facts.provider # row.provider THEN {Ambiguity(req)}
    ELSE {}

ReasonFor(req, to) ==
    CASE to = "DENIED" -> Or(req.denial, "AUTHORITY_UNAVAILABLE")
      [] to = "FAILED_SAFE" -> Or(req.denial, "PROVIDER_PRECONDITION_FAILED")
      [] to = "AMBIGUOUS" -> "PROVIDER_OUTCOME_AMBIGUOUS"
      [] OTHER -> None

OriginAfter(req, to) ==
    IF to = "AMBIGUOUS" /\ req.state # "AMBIGUOUS" THEN req.state
    ELSE IF to # "AMBIGUOUS" /\ req.state = "AMBIGUOUS" THEN None
    ELSE req.origin

\* Mutant: any ambiguity may be resolved as any action.
AnyOrigin(req, row) == TRUE

\* A row that resolves an ambiguity asks for the state it arose in.
OriginMatches(req, row) == row.origin \in {None, req.origin}

Reduce(req) ==
    LET rows == {row \in Transitions : row.from = req.state /\ row.on = req.event} IN
    IF rows = {} THEN Invalid(req)
    ELSE LET row == CHOOSE x \in rows : TRUE IN
         IF ~ OriginMatches(req, row) THEN Invalid(req)
         ELSE LET failed == CheckRequiredFacts(req, row) IN
              IF failed # {} THEN CHOOSE x \in failed : TRUE
              ELSE Output(row.to, row.command, ReasonFor(req, row.to), TRUE,
                          row.terminal, OriginAfter(req, row.to))

-----------------------------------------------------------------------------
VARIABLES
    out,        \* the last output
    mutations   \* the mutation commands emitted so far, in order

vars == <<out, mutations>>

MutationCommand == {"APPLY_CANARY_V1", "PROMOTE_CANDIDATE_V1", "RECOVER_STABLE_V1"}

\* A new rollout, before its first event.
Init == /\ out = Output("ROOT_PENDING", None, None, TRUE, FALSE, None)
        /\ mutations = <<>>

Step(event, facts, denial) ==
    /\ out' = Reduce([state |-> out.state, event |-> event, facts |-> facts,
                      denial |-> denial, origin |-> out.origin])
    /\ mutations' = IF out'.command \in MutationCommand
                    THEN Append(mutations, out'.command) ELSE mutations

Next == \E event \in RolloutEvent, facts \in ReducerFacts,
           denial \in Supplied \cup {None} : Step(event, facts, denial)

Spec == Init /\ [][Next]_vars

-----------------------------------------------------------------------------
Started == <<"APPLY_CANARY_V1">>
Promoting == <<"APPLY_CANARY_V1", "PROMOTE_CANDIDATE_V1">>
Recovering == <<"APPLY_CANARY_V1", "RECOVER_STABLE_V1">>

\* No history of events, however ordered, repeated or short of facts, makes the
\* reducer command a mutation twice, or both promote and recover, or either of
\* them before the canary.
EachMutationCommandedOnce == mutations \in {<<>>, Started, Promoting, Recovering}

\* An ambiguity is left only towards the outcome of the state it arose in.
AmbiguityResolvesItsOrigin ==
    [][(out.state = "AMBIGUOUS" /\ out'.state # "AMBIGUOUS") =>
         <<out.origin, out'.state>> \in {<<"CANARY_PENDING", "CANARY_OBSERVING">>,
                                <<"PROMOTION_PENDING", "PROMOTED">>,
                                <<"RECOVERY_PENDING", "RECOVERED">>}]_vars

=============================================================================
