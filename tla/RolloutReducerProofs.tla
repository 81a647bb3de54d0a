------------------------ MODULE RolloutReducerProofs ------------------------
(***************************************************************************)
(* Proofs about the rollout reducer, for any denial reasons that callers   *)
(* supply: what its transition table may contain (RowsAreLawful), what one *)
(* call returns (ReduceCases), and over every history of calls that a      *)
(* mutation is commanded once and an ambiguity resolved as what it was.    *)
(***************************************************************************)
EXTENDS RolloutReducer, SequenceTheorems, TLAPS

(* ----------------------- the inductive invariant ----------------------- *)

\* The places of a rollout: the states but AMBIGUOUS, which remembers one.
Open == {"ROOT_PENDING", "ROOT_ACTIVE", "CANARY_PENDING", "CANARY_OBSERVING",
         "PROMOTION_PENDING", "PROMOTED", "RECOVERY_PENDING", "RECOVERED"}
Closed == {"REVOKED", "DENIED", "FAILED_SAFE"}

\* The commands that led to a place; a closed rollout may have had any of them.
Behind(place) ==
    IF place \in {"ROOT_PENDING", "ROOT_ACTIVE"} THEN {<<>>}
    ELSE IF place \in {"CANARY_PENDING", "CANARY_OBSERVING"} THEN {Started}
    ELSE IF place \in {"PROMOTION_PENDING", "PROMOTED"} THEN {Promoting}
    ELSE IF place \in {"RECOVERY_PENDING", "RECOVERED"} THEN {Recovering}
    ELSE {<<>>, Started, Promoting, Recovering}

Place(o) == IF o.state = "AMBIGUOUS" THEN o.origin ELSE o.state

\* An ambiguity remembers the place it arose in, and the place tells which
\* mutations were commanded.
IInv ==
    /\ out.state \in Open \cup Closed \cup {"AMBIGUOUS"}
    /\ IF out.state = "AMBIGUOUS" THEN out.origin \in Open \cup Closed ELSE out.origin = None
    /\ mutations \in Behind(Place(out))

(* ------------------------------- the table ----------------------------- *)

\* A row commands a mutation where it enters the place of that mutation; any
\* other row stays with the mutations that its place stands for, unless it ends
\* the rollout or calls it ambiguous.
LawfulMutation(row) ==
    <<row.from, row.to, row.command>> \in
        {<<"ROOT_ACTIVE", "CANARY_PENDING", "APPLY_CANARY_V1">>,
         <<"CANARY_OBSERVING", "PROMOTION_PENDING", "PROMOTE_CANDIDATE_V1">>,
         <<"CANARY_OBSERVING", "RECOVERY_PENDING", "RECOVER_STABLE_V1">>}
LawfulMove(row) ==
    /\ row.command \notin MutationCommand /\ row.from \in Open
    /\ \/ row.from = row.to
       \/ row.to \in Closed \cup {"AMBIGUOUS"}
       \/ <<row.from, row.to>> \in
            {<<"ROOT_PENDING", "ROOT_ACTIVE">>, <<"CANARY_PENDING", "CANARY_OBSERVING">>,
             <<"PROMOTION_PENDING", "PROMOTED">>, <<"RECOVERY_PENDING", "RECOVERED">>}

\* A row that asks for control facts or a provider outcome may deny or fail; none
\* that starts from an ambiguity does.
CanEnd(row) == row.needs \cap Control # {} \/ row.provider # None
LawfulResolution(row) ==
    /\ row.command \notin MutationCommand /\ row.from = "AMBIGUOUS" /\ ~CanEnd(row)
    /\ \/ row.to = "AMBIGUOUS"
       \/ <<row.origin, row.to>> \in
            {<<"CANARY_PENDING", "CANARY_OBSERVING">>, <<"PROMOTION_PENDING", "PROMOTED">>,
             <<"RECOVERY_PENDING", "RECOVERED">>}
Lawful(row) == LawfulMutation(row) \/ LawfulMove(row) \/ LawfulResolution(row)

\* Every row of the transition table is of one of the three kinds.
LEMMA RowsAreLawful == \A row \in Transitions : Lawful(row)
<1> USE DEF Lawful, Row, Open, Closed, MutationCommand, None
<1>1. \A row \in Journey : LawfulMutation(row) \/ LawfulMove(row)
  BY DEF Journey, LawfulMutation, LawfulMove
<1>2. \A row \in Applied : LawfulMove(row)
  BY DEF Applied, LawfulMove
<1>3. \A row \in Completed : LawfulMove(row)
  BY DEF Completed, LawfulMove
<1>4. \A row \in Resolved : LawfulResolution(row)
  BY DEF Resolved, LawfulResolution, CanEnd, Observed, Control
<1>5. \A row \in Revoking : LawfulMove(row)
  <2>1. ASSUME NEW s \in RevocableStates
        PROVE  LawfulMove(Row(s, "REVOCATION_REQUESTED", s, "REVOKE_EPOCH_V1", Control))
    BY <2>1 DEF LawfulMove, RevocableStates, MutationStates
  <2>2. ASSUME NEW s \in RevocableStates
        PROVE  LawfulMove([Row(s, "EPOCH_REVOKED", "REVOKED", None, {})
                              EXCEPT !.provider = "APPLIED", !.terminal = TRUE])
    BY <2>2 DEF LawfulMove, RevocableStates, MutationStates
  <2>3. QED
    BY <2>1, <2>2 DEF Revoking
<1>6. \A row \in Failing : LawfulMove(row)
  BY DEF Failing, LawfulMove, CommandStates, MutationStates
<1>7. QED
  BY <1>1, <1>2, <1>3, <1>4, <1>5, <1>6 DEF Transitions

(* ------------------------------ one call ------------------------------- *)

\* The output of a row whose facts suffice.
Follows(req, row, o) ==
    /\ row \in Transitions /\ row.from = req.state /\ OriginMatches(req, row)
    /\ o = Output(row.to, row.command, ReasonFor(req, row.to), TRUE, row.terminal,
                  OriginAfter(req, row.to))

\* The outputs that end a rollout without a command.
Ends(o) == \E s \in {"DENIED", "FAILED_SAFE"} : \E r : o = Output(s, None, r, TRUE, TRUE, None)

\* A failed check of the facts denies, fails safely or is ambiguous.
LEMMA FailedFacts ==
    ASSUME NEW req, NEW row, NEW o \in CheckRequiredFacts(req, row)
    PROVE  (Ends(o) /\ CanEnd(row)) \/ o = Ambiguity(req)
<1>1. CASE \E i \in 1 .. 3 : Missing(req, row, ControlOrder[i])
  <2>1. Ends(o)
    BY <1>1 DEF CheckRequiredFacts, Deny, Ends
  <2>2. PICK i \in 1 .. 3 : Missing(req, row, ControlOrder[i])
    BY <1>1
  <2>3. ControlOrder[i] \in Control /\ ControlOrder[i] \in row.needs
    BY <2>2 DEF ControlOrder, Control, Missing
  <2>4. QED
    BY <2>1, <2>3 DEF CanEnd
<1>2. CASE ~ \E i \in 1 .. 3 : Missing(req, row, ControlOrder[i])
  BY <1>2 DEF CheckRequiredFacts, Ends, CanEnd
<1>3. QED
  BY <1>1, <1>2

\* What a call of reduce_rollout returns.
LEMMA ReduceCases ==
    ASSUME NEW req
    PROVE  \/ Reduce(req) = Invalid(req)
           \/ /\ Ends(Reduce(req))
              /\ \E row \in Transitions : row.from = req.state /\ CanEnd(row)
           \/ Reduce(req) = Ambiguity(req)
           \/ \E row : Follows(req, row, Reduce(req))
<1> DEFINE rows == {row \in Transitions : row.from = req.state /\ row.on = req.event}
           row == CHOOSE x \in rows : TRUE
           failed == CheckRequiredFacts(req, row)
<1>1. CASE rows = {}
  BY <1>1 DEF Reduce
<1>2. CASE rows # {} /\ ~ OriginMatches(req, row)
  BY <1>2 DEF Reduce
<1>3. CASE rows # {} /\ OriginMatches(req, row) /\ failed # {}
  <2>1. Reduce(req) = CHOOSE x \in failed : TRUE
    BY <1>3 DEF Reduce
  <2>2. Reduce(req) \in failed
    BY <1>3, <2>1
  <2>3. row \in Transitions /\ row.from = req.state
    BY <1>3
  <2>4. QED
    BY <2>2, <2>3, FailedFacts
<1>4. CASE rows # {} /\ OriginMatches(req, row) /\ failed = {}
  <2>1. row \in rows
    BY <1>4
  <2>2. Reduce(req) = Output(row.to, row.command, ReasonFor(req, row.to), TRUE, row.terminal,
                             OriginAfter(req, row.to))
    BY <1>4 DEF Reduce
  <2>3. Follows(req, row, Reduce(req))
    BY <1>4, <2>1, <2>2 DEF Follows
  <2>4. QED
    BY <2>3
<1>5. QED
  BY <1>1, <1>2, <1>3, <1>4

(* ---------------------------- every history ---------------------------- *)

\* Append writes the sequences that the invariant names.
LEMMA AppendToShort ==
    ASSUME NEW a, NEW b
    PROVE  Append(<<>>, a) = <<a>> /\ Append(<<a>>, b) = <<a, b>>
<1>1. <<>> \in Seq({a, b}) /\ <<a>> \in Seq({a, b}) /\ <<a, b>> \in Seq({a, b})
  OBVIOUS
<1>2. Append(<<>>, a) = <<a>>
  <2>1. /\ Append(<<>>, a) \in Seq({a, b}) /\ Len(Append(<<>>, a)) = 1
        /\ Append(<<>>, a)[1] = a
    BY <1>1, AppendProperties
  <2>2. QED
    BY <1>1, <2>1, SeqEqual
<1>3. Append(<<a>>, b) = <<a, b>>
  <2> DEFINE s == Append(<<a>>, b)
             t == <<a, b>>
  <2>1. s \in Seq({a, b}) /\ Len(s) = 2 /\ s[1] = a /\ s[2] = b
    BY <1>1, AppendProperties
  <2>2. t \in Seq({a, b}) /\ Len(t) = 2 /\ t[1] = a /\ t[2] = b
    BY <1>1
  <2> HIDE DEF s, t
  <2>3. Len(s) = Len(t) /\ \A i \in 1 .. Len(s) : s[i] = t[i]
    BY <2>1, <2>2
  <2>4. s = t
    BY <2>1, <2>2, <2>3, SeqEqual
  <2>5. QED
    BY <2>4 DEF s, t
<1>4. QED
  BY <1>2, <1>3

\* What is commanded on the way to a place.
LEMMA BehindFacts ==
    /\ \A place : Behind(place) \subseteq {<<>>, Started, Promoting, Recovering}
    /\ \A place \in Closed : Behind(place) = {<<>>, Started, Promoting, Recovering}
    /\ \A m \in Behind("ROOT_ACTIVE") : Append(m, "APPLY_CANARY_V1") \in Behind("CANARY_PENDING")
    /\ \A m \in Behind("CANARY_OBSERVING") :
         /\ Append(m, "PROMOTE_CANDIDATE_V1") \in Behind("PROMOTION_PENDING")
         /\ Append(m, "RECOVER_STABLE_V1") \in Behind("RECOVERY_PENDING")
    /\ Behind("ROOT_PENDING") = Behind("ROOT_ACTIVE")
    /\ Behind("CANARY_PENDING") = Behind("CANARY_OBSERVING")
    /\ Behind("PROMOTION_PENDING") = Behind("PROMOTED")
    /\ Behind("RECOVERY_PENDING") = Behind("RECOVERED")
<1>1. /\ Append(<<>>, "APPLY_CANARY_V1") = Started
      /\ Append(Started, "PROMOTE_CANDIDATE_V1") = Promoting
      /\ Append(Started, "RECOVER_STABLE_V1") = Recovering
  BY AppendToShort DEF Started, Promoting, Recovering
<1>2. \A place : Behind(place) \subseteq {<<>>, Started, Promoting, Recovering}
  BY DEF Behind
<1>3. \A place \in Closed : Behind(place) = {<<>>, Started, Promoting, Recovering}
  BY DEF Behind, Closed
<1>4. /\ Behind("ROOT_PENDING") = {<<>>} /\ Behind("ROOT_ACTIVE") = {<<>>}
      /\ Behind("CANARY_PENDING") = {Started} /\ Behind("CANARY_OBSERVING") = {Started}
  BY DEF Behind
<1>5. Behind("PROMOTION_PENDING") = {Promoting} /\ Behind("PROMOTED") = {Promoting}
  BY DEF Behind
<1>6. Behind("RECOVERY_PENDING") = {Recovering} /\ Behind("RECOVERED") = {Recovering}
  BY DEF Behind
<1>7. QED
  BY <1>1, <1>2, <1>3, <1>4, <1>5, <1>6

\* A call keeps the invariant, and it leaves an ambiguity only as its origin.
LEMMA StepLemma ==
    ASSUME IInv, NEW event, NEW facts, NEW denial, Step(event, facts, denial)
    PROVE  /\ IInv'
           /\ (out.state = "AMBIGUOUS" /\ out'.state # "AMBIGUOUS") =>
                 <<out.origin, out'.state>> \in {<<"CANARY_PENDING", "CANARY_OBSERVING">>,
                        <<"PROMOTION_PENDING", "PROMOTED">>, <<"RECOVERY_PENDING", "RECOVERED">>}
<1> DEFINE req == [state |-> out.state, event |-> event, facts |-> facts, denial |-> denial,
                   origin |-> out.origin]
<1>1. out' = Reduce(req)
  BY DEF Step
<1>2. mutations' = IF out'.command \in MutationCommand
                   THEN Append(mutations, out'.command) ELSE mutations
  BY DEF Step
<1>3. req.state = out.state /\ req.origin = out.origin
  OBVIOUS
<1> HIDE DEF req
<1>4. CASE Reduce(req) = Invalid(req)
  <2>1. out'.state = out.state /\ out'.origin = out.origin /\ out'.command = None
    BY <1>1, <1>3, <1>4 DEF Invalid, Output
  <2>2. QED
    BY <1>2, <2>1 DEF IInv, Place, MutationCommand, None
<1>5. CASE /\ Ends(Reduce(req))
           /\ \E row \in Transitions : row.from = req.state /\ CanEnd(row)
  <2>1. out'.state \in {"DENIED", "FAILED_SAFE"} /\ out'.origin = None /\ out'.command = None
    BY <1>1, <1>5 DEF Ends, Output
  <2>2. mutations' = mutations
    BY <1>2, <2>1 DEF MutationCommand, None
  <2>3. out.state # "AMBIGUOUS"
    BY <1>3, <1>5, RowsAreLawful DEF Lawful, LawfulMutation, LawfulMove, LawfulResolution, Open
  <2>4. QED
    BY <2>1, <2>2, <2>3, BehindFacts DEF IInv, Place, Closed
<1>6. CASE Reduce(req) = Ambiguity(req)
  <2>1. /\ out'.state = "AMBIGUOUS" /\ out'.command = None
        /\ out'.origin = IF out.origin = None THEN out.state ELSE out.origin
    BY <1>1, <1>3, <1>6 DEF Ambiguity, Output, Or
  <2>2. mutations' = mutations
    BY <1>2, <2>1 DEF MutationCommand, None
  <2>3. QED
    BY <2>1, <2>2 DEF IInv, Place, None, Open, Closed
<1>7. CASE \E row : Follows(req, row, Reduce(req))
  <2>1. PICK row : Follows(req, row, Reduce(req))
    BY <1>7
  <2>2. Lawful(row) /\ row.from = out.state
    BY <1>3, <2>1, RowsAreLawful DEF Follows
  <2>3. /\ out'.state = row.to /\ out'.command = row.command
        /\ out'.origin = OriginAfter(req, row.to)
    BY <1>1, <2>1 DEF Follows, Output
  <2>4. row.origin \in {None, out.origin}
    BY <1>3, <2>1 DEF Follows, OriginMatches
  <2>5. CASE LawfulMutation(row)
    <3>1. out'.origin = None
      BY <1>3, <2>2, <2>3, <2>5 DEF OriginAfter, LawfulMutation, IInv
    <3>2. mutations' = Append(mutations, row.command)
      BY <1>2, <2>3, <2>5 DEF LawfulMutation, MutationCommand
    <3>3. QED
      BY <2>2, <2>3, <2>5, <3>1, <3>2, BehindFacts DEF LawfulMutation, IInv, Place, Open
  <2>6. CASE LawfulMove(row)
    <3> row.from \in Open /\ row.from # "AMBIGUOUS"
      BY <2>6 DEF LawfulMove, Open
    <3>1. mutations' = mutations
      BY <1>2, <2>3, <2>6 DEF LawfulMove
    <3>2. out'.origin = IF row.to = "AMBIGUOUS" THEN out.state ELSE None
      BY <1>3, <2>2, <2>3, <2>6 DEF OriginAfter, IInv
    <3>3. mutations \in Behind(row.from)
      BY <2>2 DEF IInv, Place
    <3>4. CASE row.from = row.to
      BY <2>2, <2>3, <2>6, <3>1, <3>2, <3>3, <3>4 DEF IInv, Place
    <3>5. CASE row.to = "AMBIGUOUS"
      BY <2>2, <2>3, <2>6, <3>1, <3>2, <3>3, <3>5 DEF IInv, Place
    <3>6. CASE row.to \in Closed
      BY <2>2, <2>3, <2>6, <3>1, <3>2, <3>3, <3>6, BehindFacts DEF IInv, Place, Closed
    <3>7. CASE <<row.from, row.to>> \in
                 {<<"ROOT_PENDING", "ROOT_ACTIVE">>, <<"CANARY_PENDING", "CANARY_OBSERVING">>,
                  <<"PROMOTION_PENDING", "PROMOTED">>, <<"RECOVERY_PENDING", "RECOVERED">>}
      <4>1. row.to \in Open /\ row.to # "AMBIGUOUS" /\ Behind(row.from) = Behind(row.to)
        BY <3>7, BehindFacts DEF Open
      <4>2. QED
        BY <2>2, <2>3, <2>6, <3>1, <3>2, <3>3, <4>1 DEF IInv, Place
    <3>8. QED
      BY <2>6, <3>4, <3>5, <3>6, <3>7 DEF LawfulMove
  <2>7. CASE LawfulResolution(row) /\ row.to = "AMBIGUOUS"
    <3>1. mutations' = mutations
      BY <1>2, <2>3, <2>7 DEF LawfulResolution
    <3>2. out'.origin = out.origin
      BY <1>3, <2>2, <2>3, <2>7 DEF OriginAfter, LawfulResolution
    <3>3. QED
      BY <2>2, <2>3, <2>7, <3>1, <3>2 DEF IInv, Place, LawfulResolution
  <2>8. CASE LawfulResolution(row) /\ row.to # "AMBIGUOUS"
    <3>1. mutations' = mutations
      BY <1>2, <2>3, <2>8 DEF LawfulResolution
    <3>2. row.origin = out.origin /\ out'.origin = None
      BY <1>3, <2>2, <2>3, <2>4, <2>8 DEF OriginAfter, LawfulResolution, None
    <3>3. QED
      BY <2>2, <2>3, <2>8, <3>1, <3>2, BehindFacts
      DEF LawfulResolution, IInv, Place, Open
  <2>9. QED
    BY <2>2, <2>5, <2>6, <2>7, <2>8 DEF Lawful
<1>8. QED
  BY <1>4, <1>5, <1>6, <1>7, ReduceCases

LEMMA Inductive == Spec => []IInv
<1>1. Init => IInv
  BY DEF Init, IInv, Place, Behind, Output, Open, None
<1>2. IInv /\ [Next]_vars => IInv'
  <2>1. IInv /\ Next => IInv'
    BY StepLemma DEF Next
  <2>2. IInv /\ UNCHANGED vars => IInv'
    BY DEF IInv, Place, vars
  <2>3. QED
    BY <2>1, <2>2
<1>3. QED
  BY <1>1, <1>2, PTL DEF Spec

\* Whatever events a rollout sees, in whatever order, however often and with
\* whatever facts: reduce_rollout commands the canary once, then a promotion or
\* a recovery, once, and nothing else.
THEOREM CommandedOnce == Spec => []EachMutationCommandedOnce
<1>1. IInv => EachMutationCommandedOnce
  BY BehindFacts DEF IInv, EachMutationCommandedOnce
<1>2. QED
  BY <1>1, Inductive, PTL

\* An ambiguity that reduce_rollout reported is left only towards the outcome
\* of the action that was ambiguous, and neither denied nor failed afterwards.
THEOREM ResolvedAsItsOrigin == Spec => AmbiguityResolvesItsOrigin
<1>1. IInv /\ [Next]_vars =>
        [(out.state = "AMBIGUOUS" /\ out'.state # "AMBIGUOUS") =>
           <<out.origin, out'.state>> \in {<<"CANARY_PENDING", "CANARY_OBSERVING">>,
                                  <<"PROMOTION_PENDING", "PROMOTED">>,
                                  <<"RECOVERY_PENDING", "RECOVERED">>}]_vars
  BY StepLemma DEF Next
<1>2. QED
  BY <1>1, Inductive, PTL DEF Spec, AmbiguityResolvesItsOrigin

=============================================================================
