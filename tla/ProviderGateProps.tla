------------------------- MODULE ProviderGateProps -------------------------
(***************************************************************************)
(* What is asked of the provider gate.                                     *)
(***************************************************************************)
EXTENDS ProviderGate

\* Every variable has its type, and a call names an approval exactly when it
\* has a reservation.
TypeOK ==
    /\ open \in BOOLEAN /\ retained \in BOOLEAN
    /\ approvals \in [Ids -> Approvals]
    /\ filed \in [Calls -> SUBSET Kinds]
    /\ under \in [Calls -> Ids \union {0}]
    /\ \A c \in Calls : "reserved" \in filed[c] <=> under[c] # 0
    /\ call \in [Calls -> CallStates]
    /\ asked \in SUBSET Calls
    /\ closedOn \in SUBSET Calls
    /\ clerk \in [Clerks -> ClerkStates]
    /\ journal \in Records \union {NoRecord}
    /\ faults \in Nat

\* "One run is reserved under the case lock before any licensed request"
\* (docs/ARCHITECTURE.md): a request that left has its disclosure in the ledger
\* and, if licensed, its reservation, whoever was killed meanwhile.
RequestsAreCovered ==
    \A c \in asked :
        /\ "disclosed" \in filed[c]
        /\ c \in Licensed => "reserved" \in filed[c]

\* "A reservation is consumed even if the request fails, preventing retries
\* from silently exceeding the authorized cap" (docs/LICENSED_PROVIDERS.md),
\* nor do collections at the same time or a replayed reservation.
RequestsWithinCap ==
    \A a \in Ids : Cardinality({c \in asked : under[c] = a}) <= MaxRuns

\* Once a revocation is recorded no run is reserved under that approval.
RevokedIsFinal ==
    [][\A c \in Calls : under'[c] # under[c] =>
          approvals[under'[c]].made /\ approvals[under'[c]].revocations = 0]_vars

\* "Case is closed; reopen it with set-status before adding records"
\* (assert_case_mutable): a closed case gains no record and no reservation, not
\* even by a replay; only the ledger's note of a disclosure.
ClosedCaseIsQuiet ==
    [][~open => /\ \A c \in Calls : filed'[c] \subseteq filed[c] \union {"disclosed"}
                /\ \A a \in Ids :
                      /\ approvals'[a].made = approvals[a].made
                      /\ approvals'[a].revocations = approvals[a].revocations]_vars

\* "Approval is unknown or already revoked" (policy.py:136): there is no second
\* revocation of an approval.
OneRevocation == \A a \in Ids : approvals[a].revocations <= 1

\* A run recorded as completed has asked and has stored the answer, whatever was
\* interrupted.  "A failed run is recorded as a failure" (docs/PROVIDERS.md): a
\* call that made its request and has ended has exactly one provider run, unless
\* something was interrupted; a case closed meanwhile takes the run away, never
\* adds one.
OutcomesAreTrue ==
    \A c \in Calls :
        /\ "completed" \in filed[c] =>
              c \in asked /\ {"disclosed", "source", "artifact"} \subseteq filed[c]
        /\ c \in asked /\ faults = 0 /\ call[c] = "done" =>
              \/ Cardinality(filed[c] \intersect Outcomes) = 1
              \/ c \in closedOn /\ filed[c] \intersect Outcomes = {}

=============================================================================
