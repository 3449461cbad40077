------------------------- MODULE ProviderGateProofs -------------------------
(***************************************************************************)
(* Theorems about the provider gate, for any number of calls, clerks, runs,*)
(* approvals, deaths and I/O errors.                                       *)
(***************************************************************************)
EXTENDS ProviderGateProps, SetLemmas

Covered(c) ==
    "disclosed" \in filed[c] /\ (c \in Licensed => "reserved" \in filed[c])

Backed(c) == c \in asked /\ {"disclosed", "source", "artifact"} \subseteq filed[c]

\* How far a call has come, and what it has filed by then.
CallsInv ==
    \A c \in Calls :
        /\ call[c] = "reserved" => "disclosed" \in filed[c]
        /\ call[c] \in {"authorize", "send", "completed"} \union Evidence => Covered(c)
        /\ c \in asked =>
              Covered(c) /\ call[c] \in {"completed", "failed", "done"} \union Evidence
        /\ call[c] \in {"completed"} \union Evidence => c \in asked
        /\ call[c] \in {"artifact", "observation", "completed"} => "source" \in filed[c]
        /\ call[c] \in {"observation", "completed"} => "artifact" \in filed[c]
        /\ "completed" \in filed[c] => Backed(c)

\* What waits in a journal is as good as when it was decided: nothing that it
\* rests on can change before it is replayed.
JournalInv ==
    /\ journal # NoRecord /\ journal.kind # "disclosed" => open
    /\ journal.kind \in Kinds <=> journal.by \in Calls
    /\ journal.kind = "completed" => Backed(journal.by)
    /\ journal.kind = "reserved" =>
          /\ journal.approval \in Ids /\ Revocable(journal.approval)
          /\ Used(journal.approval) < MaxRuns
    /\ faults = 0 => journal = NoRecord

Under(a) == {c \in Calls : under[c] = a}

CapInv == \A a \in Ids : IsFiniteSet(Under(a)) /\ Used(a) <= MaxRuns

\* Without an interruption a call has no outcome before its end.
OutcomesInv ==
    /\ ~open => UnderWay \subseteq closedOn
    /\ faults = 0 =>
          \A c \in Calls :
              /\ call[c] # "done" => filed[c] \intersect Outcomes = {}
              /\ c \in asked /\ call[c] = "done" =>
                    \/ \E k \in Outcomes : filed[c] \intersect Outcomes = {k}
                    \/ c \in closedOn /\ filed[c] \intersect Outcomes = {}

IInv == TypeOK /\ CallsInv /\ JournalInv /\ CapInv /\ OutcomesInv

(***************************************************************************)
(* One record.                                                             *)
(***************************************************************************)
\* A call's record goes to its call alone, a clerk's to the approvals alone.
LEMMA ApplyTyped ==
    ASSUME TypeOK, NEW r \in Records, Apply(r),
           r.by \in Calls <=> r.kind \in Kinds,
           r.kind = "reserved" => r.approval \in Ids
    PROVE  /\ approvals' \in [Ids -> Approvals]
           /\ filed' \in [Calls -> SUBSET Kinds]
           /\ under' \in [Calls -> Ids \union {0}]
           /\ \A c \in Calls : "reserved" \in filed'[c] <=> under'[c] # 0
<1> USE ProviderGateAssumption
<1>1. approvals' \in [Ids -> Approvals]
  <2>1. CASE r.kind = "approved"
    BY <2>1 DEF TypeOK, Apply, Approvals
  <2>2. CASE r.kind = "revoked"
    <3>1. approvals' = [approvals EXCEPT ![r.approval].revocations = @ + 1]
      BY <2>2 DEF Apply
    <3>2. \A a \in Ids : approvals[a] \in Approvals /\ approvals[a].revocations + 1 \in Nat
      BY DEF TypeOK, Approvals
    <3>3. \A a \in Ids : [approvals[a] EXCEPT !.revocations = @ + 1] \in Approvals
      BY <3>2 DEF Approvals
    <3> QED
      BY <3>1, <3>3 DEF TypeOK
  <2>3. CASE r.kind \notin {"approved", "revoked"}
    BY <2>3 DEF TypeOK, Apply
  <2> QED
    BY <2>1, <2>2, <2>3
<1>2. CASE r.by = NoCall
  <2>1. r.kind \notin Kinds
    BY <1>2
  <2>2. filed' = filed /\ under' = under
    BY <1>2, <2>1 DEF Apply, Kinds
  <2> QED
    BY <1>1, <2>2 DEF TypeOK
<1>3. CASE r.by \in Calls /\ r.kind \in Kinds
  <2>1. filed' = [filed EXCEPT ![r.by] = @ \union {r.kind}]
    BY <1>3 DEF Apply
  <2>2. filed' \in [Calls -> SUBSET Kinds]
    BY <1>3, <2>1 DEF TypeOK
  <2>3. under' \in [Calls -> Ids \union {0}]
    BY <1>3 DEF TypeOK, Apply
  <2>4. ASSUME NEW c \in Calls
        PROVE  "reserved" \in filed'[c] <=> under'[c] # 0
    BY <1>3, <2>1 DEF TypeOK, Apply, Ids
  <2> QED
    BY <1>1, <2>2, <2>3, <2>4
<1> QED
    BY <1>1, <1>2, <1>3 DEF Records

\* Only the record's call gains anything, and no more than the record.
LEMMA ApplyFiles ==
    ASSUME TypeOK, NEW r \in Records, Apply(r), r.by \in Calls <=> r.kind \in Kinds,
           NEW c \in Calls
    PROVE  /\ filed'[c] = IF c = r.by THEN filed[c] \union {r.kind} ELSE filed[c]
           /\ under'[c] = IF c = r.by /\ r.kind = "reserved" THEN r.approval ELSE under[c]
BY ProviderGateAssumption DEF TypeOK, Records, Apply, Kinds

\* A reservation with room for it leaves every approval within its cap.
LEMMA ApplyCap ==
    ASSUME TypeOK, CapInv, NEW r \in Records, Apply(r), r.by \in Calls <=> r.kind \in Kinds,
           r.kind = "reserved" => r.approval \in Ids /\ Used(r.approval) < MaxRuns
    PROVE  CapInv'
<1> SUFFICES ASSUME NEW a \in Ids
             PROVE  IsFiniteSet(Under(a)') /\ Cardinality(Under(a)') <= MaxRuns
    BY DEF CapInv, Used, Under
<1>1. IsFiniteSet(Under(a)) /\ Cardinality(Under(a)) <= MaxRuns
    BY DEF CapInv, Used, Under
<1>2. Cardinality(Under(a)) \in Nat /\ MaxRuns \in Nat
    BY <1>1, FS_CardinalityType, ProviderGateAssumption
<1>3. CASE r.kind = "reserved" /\ r.approval = a
  <2>1. Under(a)' \in SUBSET (Under(a) \union {r.by})
    BY <1>3, ApplyFiles DEF Under
  <2>2. /\ IsFiniteSet(Under(a) \union {r.by})
        /\ Cardinality(Under(a) \union {r.by}) <= Cardinality(Under(a)) + 1
    BY <1>1, <1>2, FS_AddElement
  <2>3. /\ IsFiniteSet(Under(a)')
        /\ Cardinality(Under(a)') <= Cardinality(Under(a) \union {r.by})
    <3> DEFINE U == Under(a)'
               V == Under(a) \union {r.by}
    <3> HIDE DEF U, V
    <3>1. U \in SUBSET V /\ IsFiniteSet(V)
      BY <2>1, <2>2 DEF U, V
    <3>2. IsFiniteSet(U) /\ Cardinality(U) <= Cardinality(V)
      BY <3>1, FS_Subset
    <3> QED
      BY <3>2 DEF U, V
  <2>4. Cardinality(Under(a)) < MaxRuns
    BY <1>3 DEF Used, Under
  <2>5. Cardinality(Under(a)') \in Nat /\ Cardinality(Under(a) \union {r.by}) \in Nat
    BY <2>2, <2>3, FS_CardinalityType
  <2> QED
    BY <1>2, <2>2, <2>3, <2>4, <2>5
<1>4. CASE ~(r.kind = "reserved" /\ r.approval = a)
  <2>1. Under(a)' \in SUBSET Under(a)
    BY <1>4, ApplyFiles DEF Under
  <2>2. IsFiniteSet(Under(a)') /\ Cardinality(Under(a)') <= Cardinality(Under(a))
    <3> DEFINE U == Under(a)'
               V == Under(a)
    <3> HIDE DEF U, V
    <3>1. U \in SUBSET V /\ IsFiniteSet(V)
      BY <2>1, <1>1 DEF U, V
    <3>2. IsFiniteSet(U) /\ Cardinality(U) <= Cardinality(V)
      BY <3>1, FS_Subset
    <3> QED
      BY <3>2 DEF U, V
  <2>3. Cardinality(Under(a)') \in Nat
    BY <2>2, FS_CardinalityType
  <2> QED
    BY <1>1, <1>2, <2>2, <2>3
<1> QED
    BY <1>3, <1>4

\* The approval that is chosen is one of the candidates.
LEMMA ChosenIsCandidate ==
    ASSUME Candidates # {}
    PROVE  Max(Candidates) \in Candidates
<1>1. Candidates \in SUBSET (1..MaxApprovals) /\ MaxApprovals \in Nat
    BY ProviderGateAssumption DEF Candidates, Ids
<1> HIDE DEF Candidates
<1> QED
    BY <1>1, MaxOfInterval

(***************************************************************************)
(* The steps.                                                              *)
(***************************************************************************)
LEMMA CallsFrame ==
    ASSUME CallsInv, CapInv, UNCHANGED <<filed, under, call, asked>>
    PROVE  CallsInv' /\ CapInv'
BY DEF CallsInv, CapInv, Covered, Backed, Under, Used

\* What is decided about a case, and what is not yet written, touches no call.
LEMMA QuietSteps ==
    ASSUME IInv,
           \/ \E k \in Clerks : Check(k) \/ GiveUp(k)
           \/ \E a \in Ids : Expire(a)
           \/ SetStatus \/ SetRetention \/ RetentionEnds
    PROVE  IInv'
<1> USE DEF IInv
<1>1. CallsInv' /\ CapInv'
    BY CallsFrame DEF Check, GiveUp, Expire, SetStatus, SetRetention, RetentionEnds
<1>2. TypeOK'
  <2>1. ASSUME NEW k \in Clerks, Check(k) \/ GiveUp(k) PROVE TypeOK'
    <3>1. clerk' \in [Clerks -> ClerkStates]
      <4>1. CASE clerk' = [clerk EXCEPT ![k].pc = "approved"]
        BY <4>1 DEF TypeOK, ClerkStates
      <4>2. ASSUME NEW a \in Ids, clerk' = [clerk EXCEPT ![k] = [pc |-> "revoked", approval |-> a]]
            PROVE  clerk' \in [Clerks -> ClerkStates]
        BY <4>2 DEF TypeOK, ClerkStates, Ids
      <4>3. CASE clerk' = [clerk EXCEPT ![k] = IdleClerk]
        BY <4>3 DEF TypeOK, ClerkStates, IdleClerk
      <4> QED
        BY <2>1, <4>1, <4>2, <4>3 DEF Check, GiveUp
    <3> QED
      BY <2>1, <3>1 DEF TypeOK, Check, GiveUp
  <2>2. ASSUME NEW a \in Ids, Expire(a) PROVE TypeOK'
    BY <2>2 DEF TypeOK, Expire, Approvals
  <2>3. CASE SetStatus
    BY <2>3 DEF TypeOK, SetStatus, UnderWay
  <2>4. CASE SetRetention \/ RetentionEnds
    BY <2>4 DEF TypeOK, SetRetention, RetentionEnds
  <2> QED
    BY <2>1, <2>2, <2>3, <2>4
<1>3. JournalInv'
  <2>1. ASSUME NEW k \in Clerks, Check(k) \/ GiveUp(k) PROVE JournalInv'
    BY <2>1 DEF JournalInv, Check, GiveUp, Backed, Revocable, Used
  <2>2. ASSUME NEW a \in Ids, Expire(a) PROVE JournalInv'
    <3>1. \A b \in Ids : approvals'[b].made = approvals[b].made
                        /\ approvals'[b].revocations = approvals[b].revocations
      BY <2>2 DEF TypeOK, Expire, Approvals
    <3> QED
      BY <2>2, <3>1 DEF JournalInv, Expire, Backed, Revocable, Used
  <2>3. CASE SetStatus
    BY <2>3 DEF JournalInv, SetStatus, Verifies, NoRecord, Kinds, Outcomes, Evidence, Backed, Revocable, Used
  <2>4. CASE SetRetention \/ RetentionEnds
    BY <2>4 DEF JournalInv, SetRetention, RetentionEnds, Backed, Revocable, Used
  <2> QED
    BY <2>1, <2>2, <2>3, <2>4
<1>4. OutcomesInv'
  <2>1. CASE SetStatus
    BY <2>1 DEF OutcomesInv, SetStatus, UnderWay, TypeOK
  <2>2. CASE ~SetStatus
    BY <2>2 DEF OutcomesInv, UnderWay, Check, GiveUp, Expire, SetRetention, RetentionEnds
  <2> QED
    BY <2>1, <2>2
<1> QED
    BY <1>1, <1>2, <1>3, <1>4

\* A record that a clerk files or a recovery replays changes no call's course.
LEMMA DecideStep ==
    ASSUME IInv, NEW k \in Clerks, Decide(k)
    PROVE  IInv'
<1> USE DEF IInv
<1> DEFINE r == ClerkRecord(k)
<1>1. /\ r \in Records /\ r.by = NoCall /\ r.by \notin Calls
      /\ r.kind \in {"approved", "revoked"} /\ r.kind \notin Kinds /\ open
      /\ journal = NoRecord
    BY ProviderGateAssumption DEF Decide, ClerkRecord, TypeOK, ClerkStates, Records, Kinds, Outcomes, Evidence, CanFile, Ids
<1>2. clerk' \in [Clerks -> ClerkStates]
    BY DEF Decide, TypeOK, ClerkStates, IdleClerk
<1>3. CASE Apply(r) /\ UNCHANGED <<open, retained, journal, faults>>
  <2>1. filed' = filed /\ under' = under
    BY <1>1, <1>3 DEF Apply
  <2>2. approvals' \in [Ids -> Approvals]
    BY <1>1, <1>3, ApplyTyped
  <2>3. TypeOK'
    BY <1>2, <1>3, <2>1, <2>2 DEF Decide, TypeOK
  <2>4. CallsInv' /\ CapInv'
    BY <2>1, CallsFrame DEF Decide
  <2>5. JournalInv'
    BY <1>1, <1>3 DEF JournalInv, NoRecord, Kinds, Outcomes, Evidence
  <2>6. OutcomesInv'
    BY <1>3, <2>1 DEF OutcomesInv, UnderWay, Decide
  <2> QED
    BY <2>3, <2>4, <2>5, <2>6
<1>4. CASE Interrupted(r)
  <2>1. TypeOK'
    BY <1>1, <1>2, <1>4 DEF Decide, Interrupted, TypeOK
  <2>2. CallsInv' /\ CapInv'
    BY <1>4, CallsFrame DEF Decide, Interrupted
  <2>3. JournalInv'
    BY <1>1, <1>4 DEF JournalInv, Interrupted, TypeOK, NoRecord, Kinds, Outcomes, Evidence
  <2>4. OutcomesInv'
    BY <1>4 DEF OutcomesInv, UnderWay, Decide, Interrupted, TypeOK
  <2> QED
    BY <2>1, <2>2, <2>3, <2>4
<1> QED
    BY <1>3, <1>4 DEF Decide

\* Recovery files what was decided, and a completed run is backed by then.
LEMMA RecoverStep ==
    ASSUME IInv, RecoverCase
    PROVE  IInv'
<1> USE DEF IInv
<1>1. /\ journal \in Records /\ Apply(journal)
      /\ journal.by \in Calls <=> journal.kind \in Kinds
      /\ journal.kind = "reserved" =>
            journal.approval \in Ids /\ Used(journal.approval) < MaxRuns
    BY DEF RecoverCase, TypeOK, JournalInv
<1>2. TypeOK'
    BY <1>1, ApplyTyped DEF RecoverCase, TypeOK
<1>3. CapInv'
    BY <1>1, ApplyCap
<1>4. \A c \in Calls :
        filed'[c] = IF c = journal.by THEN filed[c] \union {journal.kind} ELSE filed[c]
    BY <1>1, ApplyFiles
<1>5. CallsInv'
    BY <1>4 DEF CallsInv, Covered, Backed, RecoverCase, JournalInv
<1>6. JournalInv'
    BY ProviderGateAssumption DEF JournalInv, RecoverCase, NoRecord, Kinds, Outcomes, Evidence
<1>7. OutcomesInv'
    BY DEF OutcomesInv, RecoverCase, JournalInv, UnderWay
<1> QED
    BY <1>2, <1>3, <1>5, <1>6, <1>7

(***************************************************************************)
(* A call goes on without a record.                                        *)
(***************************************************************************)
\* What such a step leaves to show.
LEMMA CallFrame ==
    ASSUME IInv, NEW c \in Calls, NEW next \in CallStates,
           call' = [call EXCEPT ![c] = next], call[c] # "done", call[c] # next,
           UNCHANGED <<open, retained, approvals, filed, under, closedOn, clerk, journal>>,
           asked' \in {asked, asked \union {c}},
           faults' \in Nat, faults' = 0 => faults = 0
    PROVE  /\ TypeOK' /\ CapInv' /\ JournalInv'
           /\ call'[c] = next
           /\ \A d \in Calls \ {c} : call'[d] = call[d] /\ (d \in asked' <=> d \in asked)
<1> USE DEF IInv
<1>1. TypeOK'
    BY DEF TypeOK
<1>2. CapInv'
    BY DEF CapInv, Under, Used
<1>3. JournalInv'
    BY DEF JournalInv, Revocable, Used, Backed, TypeOK
<1> QED
    BY <1>1, <1>2, <1>3 DEF TypeOK

LEMMA BeginStep ==
    ASSUME IInv, NEW c \in Calls, Begin(c)
    PROVE  IInv'
<1> USE DEF IInv
<1>1. PICK next \in IF open THEN {"disclosed", "failed", "blocked"} ELSE {"done"} :
        call' = [call EXCEPT ![c] = next]
    BY DEF Begin
<1>2. /\ TypeOK' /\ CapInv' /\ JournalInv'
      /\ call'[c] = next
      /\ \A d \in Calls \ {c} : call'[d] = call[d] /\ (d \in asked' <=> d \in asked)
    BY <1>1, CallFrame DEF Begin, CallStates, Kinds, Outcomes, TypeOK
<1>3. call[c] = "idle" /\ c \notin asked /\ asked' = asked /\ UNCHANGED <<open, filed, closedOn, faults>>
    BY DEF Begin, CallsInv, Evidence
<1>4. CallsInv'
    BY <1>1, <1>2, <1>3 DEF CallsInv, Covered, Backed, Evidence
<1>5. OutcomesInv'
  <2>1. ~open => next = "done"
    BY <1>1
  <2> QED
    BY <1>2, <1>3, <2>1 DEF OutcomesInv, UnderWay, TypeOK
<1> QED
    BY <1>2, <1>4, <1>5

LEMMA AuthorizeStep ==
    ASSUME IInv, NEW c \in Calls, Authorize(c)
    PROVE  IInv'
<1> USE DEF IInv
<1>1. PICK next \in {"failed", "send"} : call' = [call EXCEPT ![c] = next]
    BY DEF Authorize
<1>2. /\ TypeOK' /\ CapInv' /\ JournalInv'
      /\ call'[c] = next
      /\ \A d \in Calls \ {c} : call'[d] = call[d] /\ (d \in asked' <=> d \in asked)
    BY <1>1, CallFrame DEF Authorize, CallStates, Kinds, Outcomes, TypeOK
<1>3. c \notin asked /\ asked' = asked /\ UNCHANGED <<open, filed, closedOn, faults>>
    BY DEF Authorize, CallsInv, Evidence
<1>4. CallsInv'
    BY <1>1, <1>2, <1>3 DEF CallsInv, Covered, Backed, Evidence, Authorize
<1>5. OutcomesInv'
    BY <1>1, <1>2, <1>3 DEF OutcomesInv, UnderWay, TypeOK, Authorize
<1> QED
    BY <1>2, <1>4, <1>5

LEMMA SendStep ==
    ASSUME IInv, NEW c \in Calls, Send(c)
    PROVE  IInv'
<1> USE DEF IInv
<1>1. PICK next \in {"source", "failed"} : call' = [call EXCEPT ![c] = next]
    BY DEF Send
<1>2. /\ TypeOK' /\ CapInv' /\ JournalInv'
      /\ call'[c] = next
      /\ \A d \in Calls \ {c} : call'[d] = call[d] /\ (d \in asked' <=> d \in asked)
    BY <1>1, CallFrame DEF Send, CallStates, Kinds, Outcomes, Evidence, TypeOK
<1>3. c \in asked' /\ Covered(c) /\ c \notin asked /\ UNCHANGED <<open, filed, closedOn, faults>>
    BY DEF Send, CallsInv, Evidence
<1>4. CallsInv'
    BY <1>1, <1>2, <1>3 DEF CallsInv, Covered, Backed, Evidence, Send
<1>5. OutcomesInv'
  <2>1. faults = 0 => filed[c] \intersect Outcomes = {}
    BY DEF Send, OutcomesInv
  <2> QED
    BY <1>1, <1>2, <1>3, <2>1 DEF OutcomesInv, UnderWay, TypeOK, Send
<1> QED
    BY <1>2, <1>4, <1>5

LEMMA DiesStep ==
    ASSUME IInv, NEW c \in Calls, Dies(c)
    PROVE  IInv'
<1> USE DEF IInv
<1>1. /\ call' = [call EXCEPT ![c] = "done"] /\ call[c] \notin {"idle", "done"}
      /\ faults' \in Nat /\ faults' # 0
      /\ asked' \in {asked, asked \union {c}}
      /\ UNCHANGED <<open, retained, approvals, filed, under, closedOn, clerk, journal>>
    BY DEF Dies, TypeOK
<1>2. /\ TypeOK' /\ CapInv' /\ JournalInv'
      /\ call'[c] = "done"
      /\ \A d \in Calls \ {c} : call'[d] = call[d] /\ (d \in asked' <=> d \in asked)
    BY <1>1, CallFrame DEF CallStates
<1>3. c \in asked' => Covered(c)
    BY DEF Dies, CallsInv
<1>4. CallsInv'
    BY <1>1, <1>2, <1>3 DEF CallsInv, Covered, Backed, Evidence
<1>5. OutcomesInv'
    BY <1>1, <1>2 DEF OutcomesInv, UnderWay, TypeOK
<1> QED
    BY <1>2, <1>4, <1>5

LEMMA RefusedStep ==
    ASSUME IInv, NEW c \in Calls, Refused(c)
    PROVE  IInv'
<1> USE DEF IInv
<1> DEFINE next == Otherwise(call[c])
<1>1. /\ call[c] \in Kinds /\ call' = [call EXCEPT ![c] = next]
      /\ next \in {"done", "blocked", "failed"} /\ call[c] # next
      /\ next = "blocked" <=> call[c] = "reserved"
      /\ next = "done" <=> call[c] \in {"disclosed", "failed", "blocked"}
      /\ UNCHANGED <<open, retained, approvals, filed, under, asked, closedOn, clerk, journal, faults>>
    BY DEF Refused, Otherwise, Kinds, Evidence, Outcomes
<1> HIDE DEF next
<1>2. /\ TypeOK' /\ CapInv' /\ JournalInv'
      /\ call'[c] = next
      /\ \A d \in Calls \ {c} : call'[d] = call[d] /\ (d \in asked' <=> d \in asked)
  <2>1. next \in CallStates /\ call[c] # "done"
    BY <1>1 DEF CallStates, Kinds, Outcomes, Evidence
  <2>2. faults' \in Nat /\ (faults' = 0 => faults = 0) /\ asked' \in {asked, asked \union {c}}
    BY <1>1 DEF TypeOK
  <2> QED
    BY <1>1, <2>1, <2>2, CallFrame
<1>3. CallsInv'
    BY <1>1, <1>2 DEF CallsInv, Covered, Backed, Evidence
<1>4. OutcomesInv'
  <2>1. c \in asked /\ faults = 0 => c \in closedOn
    <3> SUFFICES ASSUME c \in asked, faults = 0 PROVE c \in closedOn
      OBVIOUS
    <3>1. call[c] # "reserved" /\ journal = NoRecord
      BY DEF CallsInv, JournalInv, Evidence
    <3>2. ~open
      BY <3>1 DEF Refused, CanFile
    <3>3. c \in UnderWay
      BY <1>1 DEF UnderWay, Kinds, Outcomes, Evidence
    <3> QED
      BY <3>2, <3>3 DEF OutcomesInv
  <2>2. UnderWay' \subseteq UnderWay
    BY <1>1, <1>2 DEF UnderWay, Kinds, Outcomes, Evidence
  <2>3. ~open' => UnderWay' \subseteq closedOn'
    BY <1>1, <2>2 DEF OutcomesInv
  <2>4. call[c] # "done"
    BY <1>1 DEF Kinds, Outcomes, Evidence
  <2>5. ASSUME faults' = 0, NEW d \in Calls
        PROVE  /\ call'[d] # "done" => filed'[d] \intersect Outcomes = {}
               /\ d \in asked' /\ call'[d] = "done" =>
                     \/ \E k \in Outcomes : filed'[d] \intersect Outcomes = {k}
                     \/ d \in closedOn' /\ filed'[d] \intersect Outcomes = {}
    <3>1. d \in asked' <=> d \in asked
      BY <1>1
    <3>2. faults = 0 /\ filed' = filed /\ closedOn' = closedOn
      BY <1>1, <2>5
    <3>3. CASE d = c
      BY <2>1, <2>4, <3>1, <3>2, <3>3 DEF OutcomesInv
    <3>4. CASE d # c
      BY <1>2, <3>1, <3>2, <3>4 DEF OutcomesInv
    <3> QED
      BY <3>3, <3>4
  <2> QED
    BY <2>3, <2>5 DEF OutcomesInv
<1> QED
    BY <1>2, <1>3, <1>4

(***************************************************************************)
(* A call files its record.                                                *)
(***************************************************************************)
\* What a call is about to record has its place.
LEMMA CallRecordFits ==
    ASSUME IInv, NEW c \in Calls, File(c)
    PROVE  /\ CallRecord(c) \in Records /\ CallRecord(c).by = c
           /\ CallRecord(c).kind = call[c] /\ call[c] \in Kinds
           /\ journal = NoRecord /\ (call[c] # "disclosed" => open)
           /\ call[c] = "reserved" =>
                 /\ CallRecord(c).approval \in Ids /\ Revocable(CallRecord(c).approval)
                 /\ Used(CallRecord(c).approval) < MaxRuns
<1>1. call[c] \in Kinds /\ journal = NoRecord /\ (call[c] # "disclosed" => open)
    BY DEF File, CanFile
<1>2. CASE call[c] = "reserved"
  <2>1. Max(Candidates) \in Candidates
    BY <1>2, ChosenIsCandidate DEF File
  <2>2. Max(Candidates) \in Ids /\ Ids \subseteq Nat
    BY <2>1, ProviderGateAssumption DEF Candidates, Ids
  <2> DEFINE a == Max(Candidates)
  <2>3. Revocable(a) /\ Used(a) < MaxRuns
    BY <2>1 DEF Candidates
  <2>4. CallRecord(c) = [kind |-> call[c], by |-> c, approval |-> a]
    BY <1>2 DEF CallRecord
  <2> HIDE DEF a
  <2>5. a \in Ids /\ a \in Nat
    BY <2>2 DEF a
  <2>6. CallRecord(c) \in Records
    BY <1>1, <2>4, <2>5 DEF Records
  <2>7. CallRecord(c).kind = call[c] /\ CallRecord(c).by = c /\ CallRecord(c).approval = a
    BY <2>4
  <2> QED
    BY <1>1, <2>3, <2>5, <2>6, <2>7
<1>3. CASE call[c] # "reserved"
    BY <1>1, <1>3 DEF CallRecord, Records
<1> QED
    BY <1>2, <1>3

LEMMA FileStep ==
    ASSUME IInv, NEW c \in Calls, File(c)
    PROVE  IInv'
<1> USE DEF IInv
<1> DEFINE r == CallRecord(c)
<1>1. /\ r \in Records /\ r.by = c /\ r.kind = call[c] /\ call[c] \in Kinds
      /\ journal = NoRecord /\ (call[c] # "disclosed" => open)
      /\ call[c] = "reserved" =>
            r.approval \in Ids /\ Revocable(r.approval) /\ Used(r.approval) < MaxRuns
    BY CallRecordFits
<1>2. /\ \/ Apply(r) /\ UNCHANGED <<open, retained, journal, faults>>
         \/ Interrupted(r)
      /\ UNCHANGED <<asked, closedOn, clerk>>
    BY DEF File
<1>3. PICK next \in CallStates : call' = [call EXCEPT ![c] = next]
    BY DEF File, Following, Otherwise, CallStates, Kinds, Outcomes, Evidence
<1> HIDE DEF r
<1>4. /\ call'[c] = next /\ call' \in [Calls -> CallStates]
      /\ \A d \in Calls \ {c} : call'[d] = call[d]
    BY <1>3 DEF TypeOK
<1>5. c \in UnderWay
    BY <1>1 DEF UnderWay, Kinds, Outcomes, Evidence
<1>6. ~open' => UnderWay' \subseteq closedOn'
    BY <1>2, <1>4, <1>5 DEF OutcomesInv, UnderWay, Interrupted
<1>7. CASE Apply(r) /\ UNCHANGED <<open, retained, journal, faults>>
  <2>1. next \in Following(c, call[c])
    BY <1>1, <1>4, <1>7 DEF File, Interrupted, r, NoRecord, Kinds, Outcomes, Evidence, TypeOK
  <2>2. \A d \in Calls :
          filed'[d] = IF d = c THEN filed[d] \union {call[c]} ELSE filed[d]
    BY <1>1, <1>7, ApplyFiles
  <2>3. TypeOK'
    BY <1>1, <1>2, <1>4, <1>7, ApplyTyped DEF TypeOK
  <2>4. CapInv'
    BY <1>1, <1>7, ApplyCap
  <2>5. JournalInv'
    BY <1>1, <1>7, ProviderGateAssumption DEF JournalInv, NoRecord, Kinds, Outcomes, Evidence
  <2>6. CallsInv'
    <3> SUFFICES ASSUME NEW d \in Calls
                 PROVE  /\ call'[d] = "reserved" => "disclosed" \in filed'[d]
                        /\ call'[d] \in {"authorize", "send", "completed"} \union Evidence => Covered(d)'
                        /\ d \in asked' =>
                              Covered(d)' /\ call'[d] \in {"completed", "failed", "done"} \union Evidence
                        /\ call'[d] \in {"completed"} \union Evidence => d \in asked'
                        /\ call'[d] \in {"artifact", "observation", "completed"} => "source" \in filed'[d]
                        /\ call'[d] \in {"observation", "completed"} => "artifact" \in filed'[d]
                        /\ "completed" \in filed'[d] => Backed(d)'
      BY DEF CallsInv
    <3>1. CASE d # c
      BY <1>2, <1>4, <2>2, <3>1 DEF CallsInv, Covered, Backed
    <3>2. CASE d = c
      <4>1. filed'[c] = filed[c] \union {call[c]} /\ asked' = asked /\ call'[c] = next
        BY <1>2, <1>4, <2>2
      <4>2. CASE call[c] \in {"disclosed", "reserved"}
        BY <2>1, <3>2, <4>1, <4>2 DEF CallsInv, Covered, Backed, Following, Evidence
      <4>3. CASE call[c] \in Evidence
        BY <2>1, <3>2, <4>1, <4>3 DEF CallsInv, Covered, Backed, Following, Evidence
      <4>4. CASE call[c] \in Outcomes
        BY <2>1, <3>2, <4>1, <4>4 DEF CallsInv, Covered, Backed, Following, Evidence, Outcomes
      <4> QED
        BY <1>1, <4>2, <4>3, <4>4 DEF Kinds
    <3> QED
      BY <3>1, <3>2
  <2>7. ASSUME faults' = 0, NEW d \in Calls
        PROVE  /\ call'[d] # "done" => filed'[d] \intersect Outcomes = {}
               /\ d \in asked' /\ call'[d] = "done" =>
                     \/ \E k \in Outcomes : filed'[d] \intersect Outcomes = {k}
                     \/ d \in closedOn' /\ filed'[d] \intersect Outcomes = {}
    <3>1. CASE d = c
      <4>1. filed[c] \intersect Outcomes = {}
        BY <1>5, <1>7, <2>7 DEF OutcomesInv, UnderWay
      <4>2. CASE call[c] \in Outcomes
        <5>1. filed'[c] \intersect Outcomes = {call[c]} /\ next = "done"
          BY <2>1, <2>2, <4>1, <4>2 DEF Following, Outcomes
        <5> QED
          BY <1>4, <3>1, <4>2, <5>1
      <4>3. CASE call[c] \notin Outcomes
        <5>1. filed'[c] \intersect Outcomes = {} /\ next # "done"
          BY <1>1, <2>1, <2>2, <4>1, <4>3 DEF Following, Kinds, Outcomes, Evidence
        <5> QED
          BY <1>4, <3>1, <5>1
      <4> QED
        BY <4>2, <4>3
    <3>2. CASE d # c
      BY <1>2, <1>4, <1>7, <2>2, <2>7, <3>2 DEF OutcomesInv
    <3> QED
      BY <3>1, <3>2
  <2>8. OutcomesInv'
    BY <1>6, <2>7 DEF OutcomesInv
  <2> QED
    BY <2>3, <2>4, <2>5, <2>6, <2>8
<1>8. CASE Interrupted(r)
  <2>1. /\ journal' = r /\ faults' \in Nat /\ faults' # 0
        /\ UNCHANGED <<open, retained, approvals, filed, under, asked, closedOn, clerk>>
    BY <1>2, <1>8 DEF Interrupted, TypeOK
  <2>2. next \in {"done", "failed"}
    BY <1>1, <1>4, <1>8, <2>1 DEF File, Otherwise, Kinds, Outcomes, Evidence, r, TypeOK, NoRecord, CallRecord
  <2>3. TypeOK'
    BY <1>1, <1>4, <2>1 DEF TypeOK
  <2>4. CapInv'
    BY <2>1 DEF CapInv, Under, Used
  <2>5. call[c] = "completed" => Backed(c)
    BY DEF CallsInv, Covered, Backed
  <2>6. JournalInv'
    BY <1>1, <2>1, <2>5 DEF JournalInv, Backed, Revocable, Used
  <2>7. CallsInv'
    BY <1>4, <2>1, <2>2 DEF CallsInv, Covered, Backed, Evidence
  <2>8. OutcomesInv'
    BY <1>6, <2>1 DEF OutcomesInv
  <2> QED
    BY <2>3, <2>4, <2>6, <2>7, <2>8
<1> QED
    BY <1>2, <1>7, <1>8

(***************************************************************************)
(* The theorems.                                                           *)
(***************************************************************************)
\* The calls, the journal, the runs on record and the caps fit together at every
\* step, replays and deaths included.
THEOREM IInvHolds == Spec => []IInv
<1> USE ProviderGateAssumption DEF IInv
<1>1. Init => IInv
  <2> SUFFICES ASSUME Init PROVE IInv
    OBVIOUS
  <2>1. TypeOK
    BY DEF Init, TypeOK, Approvals, CallStates, ClerkStates, IdleClerk
  <2>2. CallsInv /\ OutcomesInv
    BY DEF Init, CallsInv, OutcomesInv, Evidence, UnderWay
  <2>3. JournalInv
    BY DEF Init, JournalInv, NoRecord, Kinds, Outcomes, Evidence
  <2>4. CapInv
    <3> SUFFICES ASSUME NEW a \in Ids
                 PROVE  IsFiniteSet(Under(a)) /\ Used(a) <= MaxRuns
      BY DEF CapInv
    <3>1. Under(a) = {}
      BY DEF Init, Under, Ids
    <3> QED
      BY <3>1, FS_EmptySet DEF Under, Used
  <2> QED
    BY <2>1, <2>2, <2>3, <2>4
<1>2. IInv /\ [Next]_vars => IInv'
  <2> SUFFICES ASSUME IInv, [Next]_vars PROVE IInv'
    OBVIOUS
  <2>1. ASSUME NEW k \in Clerks, Check(k) \/ GiveUp(k) PROVE IInv'
    BY <2>1, QuietSteps
  <2>2. ASSUME NEW k \in Clerks, Decide(k) PROVE IInv'
    BY <2>2, DecideStep
  <2>3. ASSUME NEW a \in Ids, Expire(a) PROVE IInv'
    BY <2>3, QuietSteps
  <2>4. CASE SetStatus \/ SetRetention \/ RetentionEnds
    BY <2>4, QuietSteps
  <2>5. CASE RecoverCase
    BY <2>5, RecoverStep
  <2>6. ASSUME NEW c \in Calls, Begin(c) PROVE IInv'
    BY <2>6, BeginStep
  <2>7. ASSUME NEW c \in Calls, File(c) PROVE IInv'
    BY <2>7, FileStep
  <2>8. ASSUME NEW c \in Calls, Refused(c) PROVE IInv'
    BY <2>8, RefusedStep
  <2>9. ASSUME NEW c \in Calls, Authorize(c) PROVE IInv'
    BY <2>9, AuthorizeStep
  <2>10. ASSUME NEW c \in Calls, Send(c) PROVE IInv'
    BY <2>10, SendStep
  <2>11. ASSUME NEW c \in Calls, Dies(c) PROVE IInv'
    BY <2>11, DiesStep
  <2>12. CASE UNCHANGED vars
    BY <2>12 DEF vars, TypeOK, CallsInv, Covered, Backed, JournalInv, Revocable, Used,
                 CapInv, Under, OutcomesInv, UnderWay
  <2> QED
    BY <2>1, <2>2, <2>3, <2>4, <2>5, <2>6, <2>7, <2>8, <2>9, <2>10, <2>11, <2>12 DEF Next
<1> QED
  BY <1>1, <1>2, PTL DEF Spec

\* Every reachable state is well typed, and a call names an approval exactly
\* when its reservation is recorded.
THEOREM TypesHold == Spec => []TypeOK
<1>1. IInv => TypeOK
  BY DEF IInv
<1> QED
  BY <1>1, IInvHolds, PTL

\* No request leaves without its disclosure in the ledger nor, if licensed,
\* without a reservation, whoever is killed when.
THEOREM RequestsCovered == Spec => []RequestsAreCovered
<1>1. IInv => RequestsAreCovered
  BY DEF IInv, TypeOK, CallsInv, Covered, RequestsAreCovered
<1> QED
  BY <1>1, IInvHolds, PTL

\* No approval serves more requests than its max_runs, whatever fails and
\* whichever reservation is replayed.
THEOREM CapKept == Spec => []RequestsWithinCap
<1>1. IInv => RequestsWithinCap
  <2> SUFFICES ASSUME IInv, NEW a \in Ids
               PROVE  Cardinality({c \in asked : under[c] = a}) <= MaxRuns
    BY DEF RequestsWithinCap
  <2> DEFINE U == {c \in asked : under[c] = a}
             V == Under(a)
  <2>1. U \in SUBSET V
    BY DEF IInv, TypeOK, Under
  <2>2. IsFiniteSet(V) /\ Cardinality(V) <= MaxRuns
    BY DEF IInv, CapInv, Used, Under
  <2> HIDE DEF U, V
  <2>3. IsFiniteSet(U) /\ Cardinality(U) <= Cardinality(V)
    BY <2>1, <2>2, FS_Subset
  <2>4. Cardinality(U) \in Nat /\ Cardinality(V) \in Nat /\ MaxRuns \in Nat
    BY <2>2, <2>3, FS_CardinalityType, ProviderGateAssumption
  <2>5. Cardinality(U) <= MaxRuns
    BY <2>2, <2>3, <2>4
  <2> QED
    BY <2>5 DEF U
<1> QED
  BY <1>1, IInvHolds, PTL

\* The runs on record are true: a completed one has asked and stored the
\* answer, and a call that asked ends with one outcome unless the case was
\* closed under it or something was interrupted.
THEOREM OutcomesTrue == Spec => []OutcomesAreTrue
<1>1. IInv => OutcomesAreTrue
  <2> SUFFICES ASSUME IInv, NEW c \in Calls
               PROVE  /\ "completed" \in filed[c] =>
                            c \in asked /\ {"disclosed", "source", "artifact"} \subseteq filed[c]
                      /\ c \in asked /\ faults = 0 /\ call[c] = "done" =>
                            \/ Cardinality(filed[c] \intersect Outcomes) = 1
                            \/ c \in closedOn /\ filed[c] \intersect Outcomes = {}
    BY DEF OutcomesAreTrue
  <2>1. "completed" \in filed[c] =>
           c \in asked /\ {"disclosed", "source", "artifact"} \subseteq filed[c]
    BY DEF IInv, CallsInv, Backed
  <2>2. ASSUME NEW k \in Outcomes, filed[c] \intersect Outcomes = {k}
        PROVE  Cardinality(filed[c] \intersect Outcomes) = 1
    BY <2>2, FS_Singleton
  <2>3. c \in asked /\ faults = 0 /\ call[c] = "done" =>
           \/ \E k \in Outcomes : filed[c] \intersect Outcomes = {k}
           \/ c \in closedOn /\ filed[c] \intersect Outcomes = {}
    BY DEF IInv, OutcomesInv
  <2> QED
    BY <2>1, <2>2, <2>3
<1> QED
  BY <1>1, IInvHolds, PTL

\* The records of a step are those of one call or of one clerk.
LEMMA StepsApply ==
    ASSUME IInv, [Next]_vars,
           ~UNCHANGED <<filed, under>>
             \/ \E a \in Ids : \/ approvals'[a].made # approvals[a].made
                               \/ approvals'[a].revocations # approvals[a].revocations
    PROVE  \/ \E c \in Calls : File(c) /\ Apply(CallRecord(c))
           \/ \E k \in Clerks : Decide(k) /\ Apply(ClerkRecord(k))
           \/ RecoverCase
<1>1. ASSUME NEW a \in Ids, Expire(a)
      PROVE  /\ UNCHANGED <<filed, under>>
             /\ \A b \in Ids : approvals'[b].made = approvals[b].made
                              /\ approvals'[b].revocations = approvals[b].revocations
  BY <1>1 DEF Expire, IInv, TypeOK, Approvals
<1> QED
  BY <1>1 DEF Next, vars, Check, Decide, GiveUp, SetStatus, SetRetention, RetentionEnds, Interrupted,
              Begin, File, Refused, Authorize, Send, Dies

\* No run is reserved under a revoked approval, by a call nor by a replay.
THEOREM RevocationIsFinal == Spec => RevokedIsFinal
<1>1. ASSUME IInv, [Next]_vars, NEW c \in Calls, under'[c] # under[c]
      PROVE  approvals[under'[c]].made /\ approvals[under'[c]].revocations = 0
  <2>1. \/ \E d \in Calls : File(d) /\ Apply(CallRecord(d))
        \/ \E k \in Clerks : Decide(k) /\ Apply(ClerkRecord(k))
        \/ RecoverCase
    BY <1>1, StepsApply
  <2>2. ASSUME NEW d \in Calls, File(d), Apply(CallRecord(d))
        PROVE  approvals[under'[c]].made /\ approvals[under'[c]].revocations = 0
    <3>1. /\ CallRecord(d) \in Records /\ CallRecord(d).by = d
          /\ CallRecord(d).kind \in Kinds
          /\ CallRecord(d).kind = "reserved" => Revocable(CallRecord(d).approval)
      BY <1>1, <2>2, CallRecordFits
    <3>2. under'[c] = CallRecord(d).approval /\ CallRecord(d).kind = "reserved"
      BY <1>1, <2>2, <3>1, ApplyFiles DEF IInv
    <3> QED
      BY <3>1, <3>2 DEF Revocable
  <2>3. ASSUME NEW k \in Clerks, Decide(k), Apply(ClerkRecord(k))
        PROVE  FALSE
    <3>1. ClerkRecord(k).kind \in {"approved", "revoked"}
      BY <1>1, <2>3 DEF Decide, ClerkRecord, IInv, TypeOK, ClerkStates
    <3> QED
      BY <1>1, <2>3, <3>1 DEF Apply
  <2>4. CASE RecoverCase
    <3>1. journal \in Records /\ Apply(journal) /\ (journal.by \in Calls <=> journal.kind \in Kinds)
      BY <1>1, <2>4 DEF RecoverCase, IInv, TypeOK, JournalInv
    <3>2. under'[c] = journal.approval /\ journal.kind = "reserved"
      BY <1>1, <3>1, ApplyFiles DEF IInv
    <3> QED
      BY <1>1, <3>2 DEF IInv, JournalInv, Revocable
  <2> QED
    BY <2>1, <2>2, <2>3, <2>4
<1>2. IInv /\ [Next]_vars =>
        [\A c \in Calls : under'[c] # under[c] =>
            approvals[under'[c]].made /\ approvals[under'[c]].revocations = 0]_vars
  BY <1>1
<1> QED
  BY <1>2, IInvHolds, PTL DEF Spec, RevokedIsFinal

\* A closed case gains nothing but notes of disclosures, not even by a replay.
THEOREM ClosedIsQuiet == Spec => ClosedCaseIsQuiet
<1>1. ASSUME IInv, [Next]_vars, ~open
      PROVE  /\ \A c \in Calls : filed'[c] \subseteq filed[c] \union {"disclosed"}
             /\ \A a \in Ids :
                   /\ approvals'[a].made = approvals[a].made
                   /\ approvals'[a].revocations = approvals[a].revocations
  <2>1. ASSUME NEW r \in Records, Apply(r), r.kind = "disclosed", r.by \in Calls
        PROVE  /\ \A c \in Calls : filed'[c] \subseteq filed[c] \union {"disclosed"}
               /\ approvals' = approvals
    BY <1>1, <2>1 DEF Apply, IInv, TypeOK
  <2>2. ASSUME NEW d \in Calls, File(d), Apply(CallRecord(d))
        PROVE  CallRecord(d) \in Records /\ CallRecord(d).kind = "disclosed" /\ CallRecord(d).by = d
    BY <1>1, <2>2, CallRecordFits
  <2>3. ASSUME NEW k \in Clerks, Decide(k)
        PROVE  FALSE
    BY <1>1, <2>3 DEF Decide, CanFile, IInv, TypeOK, ClerkStates
  <2>4. CASE RecoverCase
    BY <1>1, <2>4, <2>1 DEF RecoverCase, IInv, TypeOK, JournalInv, Kinds
  <2>5. CASE ~RecoverCase
    BY <1>1, <2>1, <2>2, <2>3, <2>5, StepsApply
  <2> QED
    BY <2>4, <2>5
<1>2. IInv /\ [Next]_vars =>
        [~open => /\ \A c \in Calls : filed'[c] \subseteq filed[c] \union {"disclosed"}
                  /\ \A a \in Ids :
                        /\ approvals'[a].made = approvals[a].made
                        /\ approvals'[a].revocations = approvals[a].revocations]_vars
  BY <1>1
<1> QED
  BY <1>2, IInvHolds, PTL DEF Spec, ClosedCaseIsQuiet

=============================================================================
