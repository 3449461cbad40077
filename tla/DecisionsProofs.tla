-------------------------- MODULE DecisionsProofs --------------------------
(***************************************************************************)
(* Theorems about the analysts' decisions, for any number of analysts,     *)
(* entities, decisions and reviews.                                        *)
(***************************************************************************)
EXTENDS DecisionsProps, SetLemmas, SequenceTheorems, TLAPS

(***************************************************************************)
(* What an analyst has decided still fits the file when it is appended:    *)
(* rows are only added, so a merge found is still there, and the splits    *)
(* that were read are still those of other merges.                         *)
(***************************************************************************)
RowFits(row) ==
    /\ {row.pair[1], row.pair[2]} \subseteq known
    /\ row.action = "split" =>
         /\ row.seen <= Len(decisions)
         /\ row.reverses \in DOMAIN decisions
         /\ decisions[row.reverses].action = "merge"
         /\ decisions[row.reverses].pair = row.pair
         /\ \A j \in DOMAIN decisions :
              j <= row.seen /\ decisions[j].action = "split" =>
                  decisions[j].reverses # row.reverses

DecidedInv == \A a \in Analysts : analyst[a].pc = "decided" => RowFits(analyst[a].row)

\* Nobody has judged a finding about records that do not exist yet.
JudgedInv ==
    /\ \A i \in DOMAIN reviews : reviews[i].found.ids \subseteq known
    /\ \A a \in Analysts : analyst[a].pc = "judged" =>
                              analyst[a].row.found.ids \subseteq known

IInv == TypeOK /\ DecidedInv /\ JudgedInv /\ OnlyRacesBreakHistory

\* An analyst between two calls or in one of the three kinds of call.
LEMMA AnalystCases ==
  ASSUME TypeOK, NEW a \in Analysts
  PROVE  /\ analyst[a].pc = "decided" => analyst[a].row \in Resolutions
         /\ analyst[a].pc = "judged" => analyst[a].row \in Reviews
         /\ analyst[a].pc = "reading" => analyst[a].entities \in SUBSET Entities
  BY DEF TypeOK, AnalystStates, Idle

LEMMA AuditTyped ==
  ASSUME known \subseteq Entities, unsourced \subseteq known
  PROVE  \A f \in Audit : f \in Findings /\ f.ids \subseteq known
<1>1. ASSUME NEW f \in Duplicates(known)
      PROVE  f \in Findings /\ f.ids \subseteq known
  <2>1. PICK e \in known :
          f = [category |-> "duplicate-entity-candidate", ids |-> WithLabelOf(e, known)]
    BY DEF Duplicates
  <2>2. WithLabelOf(e, known) \subseteq known
    BY DEF WithLabelOf
  <2> QED
    BY <2>1, <2>2 DEF Findings, Categories
<1>2. [category |-> "integrity", ids |-> {}] \in Findings
  BY DEF Findings, Categories
<1>3. [category |-> "integrity", ids |-> {}].ids \subseteq known
  OBVIOUS
<1>4. ASSUME NEW e \in unsourced
      PROVE  /\ [category |-> "missing-entity-source", ids |-> {e}] \in Findings
             /\ [category |-> "missing-entity-source", ids |-> {e}].ids \subseteq known
  BY DEF Findings, Categories
<1>5. \A f \in Audit :
        \/ f \in Duplicates(known)
        \/ \E e \in unsourced : f = [category |-> "missing-entity-source", ids |-> {e}]
        \/ f = [category |-> "integrity", ids |-> {}]
  BY DEF Audit
<1> QED
  BY <1>1, <1>2, <1>3, <1>4, <1>5

LEMMA GroupsTyped ==
  ASSUME NEW entities \in SUBSET Entities, NEW ds
  PROVE  Groups(entities, ds) \in SUBSET SUBSET Entities
  BY DEF Groups

\* Every action keeps the types; a decision that is appended is about entities
\* that were looked up.
LEMMA TypingStep == TypeOK /\ DecidedInv /\ [Next]_vars => TypeOK'
<1> SUFFICES ASSUME TypeOK, DecidedInv, [Next]_vars PROVE TypeOK'
  OBVIOUS
<1> USE DEF TypeOK, Goes
<1>1. CASE UNCHANGED vars
  BY <1>1 DEF vars
<1>2. CASE RecordEntity
  BY <1>2 DEF RecordEntity
<1>3. ASSUME NEW a \in Analysts, CheckMerge(a) PROVE TypeOK'
  <2>1. PICK p \in Pairs :
          analyst' = [analyst EXCEPT ![a] = [pc |-> "decided",
                        row |-> [action |-> "merge", pair |-> p, reverses |-> 0,
                                 seen |-> 0]]]
    BY <1>3 DEF CheckMerge
  <2>2. [pc |-> "decided", row |-> [action |-> "merge", pair |-> p,
                                    reverses |-> 0, seen |-> 0]] \in AnalystStates
    BY DEF AnalystStates, Resolutions
  <2>3. UNCHANGED <<known, unsourced, decisions, reviews>>
    BY <1>3 DEF CheckMerge
  <2> QED
    BY <2>1, <2>2, <2>3
<1>4. ASSUME NEW a \in Analysts, CheckSplit(a) PROVE TypeOK'
  <2>1. PICK m \in Merges(decisions) :
          analyst' = [analyst EXCEPT ![a] = [pc |-> "decided",
                        row |-> [action |-> "split", pair |-> decisions[m].pair,
                                 reverses |-> m, seen |-> Len(decisions)]]]
    BY <1>4 DEF CheckSplit
  <2>2. m \in 1..Len(decisions) /\ decisions[m] \in Resolutions
    BY DEF Merges
  <2>3. [pc |-> "decided", row |-> [action |-> "split", pair |-> decisions[m].pair,
            reverses |-> m, seen |-> Len(decisions)]] \in AnalystStates
    BY <2>2 DEF AnalystStates, Resolutions
  <2>4. UNCHANGED <<known, unsourced, decisions, reviews>>
    BY <1>4 DEF CheckSplit
  <2> QED
    BY <2>1, <2>3, <2>4
<1>5. ASSUME NEW a \in Analysts, RecordDecision(a) PROVE TypeOK'
  <2>1. analyst[a].row \in Resolutions /\ RowFits(analyst[a].row)
    BY <1>5, AnalystCases DEF RecordDecision, DecidedInv
  <2>2. decisions' = Append(decisions, analyst[a].row)
    BY <1>5 DEF RecordDecision
  <2>3. /\ analyst' \in [Analysts -> AnalystStates]
        /\ UNCHANGED <<known, unsourced, reviews>>
    BY <1>5 DEF RecordDecision, AnalystStates
  <2> QED
    BY <2>1, <2>2, <2>3 DEF RowFits
<1>6. ASSUME NEW a \in Analysts, Judge(a) PROVE TypeOK'
  <2>1. PICK f \in Audit, d \in Dispositions :
          analyst' = [analyst EXCEPT ![a] = [pc |-> "judged",
                        row |-> [found |-> f, disposition |-> d]]]
    BY <1>6 DEF Judge
  <2>2. [pc |-> "judged", row |-> [found |-> f, disposition |-> d]] \in AnalystStates
    BY AuditTyped DEF AnalystStates, Reviews
  <2>3. UNCHANGED <<known, unsourced, decisions, reviews>>
    BY <1>6 DEF Judge
  <2> QED
    BY <2>1, <2>2, <2>3
<1>7. ASSUME NEW a \in Analysts, RecordReview(a) PROVE TypeOK'
  <2>1. analyst[a].row \in Reviews
    BY <1>7, AnalystCases DEF RecordReview
  <2> QED
    BY <1>7, <2>1 DEF RecordReview, AnalystStates
<1>8. ASSUME NEW a \in Analysts, GiveUp(a) \/ Publish(a) PROVE TypeOK'
  BY <1>8 DEF GiveUp, Publish, AnalystStates
<1>9. ASSUME NEW a \in Analysts, ReadEntities(a) PROVE TypeOK'
  BY <1>9 DEF ReadEntities, AnalystStates
<1>10. ASSUME NEW a \in Analysts, Render(a) PROVE TypeOK'
  <2>1. Groups(analyst[a].entities, decisions) \in SUBSET SUBSET Entities
    BY <1>10, AnalystCases, GroupsTyped DEF Render
  <2>2. [pc |-> "rendered", upto |-> Len(decisions),
         groups |-> Groups(analyst[a].entities, decisions)] \in AnalystStates
    BY <2>1 DEF AnalystStates
  <2> QED
    BY <1>10, <2>2 DEF Render
<1> QED
  BY <1>1, <1>2, <1>3, <1>4, <1>5, <1>6, <1>7, <1>8, <1>9, <1>10 DEF Next

\* A decision that was checked fits whatever is recorded meanwhile.
LEMMA DecidedStep == TypeOK /\ DecidedInv /\ [Next]_vars => DecidedInv'
<1> SUFFICES ASSUME TypeOK, DecidedInv, [Next]_vars, NEW b \in Analysts,
                    analyst'[b].pc = "decided"
             PROVE  RowFits(analyst[b].row)'
  BY DEF DecidedInv
<1> USE DEF TypeOK, Goes
<1>1. CASE UNCHANGED vars
  BY <1>1 DEF vars, DecidedInv, RowFits
<1>2. CASE RecordEntity
  BY <1>2 DEF RecordEntity, DecidedInv, RowFits
<1>3. ASSUME NEW a \in Analysts, CheckMerge(a) PROVE RowFits(analyst[b].row)'
  <2>1. CASE a = b
    BY <1>3, <2>1 DEF CheckMerge, RowFits
  <2>2. CASE a # b
    BY <1>3, <2>2 DEF CheckMerge, DecidedInv, RowFits
  <2> QED
    BY <2>1, <2>2
<1>4. ASSUME NEW a \in Analysts, CheckSplit(a) PROVE RowFits(analyst[b].row)'
  <2>1. CASE a = b
    <3>1. PICK m \in Merges(decisions) \ Reversed(decisions) :
            analyst'[b].row = [action |-> "split", pair |-> decisions[m].pair,
                               reverses |-> m, seen |-> Len(decisions)]
      BY <1>4, <2>1 DEF CheckSplit
    <3>2. UNCHANGED <<known, decisions>>
      BY <1>4 DEF CheckSplit
    <3>3. /\ m \in DOMAIN decisions
          /\ decisions[m].action = "merge"
          /\ {decisions[m].pair[1], decisions[m].pair[2]} \subseteq known
      BY DEF Merges
    <3>4. \A j \in DOMAIN decisions :
             decisions[j].action = "split" => decisions[j].reverses # m
      BY DEF Reversed, Splits
    <3> QED
      BY <3>1, <3>2, <3>3, <3>4 DEF RowFits
  <2>2. CASE a # b
    BY <1>4, <2>2 DEF CheckSplit, DecidedInv, RowFits
  <2> QED
    BY <2>1, <2>2
<1>5. ASSUME NEW a \in Analysts, RecordDecision(a) PROVE RowFits(analyst[b].row)'
  <2>1. a # b /\ analyst'[b] = analyst[b] /\ analyst[b].pc = "decided"
    BY <1>5 DEF RecordDecision, Idle
  <2>2. RowFits(analyst[b].row) /\ analyst[b].row \in Resolutions
    BY <2>1, AnalystCases DEF DecidedInv
  <2>3. analyst[a].row \in Resolutions
    BY <1>5, AnalystCases DEF RecordDecision
  <2>4. /\ Len(decisions) \in Nat
        /\ Len(decisions') = Len(decisions) + 1
        /\ DOMAIN decisions = 1..Len(decisions)
        /\ DOMAIN decisions' = 1..(Len(decisions) + 1)
        /\ \A j \in 1..Len(decisions) : decisions'[j] = decisions[j]
        /\ known' = known
    BY <1>5, <2>3 DEF RecordDecision
  <2>5. analyst[b].row.action = "split" =>
           /\ analyst[b].row.seen <= Len(decisions)
           /\ analyst[b].row.seen \in Nat
           /\ analyst[b].row.reverses \in 1..Len(decisions)
    BY <2>2, <2>4 DEF RowFits, Resolutions
  <2>6. ASSUME analyst[b].row.action = "split"
        PROVE  \A j \in DOMAIN decisions' :
                  j <= analyst[b].row.seen /\ decisions'[j].action = "split" =>
                      decisions'[j].reverses # analyst[b].row.reverses
    BY <2>2, <2>4, <2>5, <2>6 DEF RowFits
  <2> QED
    BY <2>1, <2>2, <2>4, <2>5, <2>6 DEF RowFits
<1>6. ASSUME NEW a \in Analysts,
             \/ Judge(a) \/ RecordReview(a) \/ GiveUp(a)
             \/ ReadEntities(a) \/ Render(a) \/ Publish(a)
      PROVE  RowFits(analyst[b].row)'
  <2>1. a # b /\ UNCHANGED <<known, decisions>> /\ analyst'[b] = analyst[b]
    BY <1>6 DEF Judge, RecordReview, GiveUp, ReadEntities, Render, Publish, Idle
  <2> QED
    BY <2>1 DEF DecidedInv, RowFits
<1> QED
  BY <1>1, <1>2, <1>3, <1>4, <1>5, <1>6 DEF Next

\* Records are only added, and a finding is made of those there are.
LEMMA JudgedStep == TypeOK /\ JudgedInv /\ [Next]_vars => JudgedInv'
<1> SUFFICES ASSUME TypeOK, JudgedInv, [Next]_vars PROVE JudgedInv'
  OBVIOUS
<1> USE DEF TypeOK, Goes
<1>1. CASE UNCHANGED vars
  BY <1>1 DEF vars, JudgedInv
<1>2. CASE RecordEntity
  BY <1>2 DEF RecordEntity, JudgedInv
<1>3. ASSUME NEW a \in Analysts,
             \/ CheckMerge(a) \/ CheckSplit(a) \/ RecordDecision(a) \/ GiveUp(a)
             \/ ReadEntities(a) \/ Render(a) \/ Publish(a)
      PROVE  JudgedInv'
  <2>1. UNCHANGED <<known, reviews>> /\ analyst'[a].pc # "judged"
        /\ \A b \in Analysts \ {a} : analyst'[b] = analyst[b]
    BY <1>3 DEF CheckMerge, CheckSplit, RecordDecision, GiveUp, ReadEntities,
                Render, Publish, Idle
  <2> QED
    BY <2>1 DEF JudgedInv
<1>4. ASSUME NEW a \in Analysts, Judge(a) PROVE JudgedInv'
  <2>1. PICK f \in Audit, d \in Dispositions :
          analyst' = [analyst EXCEPT ![a] = [pc |-> "judged",
                        row |-> [found |-> f, disposition |-> d]]]
    BY <1>4 DEF Judge
  <2>2. f.ids \subseteq known /\ UNCHANGED <<known, reviews>>
    BY <1>4, AuditTyped DEF Judge
  <2> QED
    BY <2>1, <2>2 DEF JudgedInv
<1>5. ASSUME NEW a \in Analysts, RecordReview(a) PROVE JudgedInv'
  <2>1. /\ analyst[a].row \in Reviews
        /\ analyst[a].row.found.ids \subseteq known
        /\ reviews' = Append(reviews, analyst[a].row)
        /\ known' = known
    BY <1>5, AnalystCases DEF RecordReview, JudgedInv
  <2>2. /\ DOMAIN reviews' = 1..(Len(reviews) + 1)
        /\ \A i \in 1..Len(reviews) : reviews'[i] = reviews[i]
        /\ reviews'[Len(reviews) + 1] = analyst[a].row
    BY <2>1
  <2>3. \A i \in DOMAIN reviews' : reviews'[i].found.ids \subseteq known'
    BY <2>1, <2>2 DEF JudgedInv
  <2>4. \A b \in Analysts : analyst'[b].pc = "judged" =>
            analyst'[b] = analyst[b]
    BY <1>5 DEF RecordReview, Idle
  <2> QED
    BY <2>1, <2>3, <2>4 DEF JudgedInv
<1> QED
  BY <1>1, <1>2, <1>3, <1>4, <1>5 DEF Next

\* A split appended after one of the same merge had not seen that one.
LEMMA HistoryStep ==
  TypeOK /\ DecidedInv /\ OnlyRacesBreakHistory /\ [Next]_vars
      => OnlyRacesBreakHistory'
<1> SUFFICES ASSUME TypeOK, DecidedInv, OnlyRacesBreakHistory, [Next]_vars
             PROVE  OnlyRacesBreakHistory'
  OBVIOUS
<1>1. CASE UNCHANGED decisions
  BY <1>1 DEF OnlyRacesBreakHistory, RowVerifies
<1>2. ASSUME NEW a \in Analysts, RecordDecision(a) PROVE OnlyRacesBreakHistory'
  <2> DEFINE row == analyst[a].row
             n == Len(decisions)
  <2>1. row \in Resolutions /\ RowFits(row)
    BY <1>2, AnalystCases DEF RecordDecision, DecidedInv
  <2>2. /\ n \in Nat
        /\ DOMAIN decisions = 1..n
        /\ DOMAIN decisions' = 1..(n + 1)
        /\ \A i \in 1..n : decisions'[i] = decisions[i]
        /\ decisions'[n + 1] = row
    BY <1>2, <2>1 DEF RecordDecision, TypeOK
  <2> SUFFICES ASSUME NEW i \in 1..(n + 1)
               PROVE  \/ RowVerifies(decisions', i)
                      \/ \E j \in 1..(i - 1) :
                           /\ decisions'[i].action = "split"
                           /\ decisions'[j].action = "split"
                           /\ decisions'[j].reverses = decisions'[i].reverses
                           /\ decisions'[i].seen < j
    BY <2>2 DEF OnlyRacesBreakHistory
  <2> HIDE DEF n, row
  <2>3. CASE i \in 1..n
    <3>1. \A j \in 1..(i - 1) : decisions'[j] = decisions[j]
      BY <2>2, <2>3
    <3>2. decisions'[i] = decisions[i]
      BY <2>2, <2>3
    <3>3. RowVerifies(decisions, i) => RowVerifies(decisions', i)
      BY <3>1, <3>2 DEF RowVerifies
    <3> QED
      BY <2>2, <2>3, <3>1, <3>2, <3>3 DEF OnlyRacesBreakHistory
  <2>4. CASE i = n + 1
    <3>1. CASE row.action # "split"
      BY <2>2, <2>4, <3>1 DEF RowVerifies
    <3>2. CASE row.action = "split" /\ \E j \in 1..n :
                 decisions[j].action = "split" /\ decisions[j].reverses = row.reverses
      <4>1. PICK j \in 1..n :
              decisions[j].action = "split" /\ decisions[j].reverses = row.reverses
        BY <3>2
      <4>2. row.seen < j
        BY <2>1, <2>2, <3>2, <4>1 DEF RowFits, Resolutions
      <4> QED
        BY <2>2, <2>4, <3>2, <4>1, <4>2
    <3>3. CASE row.action = "split" /\ ~\E j \in 1..n :
                 decisions[j].action = "split" /\ decisions[j].reverses = row.reverses
      <4>1. /\ row.reverses \in 1..n
            /\ decisions[row.reverses].action = "merge"
            /\ decisions[row.reverses].pair = row.pair
        BY <2>1, <2>2, <3>3 DEF RowFits
      <4>2. decisions'[row.reverses] = decisions[row.reverses]
        BY <2>2, <4>1
      <4>3. \A j \in 1..n : decisions'[j].action = "split" =>
               decisions'[j].reverses # row.reverses
        BY <2>2, <3>3
      <4> QED
        BY <2>2, <2>4, <4>1, <4>2, <4>3 DEF RowVerifies
    <3> QED
      BY <3>1, <3>2, <3>3
  <2>5. i \in 1..n \/ i = n + 1
    BY <2>2
  <2> QED
    BY <2>3, <2>4, <2>5
<1>3. ASSUME NEW a \in Analysts,
             \/ CheckMerge(a) \/ CheckSplit(a) \/ Judge(a) \/ RecordReview(a)
             \/ GiveUp(a) \/ ReadEntities(a) \/ Render(a) \/ Publish(a)
      PROVE  UNCHANGED decisions
  BY <1>3 DEF CheckMerge, CheckSplit, Judge, RecordReview, GiveUp, ReadEntities,
              Render, Publish
<1>4. RecordEntity \/ UNCHANGED vars => UNCHANGED decisions
  BY DEF RecordEntity, vars
<1> QED
  BY <1>1, <1>2, <1>3, <1>4 DEF Next

LEMMA Initially == Init => IInv
  BY DEF Init, IInv, TypeOK, AnalystStates, Idle, DecidedInv, JudgedInv,
         OnlyRacesBreakHistory

THEOREM Invariant == Spec => []IInv
<1>1. IInv /\ [Next]_vars => IInv'
  BY TypingStep, DecidedStep, JudgedStep, HistoryStep DEF IInv
<1> QED
  BY Initially, <1>1, PTL DEF Spec

\* Every variable keeps its type, and decisions are about recorded entities:
\* what record_resolution looked up is still there when its row is appended.
THEOREM TypesHold == Spec => []TypeOK
<1>1. IInv => TypeOK
  BY DEF IInv
<1> QED
  BY Invariant, <1>1, PTL

\* The check of record_resolution leaves only the race: a split that
\* verify_case rejects was appended after a split its author had not seen.
THEOREM OnlyRacesHold == Spec => []OnlyRacesBreakHistory
<1>1. IInv => OnlyRacesBreakHistory
  BY DEF IInv
<1> QED
  BY Invariant, <1>1, PTL

\* A finding that comes with a new entity names it.
LEMMA NewFinding ==
  ASSUME NEW e \in Entities \ known, known' = known \union {e},
         unsourced' \in {unsourced, unsourced \union ({e} \intersect Unsourced)},
         NEW f \in Audit', f \notin Audit, f.category # "integrity"
  PROVE  e \in f.ids
<1>1. CASE f \in Duplicates(known')
  <2>1. PICK g \in known' :
          /\ Cardinality(WithLabelOf(g, known')) > 1
          /\ f = [category |-> "duplicate-entity-candidate", ids |-> WithLabelOf(g, known')]
    BY <1>1 DEF Duplicates
  <2>2. CASE Label[e] = Label[g]
    BY <2>1, <2>2 DEF WithLabelOf
  <2>3. CASE Label[e] # Label[g]
    <3>1. g \in known /\ WithLabelOf(g, known') = WithLabelOf(g, known)
      BY <2>1, <2>3 DEF WithLabelOf
    <3>2. f \in Duplicates(known)
      BY <2>1, <3>1 DEF Duplicates
    <3> QED
      BY <3>2 DEF Audit
  <2> QED
    BY <2>2, <2>3
<1>2. CASE f \in {[category |-> "missing-entity-source", ids |-> {g}] : g \in unsourced'}
  <2>1. PICK g \in unsourced' : f = [category |-> "missing-entity-source", ids |-> {g}]
    BY <1>2
  <2>2. g \notin unsourced
    BY <2>1 DEF Audit
  <2> QED
    BY <2>1, <2>2
<1> QED
  BY <1>1, <1>2 DEF Audit

\* No review, whenever it was begun, excuses a finding that came after it.
THEOREM GrownFindingsHold == Spec => GrownFindingsAreOpen
<1> DEFINE Opens == \A f \in Audit' : f \notin Audit => ~Suppressed(f, reviews')
<1>1. IInv /\ [Next]_vars => [Opens]_vars
  <2> SUFFICES ASSUME IInv, Next, NEW f \in Audit', f \notin Audit,
                      f.category # "integrity"
               PROVE  ~Suppressed(f, reviews')
    BY DEF Suppressed
  <2>1. CASE RecordEntity
    <3>1. PICK e \in Entities \ known :
            /\ known' = known \union {e}
            /\ unsourced' \in {unsourced, unsourced \union ({e} \intersect Unsourced)}
      BY <2>1 DEF RecordEntity
    <3>2. e \in f.ids
      BY <3>1, NewFinding
    <3>3. reviews' = reviews /\ \A i \in DOMAIN reviews : e \notin reviews[i].found.ids
      BY <2>1, <3>1 DEF RecordEntity, IInv, JudgedInv
    <3> QED
      BY <3>2, <3>3 DEF Suppressed, SameFingerprint
  <2>2. CASE known' = known /\ unsourced' = unsourced
    BY <2>2 DEF Audit
  <2>3. RecordEntity \/ (known' = known /\ unsourced' = unsourced)
    BY DEF Next, CheckMerge, CheckSplit, RecordDecision, Judge, RecordReview,
           GiveUp, ReadEntities, Render, Publish
  <2> QED
    BY <2>1, <2>2, <2>3
<1>2. Spec => [][Opens]_vars
  BY Invariant, <1>1, PTL DEF Spec
<1> QED
  BY <1>2 DEF GrownFindingsAreOpen

(***************************************************************************)
(* The groups.  The parents of active_resolution_groups form a forest:     *)
(* going from parent to parent ends at a root, from every entity of every  *)
(* set.                                                                    *)
(***************************************************************************)
Grounded(parent) ==
    \A B \in SUBSET DOMAIN parent :
        B # {} => \E y \in B : parent[y] = y \/ parent[y] \notin B

Rooted(parent, r) ==
    \A y \in DOMAIN parent :
        /\ parent[r[y]] = r[y]
        /\ r[y] = IF parent[y] = y THEN y ELSE r[parent[y]]

Forests(es) == {parent \in [es -> es] : /\ Grounded(parent)
                                        /\ \E r \in [es -> es] : Rooted(parent, r)}

\* In a forest Root has one value, and it is a root.
LEMMA RootIs ==
  ASSUME NEW es, NEW parent \in [es -> es], Grounded(parent),
         NEW r \in [es -> es], Rooted(parent, r), NEW x \in es
  PROVE  Root(parent, x) = r[x]
<1> DEFINE Body(f) == [y \in es |-> IF parent[y] = y THEN y ELSE f[parent[y]]]
           root == CHOOSE f : f = Body(f)
<1>1. Root(parent, x) = root[x]
  BY DEF Root
<1>2. r = Body(r)
  BY DEF Rooted
<1>3. root = Body(root)
  BY <1>2
<1> HIDE DEF root
<1>4. \A y \in es : root[y] = IF parent[y] = y THEN y ELSE root[parent[y]]
  BY <1>3
<1>5. \A y \in es : r[y] = IF parent[y] = y THEN y ELSE r[parent[y]]
  BY DEF Rooted
<1> DEFINE B == {y \in es : root[y] # r[y]}
<1>6. ASSUME B # {} PROVE FALSE
  <2>1. PICK y \in B : parent[y] = y \/ parent[y] \notin B
    BY <1>6 DEF Grounded
  <2>2. y \in es /\ parent[y] \in es /\ root[y] # r[y]
    BY <2>1
  <2>3. CASE parent[y] = y
    BY <1>4, <1>5, <2>2, <2>3
  <2>4. CASE parent[y] # y
    <3>1. root[parent[y]] = r[parent[y]]
      BY <2>1, <2>2, <2>4
    <3> QED
      BY <1>4, <1>5, <2>2, <2>4, <3>1
  <2> QED
    BY <2>3, <2>4
<1> QED
  BY <1>1, <1>6

LEMMA ForestRoots ==
  ASSUME NEW es, NEW parent \in Forests(es)
  PROVE  \E r \in [es -> es] : Rooted(parent, r) /\ \A x \in es : Root(parent, x) = r[x]
<1>1. parent \in [es -> es] /\ Grounded(parent)
  BY DEF Forests
<1>2. PICK r \in [es -> es] : Rooted(parent, r)
  BY DEF Forests
<1> QED
  BY <1>1, <1>2, RootIs

\* At first every entity is a group of its own.
LEMMA FirstForest ==
  ASSUME NEW es
  PROVE  /\ [e \in es |-> e] \in Forests(es)
         /\ \A x \in es : Root([e \in es |-> e], x) = x
<1> DEFINE id == [e \in es |-> e]
<1>1. id \in [es -> es] /\ Rooted(id, id) /\ Grounded(id)
  BY DEF Rooted, Grounded
<1>2. \A x \in es : id[x] = x
  OBVIOUS
<1> HIDE DEF id
<1>3. id \in Forests(es)
  BY <1>1 DEF Forests
<1>4. \A x \in es : Root(id, x) = x
  BY <1>1, <1>2, RootIs
<1> QED
  BY <1>3, <1>4 DEF id

\* A merge joins the groups of its two entities and no other.
LEMMA LinkForest ==
  ASSUME NEW es, NEW parent \in Forests(es), NEW pair, pair[1] \in es, pair[2] \in es
  PROVE  /\ Link(parent, pair) \in Forests(es)
         /\ \A x \in es :
              Root(Link(parent, pair), x) =
                  IF Root(parent, x) = Root(parent, pair[2]) THEN Root(parent, pair[1])
                  ELSE Root(parent, x)
<1>1. PICK r \in [es -> es] : Rooted(parent, r) /\ \A x \in es : Root(parent, x) = r[x]
  BY ForestRoots
<1>2. parent \in [es -> es] /\ Grounded(parent)
  BY DEF Forests
<1> DEFINE a == r[pair[1]]
           b == r[pair[2]]
           linked == [parent EXCEPT ![b] = a]
           s == [y \in es |-> IF r[y] = b THEN a ELSE r[y]]
<1>3. /\ a \in es /\ b \in es
      /\ parent[a] = a /\ parent[b] = b /\ r[a] = a /\ r[b] = b
  BY <1>1, <1>2 DEF Rooted
<1>4. Link(parent, pair) = linked
  BY <1>1, <1>2 DEF Link
<1>5. /\ \A y \in es : r[y] \in es /\ parent[y] \in es /\ parent[r[y]] = r[y]
      /\ \A y \in es : r[y] = IF parent[y] = y THEN y ELSE r[parent[y]]
  BY <1>1, <1>2 DEF Rooted
<1> HIDE DEF a, b
<1>6. /\ linked \in [es -> es] /\ s \in [es -> es]
      /\ linked[b] = a /\ \A y \in es : y # b => linked[y] = parent[y]
      /\ \A y \in es : s[y] = IF r[y] = b THEN a ELSE r[y]
  BY <1>1, <1>2, <1>3
<1> HIDE DEF linked, s
<1>7. Rooted(linked, s)
  <2>1. ASSUME NEW y \in es PROVE linked[s[y]] = s[y]
    BY <1>3, <1>5, <1>6
  <2>2. ASSUME NEW y \in es
        PROVE  s[y] = IF linked[y] = y THEN y ELSE s[linked[y]]
    <3>1. CASE y = b
      BY <1>3, <1>6, <3>1
    <3>2. CASE y # b
      BY <1>3, <1>5, <1>6, <3>2
    <3> QED
      BY <3>1, <3>2
  <2> QED
    BY <1>6, <2>1, <2>2 DEF Rooted
<1>8. Grounded(linked)
  <2> SUFFICES ASSUME NEW B \in SUBSET es, B # {}
               PROVE  \E y \in B : linked[y] = y \/ linked[y] \notin B
    BY <1>6 DEF Grounded
  <2> DEFINE Other == {y \in B : r[y] # b}
  <2>1. CASE Other # {}
    <3>1. PICK y \in Other : parent[y] = y \/ parent[y] \notin Other
      BY <1>2, <2>1 DEF Grounded
    <3>2. y \in es /\ r[y] # b /\ y # b
      BY <1>3, <3>1
    <3>3. linked[y] = parent[y] /\ r[parent[y]] # b
      BY <1>5, <1>6, <3>2
    <3> QED
      BY <3>1, <3>2, <3>3
  <2>2. CASE Other = {}
    <3>1. \A y \in B : r[y] = b
      BY <2>2
    <3>2. PICK y \in B : parent[y] = y \/ parent[y] \notin B
      BY <1>2 DEF Grounded
    <3>3. CASE y = b
      <4>1. linked[y] = a /\ (a = b \/ a \notin B)
        BY <1>3, <1>6, <3>1, <3>3
      <4> QED
        BY <3>3, <4>1
    <3>4. CASE y # b
      <4>1. linked[y] = parent[y] /\ y \in es
        BY <1>6, <3>4
      <4> QED
        BY <3>2, <4>1
    <3> QED
      BY <3>3, <3>4
  <2> QED
    BY <2>1, <2>2
<1>9. linked \in Forests(es)
  BY <1>6, <1>7, <1>8 DEF Forests
<1>10. \A x \in es : Root(linked, x) = s[x]
  BY <1>6, <1>7, <1>8, RootIs
<1> QED
  BY <1>1, <1>4, <1>6, <1>9, <1>10 DEF a, b

(***************************************************************************)
(* The merges that stand and join two of the entities es, and the sets     *)
(* that none of the first n decisions joins to the rest.                   *)
(***************************************************************************)
Standing(es, ds) ==
    {i \in Active(ds) : ds[i].pair[1] \in es /\ ds[i].pair[2] \in es}

Closed(C, es, ds, n) ==
    \A i \in Standing(es, ds) :
        i <= n => (ds[i].pair[1] \in C <=> ds[i].pair[2] \in C)

\* The forest after the first n decisions: entities merged by them share their
\* root, and only entities that no closed set separates do.
Finds(parent, es, ds, n) ==
    /\ parent \in Forests(es)
    /\ \A i \in Standing(es, ds) :
         i <= n => Root(parent, ds[i].pair[1]) = Root(parent, ds[i].pair[2])
    /\ \A C \in SUBSET es :
         Closed(C, es, ds, n) =>
             \A x, y \in es : Root(parent, x) = Root(parent, y) => (x \in C <=> y \in C)

LEMMA FindsFirst ==
  ASSUME NEW es, NEW ds \in Seq(Resolutions)
  PROVE  Finds([e \in es |-> e], es, ds, 0)
<1> DEFINE id == [e \in es |-> e]
<1>1. id \in Forests(es) /\ \A x \in es : Root(id, x) = x
  BY FirstForest
<1>2. \A i \in Standing(es, ds) : ~(i <= 0)
  BY DEF Standing, Active, Merges
<1> HIDE DEF id
<1>3. Finds(id, es, ds, 0)
  BY <1>1, <1>2 DEF Finds
<1> QED
  BY <1>3 DEF id

\* One decision more.
NextParent(parent, ds, i) ==
    IF i \in Active(ds) THEN Link(parent, ds[i].pair) ELSE parent

LEMMA FindsNext ==
  ASSUME NEW es, NEW ds \in Seq(Resolutions), NEW n \in 0..(Len(ds) - 1),
         NEW parent, Finds(parent, es, ds, n)
  PROVE  Finds(NextParent(parent, ds, n + 1), es, ds, n + 1)
<1> DEFINE after == NextParent(parent, ds, n + 1)
<1>1. parent \in Forests(es) /\ parent \in [es -> es]
  BY DEF Finds, Forests
<1>2. \A i \in Standing(es, ds) : i \in Nat /\ (i <= n + 1 <=> i <= n \/ i = n + 1)
  BY DEF Standing, Active, Merges
<1>3. CASE n + 1 \notin Standing(es, ds)
  <2>1. after = parent
    BY <1>1, <1>3 DEF NextParent, Link, Standing
  <2>2. \A C : Closed(C, es, ds, n + 1) <=> Closed(C, es, ds, n)
    BY <1>2, <1>3 DEF Closed
  <2>3. \A i \in Standing(es, ds) : i <= n + 1 => i <= n
    BY <1>2, <1>3
  <2> QED
    BY <2>1, <2>2, <2>3 DEF Finds
<1>4. CASE n + 1 \in Standing(es, ds)
  <2> DEFINE pair == ds[n + 1].pair
             a == Root(parent, pair[1])
             b == Root(parent, pair[2])
             old(x) == Root(parent, x)
             new(x) == Root(after, x)
  <2>1. pair[1] \in es /\ pair[2] \in es /\ after = Link(parent, pair)
    BY <1>4 DEF NextParent, Standing
  <2>2. /\ after \in Forests(es)
        /\ \A x \in es : new(x) = IF old(x) = b THEN a ELSE old(x)
    BY <1>1, <2>1, LinkForest
  <2>3. ASSUME NEW i \in Standing(es, ds), i <= n + 1
        PROVE  new(ds[i].pair[1]) = new(ds[i].pair[2])
    <3>1. ds[i].pair[1] \in es /\ ds[i].pair[2] \in es
      BY DEF Standing
    <3>2. CASE i <= n
      <4>1. old(ds[i].pair[1]) = old(ds[i].pair[2])
        BY <3>2 DEF Finds
      <4> QED
        BY <2>2, <3>1, <4>1
    <3>3. CASE i = n + 1
      BY <2>1, <2>2, <3>3
    <3> QED
      BY <1>2, <2>3, <3>2, <3>3
  <2>4. ASSUME NEW C \in SUBSET es, Closed(C, es, ds, n + 1),
               NEW x \in es, NEW y \in es, new(x) = new(y)
        PROVE  x \in C <=> y \in C
    <3>1. Closed(C, es, ds, n) /\ (pair[1] \in C <=> pair[2] \in C)
      BY <1>2, <1>4, <2>4 DEF Closed
    <3>2. \A u, v \in es : old(u) = old(v) => (u \in C <=> v \in C)
      BY <3>1 DEF Finds
    <3> HIDE DEF pair, old, new
    <3>3. \A u \in es : /\ old(u) = b => (u \in C <=> pair[2] \in C)
                        /\ old(u) = a => (u \in C <=> pair[1] \in C)
      BY <2>1, <3>2 DEF old
    <3> QED
      BY <2>2, <2>4, <3>1, <3>2, <3>3
  <2> QED
    BY <2>2, <2>3, <2>4 DEF Finds
<1> QED
  BY <1>3, <1>4

\* So active_resolution_groups ends with a forest of the standing merges.
LEMMA ParentsFind ==
  ASSUME NEW es, NEW ds \in Seq(Resolutions)
  PROVE  Finds(Parents(es, ds), es, ds, Len(ds))
<1> DEFINE n == Len(ds)
           first == [e \in es |-> e]
           T == Forests(es)
           g == [i \in 1..n |-> [parent \in T |-> NextParent(parent, ds, i)]]
           Body(f) == [i \in 0..n |-> IF i = 0 THEN first
                                      ELSE NextParent(f[i - 1], ds, i)]
           after == CHOOSE f : f = Body(f)
<1>1. n \in Nat
  OBVIOUS
<1>2. Parents(es, ds) = after[n]
  BY DEF Parents, NextParent
<1> HIDE DEF n, first
<1>3. first \in T
  BY FirstForest DEF first
<1>4. ASSUME NEW i \in 1..n, NEW parent \in T PROVE NextParent(parent, ds, i) \in T
  <2>1. parent \in [es -> es]
    BY DEF Forests
  <2> QED
    BY <2>1, LinkForest DEF NextParent, Link
<1>5. g \in [1..n -> [T -> T]]
  BY <1>4
<1>6. \A i \in 1..n, parent \in T : g[i][parent] = NextParent(parent, ds, i)
  OBVIOUS
<1> HIDE DEF g, T
<1>7. PICK f \in Solutions(n, T, first, g) : TRUE
  BY <1>1, <1>3, <1>5, RecursionUpTo
<1>8. f = Body(f)
  <2>1. ASSUME NEW i \in 0..n, i # 0 PROVE f[i] = NextParent(f[i - 1], ds, i)
    <3>1. i \in 1..n /\ i - 1 \in 0..n
      BY <1>1, <2>1
    <3>2. f[i] = g[i][f[i - 1]] /\ f[i - 1] \in T
      BY <3>1 DEF Solutions
    <3> QED
      BY <1>6, <3>1, <3>2
  <2> QED
    BY <2>1 DEF Solutions
<1>9. after = Body(after)
  BY <1>8
<1> HIDE DEF after
<1>10. /\ after[0] = first
       /\ \A i \in 1..n : after[i] = NextParent(after[i - 1], ds, i)
  <2>1. \A i \in 0..n : after[i] = IF i = 0 THEN first ELSE NextParent(after[i - 1], ds, i)
    BY <1>9
  <2> QED
    BY <1>1, <2>1
<1> DEFINE S == {i \in 0..n : Finds(after[i], es, ds, i)}
<1>11. 0 \in S
  BY <1>1, <1>10, FindsFirst DEF first
<1>12. ASSUME NEW i \in 0..(n - 1), i \in S PROVE i + 1 \in S
  <2>1. i + 1 \in 1..n /\ i + 1 \in 0..n /\ (i + 1) - 1 = i
    BY <1>1
  <2>2. Finds(NextParent(after[i], ds, i + 1), es, ds, i + 1)
    BY <1>12, FindsNext DEF n
  <2> QED
    BY <1>10, <2>1, <2>2
<1>13. n \in S
  <2> HIDE DEF S
  <2>1. 0..n \subseteq S
    BY <1>1, <1>11, <1>12, UpTo
  <2> QED
    BY <1>1, <2>1
<1> QED
  BY <1>2, <1>13 DEF n

\* Joined walks over the merges that stand, to the least closed set.
LEMMA JoinedLeast ==
  ASSUME NEW es, IsFiniteSet(es), NEW e \in es, NEW ds \in Seq(Resolutions)
  PROVE  /\ e \in Joined(e, es, ds)
         /\ Joined(e, es, ds) \in SUBSET es
         /\ Closed(Joined(e, es, ds), es, ds, Len(ds))
         /\ \A C \in SUBSET es :
              e \in C /\ Closed(C, es, ds, Len(ds)) => Joined(e, es, ds) \subseteq C
<1> DEFINE standing == {i \in Merges(ds) : \A j \in Splits(ds) : ds[j].reverses # i}
           edges == {{ds[i].pair[1], ds[i].pair[2]} : i \in standing}
           Beside(W) == {g \in es : \E f \in W : {f, g} \in edges}
           c == Cardinality(es)
           beside == [W \in SUBSET es |-> Beside(W)]
           T == SUBSET es
           g == [i \in 1..c |-> [W \in T |-> W \union beside[W]]]
           Body(h) == [n \in 0..c |-> IF n = 0 THEN {e}
                                      ELSE h[n - 1] \union Beside(h[n - 1])]
           w == CHOOSE h : h = Body(h)
<1>1. Joined(e, es, ds) = w[c]
  BY DEF Joined
<1>2. standing = Active(ds)
  BY DEF Active, Reversed
<1>3. c \in Nat
  BY FS_CardinalityType
<1> HIDE DEF edges, c
<1>4. beside \in [SUBSET es -> SUBSET es] /\ \A W \in T : beside[W] = Beside(W)
  OBVIOUS
<1>5. {e} \in T
  OBVIOUS
<1> HIDE DEF beside
<1>6. g \in [1..c -> [T -> T]] /\ \A i \in 1..c, W \in T : g[i][W] = W \union beside[W]
  BY <1>4
<1> HIDE DEF g, T
<1>7. PICK h \in Solutions(c, T, {e}, g) : TRUE
  BY <1>3, <1>5, <1>6, RecursionUpTo
<1> USE DEF T
<1>8. h \in [0..c -> T] /\ h[0] = {e} /\ \A i \in 1..c : h[i] = g[i][h[i - 1]]
  BY DEF Solutions
<1>9. ASSUME NEW i \in 1..c
      PROVE  i - 1 \in 0..c /\ h[i - 1] \in T /\ h[i] = h[i - 1] \union Beside(h[i - 1])
  <2>1. i - 1 \in 0..c
    BY <1>3
  <2>2. h[i - 1] \in T /\ h[i] = g[i][h[i - 1]]
    BY <1>8, <2>1
  <2> QED
    BY <1>4, <1>6, <2>1, <2>2
<1>10. h = Body(h)
  <2>1. ASSUME NEW i \in 0..c, i # 0 PROVE h[i] = h[i - 1] \union Beside(h[i - 1])
    <3>1. i \in 1..c
      BY <1>3, <2>1
    <3> QED
      BY <1>9, <3>1
  <2> HIDE DEF Beside
  <2> QED
    BY <1>8, <2>1
<1>11. w = Body(w)
  BY <1>10
<1> HIDE DEF w
<1>12. /\ w \in [0..c -> SUBSET es]
       /\ w[0] = {e}
       /\ \A i \in 1..c : w[i] = w[i - 1] \union beside[w[i - 1]]
  <2> DEFINE U == {i \in 0..c : w[i] \in T}
  <2>1. w[0] = {e} /\ \A i \in 1..c : i - 1 \in 0..c /\ w[i] = w[i - 1] \union Beside(w[i - 1])
    <3>1. ASSUME NEW i \in 0..c
          PROVE  w[i] = IF i = 0 THEN {e} ELSE w[i - 1] \union Beside(w[i - 1])
      <4> HIDE DEF Beside
      <4> QED
        BY <1>11
    <3>2. w[0] = {e}
      <4>1. 0 \in 0..c
        BY <1>3
      <4> HIDE DEF Beside
      <4> QED
        BY <3>1, <4>1, Zenon
    <3>3. ASSUME NEW i \in 1..c
          PROVE  i - 1 \in 0..c /\ w[i] = w[i - 1] \union Beside(w[i - 1])
      <4>1. i \in 0..c /\ i # 0 /\ i - 1 \in 0..c
        BY <1>3
      <4> HIDE DEF Beside
      <4> QED
        BY <3>1, <4>1
    <3> HIDE DEF Beside
    <3> QED
      BY <3>2, <3>3
  <2>2. 0 \in U
    BY <1>3, <1>5, <2>1
  <2>3. ASSUME NEW i \in 0..(c - 1), i \in U PROVE i + 1 \in U
    <3>1. i + 1 \in 1..c /\ i + 1 \in 0..c /\ (i + 1) - 1 = i
      BY <1>3
    <3>2. w[i + 1] = w[i] \union Beside(w[i])
      <4> HIDE DEF Beside
      <4> QED
        BY <2>1, <3>1
    <3> QED
      BY <2>3, <3>1, <3>2
  <2>4. 0..c \subseteq U
    <3> HIDE DEF U
    <3> QED
      BY <1>3, <2>2, <2>3, UpTo
  <2>5. \A i \in 0..c : w[i] \in T
    BY <2>4
  <2>6. w = [i \in 0..c |-> w[i]]
    BY <1>11
  <2> QED
    BY <1>4, <2>1, <2>5, <2>6
<1>13. /\ e \in w[c]
       /\ w[c] \in SUBSET es
       /\ beside[w[c]] \subseteq w[c]
       /\ \A C \in SUBSET es :
            e \in C /\ (\A V \in SUBSET C : beside[V] \subseteq C) => w[c] \subseteq C
  <2>1. c = Cardinality(es) /\ beside \in [SUBSET es -> SUBSET es]
    BY <1>4 DEF c
  <2>2. LeastAround(w[c], e, es, beside)
    BY <1>3, <1>12, <2>1, ReachesAll
  <2> QED
    BY <2>2 DEF LeastAround
<1> HIDE DEF standing
<1>14. ASSUME NEW C \in SUBSET es
       PROVE  Closed(C, es, ds, Len(ds)) <=> \A V \in SUBSET C : Beside(V) \subseteq C
  <2> USE DEF Beside, edges
  <2>1. \A i \in Standing(es, ds) : i \in standing /\ i <= Len(ds)
    BY <1>2 DEF Standing, Active, Merges
  <2>2. ASSUME Closed(C, es, ds, Len(ds)), NEW V \in SUBSET C, NEW x \in Beside(V)
        PROVE  x \in C
    <3>1. PICK f \in V : {f, x} \in edges
      OBVIOUS
    <3>2. PICK i \in standing : {f, x} = {ds[i].pair[1], ds[i].pair[2]}
      BY <3>1
    <3>3. i \in Standing(es, ds)
      BY <1>2, <3>2 DEF Standing
    <3> DEFINE y == ds[i].pair[1]
               z == ds[i].pair[2]
    <3>4. y \in C <=> z \in C
      BY <2>1, <2>2, <3>3 DEF Closed
    <3>5. f \in C /\ {f, x} = {y, z}
      BY <3>2
    <3> HIDE DEF y, z
    <3> QED
      BY <3>4, <3>5
  <2>3. ASSUME \A V \in SUBSET C : Beside(V) \subseteq C, NEW i \in Standing(es, ds)
        PROVE  ds[i].pair[1] \in C <=> ds[i].pair[2] \in C
    <3> DEFINE x == ds[i].pair[1]
               y == ds[i].pair[2]
    <3>1. {x, y} \in edges /\ {y, x} \in edges /\ x \in es /\ y \in es
      BY <2>1 DEF Standing
    <3>2. x \in C => y \in Beside(C)
      BY <3>1
    <3>3. y \in C => x \in Beside(C)
      BY <3>1
    <3> QED
      BY <2>3, <3>2, <3>3
  <2> QED
    BY <2>2, <2>3 DEF Closed
<1>15. ASSUME NEW C \in SUBSET es, Beside(C) \subseteq C, NEW V \in SUBSET C
       PROVE  Beside(V) \subseteq C
  BY <1>15
<1>16. beside[w[c]] = Beside(w[c]) /\ \A C \in SUBSET es : \A V \in SUBSET C : beside[V] = Beside(V)
  BY <1>4, <1>13
<1> HIDE DEF Beside
<1>17. Closed(w[c], es, ds, Len(ds))
  BY <1>13, <1>14, <1>15, <1>16
<1>18. \A C \in SUBSET es : e \in C /\ Closed(C, es, ds, Len(ds)) => w[c] \subseteq C
  <2> SUFFICES ASSUME NEW C \in SUBSET es, e \in C, Closed(C, es, ds, Len(ds))
               PROVE  w[c] \subseteq C
    OBVIOUS
  <2>1. \A V \in SUBSET C : Beside(V) \subseteq C
    BY <1>14
  <2>2. \A V \in SUBSET C : beside[V] \subseteq C
    BY <1>16, <2>1
  <2> QED
    BY <1>13, <2>2
<1> QED
  BY <1>1, <1>13, <1>17, <1>18

\* What shares a root is what is joined.
SameRoot(x, es, ds) ==
    {y \in es : Root(Parents(es, ds), y) = Root(Parents(es, ds), x)}

LEMMA SameRootIsJoined ==
  ASSUME NEW es, IsFiniteSet(es), NEW ds \in Seq(Resolutions)
  PROVE  \A e \in es : SameRoot(e, es, ds) = Joined(e, es, ds)
<1> DEFINE parent == Parents(es, ds)
           n == Len(ds)
           root(x) == Root(parent, x)
           class(x) == {y \in es : root(y) = root(x)}
<1>1. Finds(parent, es, ds, n)
  BY ParentsFind
<1> HIDE DEF parent, n
<1>2. ASSUME NEW e \in es PROVE class(e) = Joined(e, es, ds)
  <2> DEFINE J == Joined(e, es, ds)
  <2>1. /\ e \in J /\ J \in SUBSET es /\ Closed(J, es, ds, n)
        /\ \A C \in SUBSET es : e \in C /\ Closed(C, es, ds, n) => J \subseteq C
    BY JoinedLeast DEF n
  <2> HIDE DEF J
  <2>2. Closed(class(e), es, ds, n)
    <3>1. ASSUME NEW i \in Standing(es, ds), i <= n
          PROVE  ds[i].pair[1] \in class(e) <=> ds[i].pair[2] \in class(e)
      <4>1. /\ ds[i].pair[1] \in es /\ ds[i].pair[2] \in es
            /\ root(ds[i].pair[1]) = root(ds[i].pair[2])
        BY <1>1, <3>1 DEF Finds, Standing
      <4> QED
        BY <4>1
    <3> QED
      BY <3>1 DEF Closed
  <2>3. e \in class(e) /\ class(e) \in SUBSET es
    OBVIOUS
  <2>4. J \subseteq class(e)
    <3> HIDE DEF class
    <3> QED
      BY <2>1, <2>2, <2>3
  <2>5. \A x \in es : root(x) = root(e) => x \in J
    BY <1>1, <2>1 DEF Finds
  <2> QED
    BY <2>4, <2>5 DEF J
<1> QED
  BY <1>2 DEF SameRoot, parent

\* The groups are the sets of joined entities, each known by any of its members.
LEMMA GroupsAreJoined ==
  ASSUME NEW es, IsFiniteSet(es), NEW ds \in Seq(Resolutions)
  PROVE  /\ Groups(es, ds) = {Joined(e, es, ds) : e \in es}
         /\ \A group \in Groups(es, ds) : \A e \in group :
              e \in es /\ group = Joined(e, es, ds)
<1>1. Groups(es, ds) = {SameRoot(f, es, ds) : f \in es}
  <2> DEFINE r == [e \in es |-> Root(Parents(es, ds), e)]
             class(f) == {e \in es : r[e] = r[f]}
  <2>1. Groups(es, ds) = {class(f) : f \in es}
    BY DEF Groups
  <2>2. \A f \in es : class(f) = SameRoot(f, es, ds)
    BY DEF SameRoot
  <2> HIDE DEF class
  <2> QED
    BY <2>1, <2>2
<1>2. \A f \in es : \A e \in SameRoot(f, es, ds) :
        e \in es /\ SameRoot(f, es, ds) = SameRoot(e, es, ds)
  BY DEF SameRoot
<1>3. \A e \in es : SameRoot(e, es, ds) = Joined(e, es, ds)
  BY SameRootIsJoined
<1> QED
  BY <1>1, <1>2, <1>3

\* The groups are the components, after every history.
LEMMA ComponentsNow == TypeOK => GroupsAreComponents
<1> SUFFICES ASSUME TypeOK PROVE GroupsAreComponents
  OBVIOUS
<1>1. IsFiniteSet(known) /\ decisions \in Seq(Resolutions)
  <2>1. known \in SUBSET Entities
    BY DEF TypeOK
  <2> QED
    BY <2>1, DecisionsAssumption, FS_Subset DEF TypeOK
<1> QED
  BY <1>1, GroupsAreJoined DEF GroupsAreComponents

\* "the group may remain connected": the groups rendered are exactly the entities
\* connected by merges that stand (active_resolution_groups).
THEOREM GroupsHold == Spec => []GroupsAreComponents
<1>1. IInv => GroupsAreComponents
  BY ComponentsNow DEF IInv
<1> QED
  BY <1>1, Invariant, PTL

(***************************************************************************)
(* What a page is made of is older than the case: entities are only added, *)
(* and so are decisions.                                                   *)
(***************************************************************************)
Rendered(page) ==
    /\ page.upto \in 0..Len(decisions)
    /\ \E es \in SUBSET known :
         page.groups = Groups(es, SubSeq(decisions, 1, page.upto))

PagesInv ==
    \A a \in Analysts :
        /\ analyst[a].pc = "reading" => analyst[a].entities \subseteq known
        /\ analyst[a].pc = "rendered" => Rendered(analyst[a])

\* A row more does not change what a page was made of.
LEMMA StillRendered ==
  ASSUME TypeOK, NEW page, Rendered(page), known \subseteq known',
         \/ decisions' = decisions
         \/ \E row : decisions' = Append(decisions, row)
  PROVE  /\ page.upto \in 0..Len(decisions')
         /\ \E es \in SUBSET known' :
              page.groups = Groups(es, SubSeq(decisions', 1, page.upto))
<1>1. PICK es \in SUBSET known : page.groups = Groups(es, SubSeq(decisions, 1, page.upto))
  BY DEF Rendered
<1>2. page.upto \in 0..Len(decisions) /\ decisions \in Seq(Resolutions)
  BY DEF Rendered, TypeOK
<1> DEFINE n == page.upto
<1>3. CASE decisions' = decisions
  <2>1. es \in SUBSET known'
    OBVIOUS
  <2> QED
    BY <1>1, <1>2, <1>3, <2>1
<1>4. ASSUME NEW row, decisions' = Append(decisions, row)
      PROVE  n \in 0..Len(decisions') /\ SubSeq(decisions', 1, n) = SubSeq(decisions, 1, n)
  <2> HIDE DEF n
  <2>1. n \in 0..Len(decisions)
    BY <1>2 DEF n
  <2> DEFINE d == decisions
             t == decisions'
             m == Len(d)
  <2>2. m \in Nat /\ Len(t) = m + 1 /\ \A i \in 1..m : t[i] = d[i]
    BY <1>2, <1>4
  <2>3. SubSeq(d, 1, n) = [i \in 1..n |-> d[i]] /\ SubSeq(t, 1, n) = [i \in 1..n |-> t[i]]
    BY <2>1
  <2> HIDE DEF d, t, m
  <2>4. n \in 0..m
    BY <2>1 DEF m, d
  <2>5. n \in 0..Len(t) /\ \A i \in 1..n : t[i] = d[i]
    BY <2>2, <2>4
  <2>6. SubSeq(t, 1, n) = SubSeq(d, 1, n)
    BY <2>3, <2>5
  <2> QED
    BY <2>5, <2>6 DEF d, t
<1> QED
  BY <1>1, <1>3, <1>4

\* The file and the entities only grow.
LEMMA OnlyGrows ==
  ASSUME TypeOK, [Next]_vars
  PROVE  /\ known \subseteq known'
         /\ decisions' = decisions \/ \E row : decisions' = Append(decisions, row)
<1>1. CASE UNCHANGED vars
  BY <1>1 DEF vars
<1>2. CASE RecordEntity
  BY <1>2 DEF RecordEntity
<1>3. ASSUME NEW a \in Analysts,
             \/ CheckMerge(a) \/ CheckSplit(a) \/ Judge(a) \/ RecordReview(a)
             \/ GiveUp(a) \/ ReadEntities(a) \/ Render(a) \/ Publish(a)
      PROVE  UNCHANGED <<known, decisions>>
  BY <1>3 DEF CheckMerge, CheckSplit, Judge, RecordReview, GiveUp, ReadEntities,
              Render, Publish
<1>4. ASSUME NEW a \in Analysts, RecordDecision(a)
      PROVE  known' = known /\ decisions' = Append(decisions, analyst[a].row)
  BY <1>4 DEF RecordDecision
<1> QED
  BY <1>1, <1>2, <1>3, <1>4 DEF Next

\* What an analyst has read stays part of the case, whoever moves.
LEMMA PagesStep == TypeOK /\ PagesInv /\ [Next]_vars => PagesInv'
<1> SUFFICES ASSUME TypeOK, PagesInv, [Next]_vars PROVE PagesInv'
  OBVIOUS
<1> DEFINE Kept(b) == /\ analyst'[b].pc = "reading" => analyst'[b].entities \subseteq known'
                      /\ analyst'[b].pc = "rendered" => Rendered(analyst[b])'
<1>1. ASSUME NEW b \in Analysts, analyst'[b] = analyst[b] PROVE Kept(b)
  <2>1. PICK page : page = analyst[b]
    OBVIOUS
  <2>2. /\ page.pc = "reading" => page.entities \subseteq known
        /\ page.pc = "rendered" => Rendered(page)
    BY <2>1 DEF PagesInv
  <2>3. page.pc = "rendered" => Rendered(page)'
    BY OnlyGrows, <2>2, StillRendered DEF Rendered
  <2> QED
    BY <1>1, <2>1, <2>2, <2>3, OnlyGrows DEF Rendered
<1>2. ASSUME NEW a \in Analysts, NEW state, analyst' = [analyst EXCEPT ![a] = state],
             state.pc \notin {"reading", "rendered"}, NEW b \in Analysts
      PROVE  Kept(b)
  <2>1. analyst'[a] = state /\ \A c \in Analysts \ {a} : analyst'[c] = analyst[c]
    BY <1>2 DEF TypeOK
  <2> QED
    BY <1>1, <1>2, <2>1
<1>3. CASE UNCHANGED vars \/ RecordEntity
  <2>1. \A b \in Analysts : analyst'[b] = analyst[b]
    BY <1>3 DEF vars, RecordEntity
  <2>2. \A b \in Analysts : Kept(b)
    BY <1>1, <2>1
  <2> QED
    BY <2>2 DEF PagesInv
<1>4. ASSUME NEW a \in Analysts,
             \/ RecordDecision(a) \/ RecordReview(a) \/ GiveUp(a) \/ Publish(a)
      PROVE  PagesInv'
  <2>1. analyst' = [analyst EXCEPT ![a] = Idle] /\ Idle.pc \notin {"reading", "rendered"}
    BY <1>4 DEF RecordDecision, RecordReview, GiveUp, Publish, Goes, Idle
  <2>2. \A b \in Analysts : Kept(b)
    BY <1>2, <2>1
  <2> QED
    BY <2>2 DEF PagesInv
<1>5. ASSUME NEW a \in Analysts, CheckMerge(a) \/ CheckSplit(a) \/ Judge(a)
      PROVE  PagesInv'
  <2>1. \E state : /\ analyst' = [analyst EXCEPT ![a] = state]
                   /\ state.pc \in {"decided", "judged"}
    <3>1. ASSUME NEW row, NEW pc \in {"decided", "judged"},
                 analyst' = [analyst EXCEPT ![a] = [pc |-> pc, row |-> row]]
          PROVE  \E state : /\ analyst' = [analyst EXCEPT ![a] = state]
                            /\ state.pc \in {"decided", "judged"}
      <4> DEFINE state == [pc |-> pc, row |-> row]
      <4>1. state.pc \in {"decided", "judged"}
        OBVIOUS
      <4>2. analyst' = [analyst EXCEPT ![a] = state]
        BY <3>1
      <4> HIDE DEF state
      <4> QED
        BY <4>1, <4>2
    <3>2. \E row : \E pc \in {"decided", "judged"} :
            analyst' = [analyst EXCEPT ![a] = [pc |-> pc, row |-> row]]
      BY <1>5 DEF CheckMerge, CheckSplit, Judge, Goes
    <3> QED
      BY <3>1, <3>2
  <2>2. \A b \in Analysts : Kept(b)
    BY <1>2, <2>1
  <2> QED
    BY <2>2 DEF PagesInv
<1>6. ASSUME NEW a \in Analysts, ReadEntities(a) PROVE PagesInv'
  <2>1. /\ analyst'[a].pc = "reading" /\ analyst'[a].entities = known /\ known' = known
        /\ \A c \in Analysts \ {a} : analyst'[c] = analyst[c]
    BY <1>6 DEF ReadEntities, Goes, TypeOK
  <2>2. Kept(a)
    BY <2>1
  <2>3. \A b \in Analysts : Kept(b)
    BY <1>1, <2>1, <2>2
  <2> QED
    BY <2>3 DEF PagesInv
<1>7. ASSUME NEW a \in Analysts, Render(a) PROVE PagesInv'
  <2> DEFINE es == analyst[a].entities
             d == decisions
             page == [pc |-> "rendered", upto |-> Len(d), groups |-> Groups(es, d)]
  <2>1. /\ analyst'[a] = page /\ known' = known /\ decisions' = decisions
        /\ \A c \in Analysts \ {a} : analyst'[c] = analyst[c]
    BY <1>7 DEF Render, Goes, TypeOK
  <2>2. es \in SUBSET known /\ d \in Seq(Resolutions)
    BY <1>7 DEF Render, PagesInv, TypeOK
  <2>3. SubSeq(d, 1, Len(d)) = d /\ Len(d) \in 0..Len(d)
    <3> HIDE DEF d
    <3> QED
      BY <2>2
  <2>4. Rendered(page)
    BY <2>2, <2>3 DEF Rendered
  <2> HIDE DEF page
  <2>5. Rendered(analyst[a])'
    BY <2>1, <2>4 DEF Rendered
  <2>6. analyst'[a].pc = "rendered"
    BY <2>1 DEF page
  <2>7. \A b \in Analysts : Kept(b)
    BY <1>1, <2>1, <2>5, <2>6
  <2> QED
    BY <2>7 DEF PagesInv
<1> QED
  BY <1>3, <1>4, <1>5, <1>6, <1>7 DEF Next

\* With fewer entities and the same decisions, less is joined.
LEMMA JoinedInside ==
  ASSUME NEW all, IsFiniteSet(all), NEW es \in SUBSET all, NEW e \in es,
         NEW ds \in Seq(Resolutions)
  PROVE  Joined(e, es, ds) \subseteq Joined(e, all, ds)
<1> DEFINE J == Joined(e, all, ds)
           n == Len(ds)
           C == J \intersect es
<1>1. e \in J /\ J \in SUBSET all /\ Closed(J, all, ds, n)
  BY JoinedLeast
<1>2. IsFiniteSet(es)
  BY FS_Subset
<1> HIDE DEF J, n
<1>3. C \in SUBSET es /\ e \in C
  BY <1>1
<1>4. Closed(C, es, ds, n)
  <2>1. ASSUME NEW i \in Standing(es, ds), i <= n
        PROVE  ds[i].pair[1] \in C <=> ds[i].pair[2] \in C
    <3>1. /\ i \in Standing(all, ds)
          /\ ds[i].pair[1] \in es /\ ds[i].pair[2] \in es
      BY DEF Standing
    <3> QED
      BY <1>1, <2>1, <3>1 DEF Closed
  <2> QED
    BY <2>1 DEF Closed
<1>5. Joined(e, es, ds) \subseteq C
  BY <1>2, <1>3, <1>4, JoinedLeast DEF n
<1> QED
  BY <1>5 DEF J

\* So a page joins no more than its decisions join.
LEMMA SoundNow == TypeOK /\ PagesInv => PagesAreSound
<1> SUFFICES ASSUME TypeOK, PagesInv, NEW a \in Analysts, analyst[a].pc = "rendered",
                    NEW group \in analyst[a].groups, NEW e \in group
             PROVE  group \subseteq Joined(e, known, SubSeq(decisions, 1, analyst[a].upto))
  BY DEF PagesAreSound
<1> DEFINE ds == SubSeq(decisions, 1, analyst[a].upto)
<1>1. PICK es \in SUBSET known : analyst[a].groups = Groups(es, ds)
  BY DEF PagesInv, Rendered
<1>2. ds \in Seq(Resolutions)
  <2>1. decisions \in Seq(Resolutions) /\ analyst[a].upto \in 0..Len(decisions)
    BY DEF PagesInv, Rendered, TypeOK
  <2> DEFINE n == analyst[a].upto
             d == decisions
  <2> HIDE DEF n, d
  <2>2. d \in Seq(Resolutions) /\ n \in 0..Len(d)
    BY <2>1 DEF n, d
  <2>3. SubSeq(d, 1, n) \in Seq(Resolutions)
    BY <2>2
  <2> QED
    BY <2>3 DEF n, d
<1> HIDE DEF ds
<1>3. IsFiniteSet(known) /\ IsFiniteSet(es)
  <2>1. known \in SUBSET Entities /\ es \in SUBSET Entities
    BY DEF TypeOK
  <2> QED
    BY <2>1, DecisionsAssumption, FS_Subset
<1>4. e \in es /\ group = Joined(e, es, ds)
  BY <1>1, <1>2, <1>3, GroupsAreJoined
<1>5. Joined(e, es, ds) \subseteq Joined(e, known, ds)
  BY <1>2, <1>3, <1>4, JoinedInside
<1> QED
  BY <1>4, <1>5 DEF ds

\* A page joins only what its own decisions join, whatever was recorded between
\* its reading the entities and the decisions, and since (render_workbench).
THEOREM PagesHold == Spec => []PagesAreSound
<1>1. Init => PagesInv
  BY DEF Init, PagesInv, Idle
<1>2. IInv => TypeOK
  BY DEF IInv
<1> QED
  BY Invariant, <1>1, <1>2, PagesStep, SoundNow, PTL DEF Spec

=============================================================================
