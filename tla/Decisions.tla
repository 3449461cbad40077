------------------------------ MODULE Decisions ------------------------------
(***************************************************************************)
(* What analysts decide about the records of a case: that two entities are *)
(* one (merge), that they are not after all (split), and what is to be     *)
(* thought of a finding of the quality audit; and the pages rendered from  *)
(* these decisions.                                                        *)
(*                                                                         *)
(* Nothing is ever rewritten: each decision is a row appended by one       *)
(* transaction (_append_record, one step by CaseStore).  What it is based  *)
(* on is read before, without the lock.                                    *)
(***************************************************************************)
EXTENDS Integers, Sequences, FiniteSets

CONSTANTS Entities,       \* entity identifiers, in their sorted order
          Label,          \* the type and normalized label of each entity
          Unsourced,      \* bound: the entities that may come without a source
          Analysts,
          MaxDecisions,   \* bound: rows of resolutions.jsonl
          MaxReviews      \* bound: rows of audit_reviews.jsonl

ASSUME DecisionsAssumption ==
    /\ Entities \subseteq Nat
    /\ IsFiniteSet(Entities)
    /\ MaxDecisions \in Nat
    /\ MaxReviews \in Nat

VARIABLES known,       \* the entities recorded
          unsourced,   \* those of them that name no source
          decisions,   \* resolutions.jsonl
          reviews,     \* audit_reviews.jsonl
          analyst      \* what each analyst has read and is about to write

vars == <<known, unsourced, decisions, reviews, analyst>>

(***************************************************************************)
(* Resolutions.  A merge is named by its place in the file; a split names  *)
(* the merge it reverses.  "seen" is how many decisions the author of a    *)
(* split had read; it is not in the file.                                  *)
(***************************************************************************)
Pairs == {p \in Entities \X Entities : p[1] < p[2]}
Resolutions == [action: {"merge", "split"}, pair: Pairs, reverses: Nat, seen: Nat]

Merges(ds) == {i \in DOMAIN ds : ds[i].action = "merge"}
Splits(ds) == {i \in DOMAIN ds : ds[i].action = "split"}
Reversed(ds) == {ds[i].reverses : i \in Splits(ds)}

\* Variant: splits are not looked at.
Active_All(ds) == Merges(ds)

\* The merges active_resolution_groups goes through, in the order of the file.
Active(ds) == Merges(ds) \ Reversed(ds)

Root(parent, x) ==
    LET root[y \in DOMAIN parent] ==
            IF parent[y] = y THEN y ELSE root[parent[y]]
    IN  root[x]

\* Variant: the right entity, not its root, is linked.
Link_Entity(parent, pair) ==
    IF pair[1] \in DOMAIN parent /\ pair[2] \in DOMAIN parent
    THEN [parent EXCEPT ![pair[2]] = Root(parent, pair[1])]
    ELSE parent

Link(parent, pair) ==
    IF pair[1] \in DOMAIN parent /\ pair[2] \in DOMAIN parent
    THEN [parent EXCEPT ![Root(parent, pair[2])] = Root(parent, pair[1])]
    ELSE parent

Parents(entities, ds) ==
    LET active == Active(ds)
        after[i \in 0..Len(ds)] ==
            IF i = 0 THEN [e \in entities |-> e]
            ELSE IF i \in active THEN Link(after[i - 1], ds[i].pair)
            ELSE after[i - 1]
    IN  after[Len(ds)]

\* active_resolution_groups
Groups(entities, ds) ==
    LET parent == Parents(entities, ds)
        root == [e \in entities |-> Root(parent, e)]
    IN  {{e \in entities : root[e] = root[f]} : f \in entities}

\* The part of verify_case about row i: a split reverses a merge recorded
\* before it, of the same entities, and not yet reversed.
RowVerifies(ds, i) ==
    ds[i].action = "split" =>
        /\ ds[i].reverses \in 1..(i - 1)
        /\ ds[ds[i].reverses].action = "merge"
        /\ ds[ds[i].reverses].pair = ds[i].pair
        /\ \A j \in 1..(i - 1) :
              ds[j].action = "split" => ds[j].reverses # ds[i].reverses

HistoryVerifies == \A i \in DOMAIN decisions : RowVerifies(decisions, i)

(***************************************************************************)
(* The audit.  Of its findings the model has those about the case's        *)
(* integrity and about entities; those about sources, observations,        *)
(* claims, artifacts and provider runs name their records in the same way  *)
(* as these, and are reviewed like them.                                   *)
(***************************************************************************)
Categories == {"integrity", "duplicate-entity-candidate", "missing-entity-source"}
Findings == [category: Categories, ids: SUBSET Entities]

WithLabelOf(e, entities) == {f \in entities : Label[f] = Label[e]}

Duplicates(entities) ==
    {[category |-> "duplicate-entity-candidate", ids |-> WithLabelOf(e, entities)] :
        e \in {f \in entities : Cardinality(WithLabelOf(f, entities)) > 1}}

\* audit_case
Audit ==
    Duplicates(known) \union
    {[category |-> "missing-entity-source", ids |-> {e}] : e \in unsourced} \union
    (IF HistoryVerifies THEN {} ELSE {[category |-> "integrity", ids |-> {}]})

\* The two kinds of disposition that make a difference: "excused" stands for
\* "false-positive" and "resolved", "kept" for the others.
Dispositions == {"excused", "kept"}
Reviews == [found: Findings, disposition: Dispositions]

\* Variant: a finding is known by its category and one of its records.
SameFingerprint_FirstRecord(f, g) ==
    /\ f.category = g.category
    /\ f.ids = g.ids \/ f.ids \intersect g.ids # {}

\* The fingerprint covers the category and the records.
SameFingerprint(f, g) == f.category = g.category /\ f.ids = g.ids

\* The latest review of a finding decides.
Suppressed(f, rs) ==
    /\ f.category # "integrity"
    /\ \E i \in DOMAIN rs :
         /\ SameFingerprint(rs[i].found, f)
         /\ rs[i].disposition = "excused"
         /\ \A j \in (i + 1)..Len(rs) : ~SameFingerprint(rs[j].found, f)

(***************************************************************************)
(* The analysts.                                                           *)
(***************************************************************************)
Idle == [pc |-> "idle"]
Init ==
    /\ known = {}
    /\ unsourced = {}
    /\ decisions = <<>>
    /\ reviews = <<>>
    /\ analyst = [a \in Analysts |-> Idle]

Goes(a, state) == analyst' = [analyst EXCEPT ![a] = state]

\* add_entity takes an entity without sources, too.
RecordEntity ==
    /\ \E e \in Entities \ known :
         /\ known' = known \union {e}
         /\ unsourced' \in {unsourced, unsourced \union ({e} \intersect Unsourced)}
    /\ UNCHANGED <<decisions, reviews, analyst>>

\* Variant: the identifiers are not looked up.
CheckMerge_Unknown(a) ==
    /\ analyst[a].pc = "idle"
    /\ \E p \in Pairs :
         Goes(a, [pc |-> "decided",
                   row |-> [action |-> "merge", pair |-> p, reverses |-> 0,
                            seen |-> 0]])
    /\ UNCHANGED <<known, unsourced, decisions, reviews>>

\* record_resolution up to the row it will append.
CheckMerge(a) ==
    /\ analyst[a].pc = "idle"
    /\ \E p \in Pairs :
         /\ {p[1], p[2]} \subseteq known
         /\ Goes(a, [pc |-> "decided",
                      row |-> [action |-> "merge", pair |-> p, reverses |-> 0,
                               seen |-> 0]])
    /\ UNCHANGED <<known, unsourced, decisions, reviews>>

\* Variant: a merge may be reversed again.
CheckSplit_Again(a) ==
    /\ analyst[a].pc = "idle"
    /\ \E m \in Merges(decisions) :
         Goes(a, [pc |-> "decided",
                   row |-> [action |-> "split", pair |-> decisions[m].pair,
                            reverses |-> m, seen |-> Len(decisions)]])
    /\ UNCHANGED <<known, unsourced, decisions, reviews>>

CheckSplit(a) ==
    /\ analyst[a].pc = "idle"
    /\ \E m \in Merges(decisions) \ Reversed(decisions) :
         Goes(a, [pc |-> "decided",
                   row |-> [action |-> "split", pair |-> decisions[m].pair,
                            reverses |-> m, seen |-> Len(decisions)]])
    /\ UNCHANGED <<known, unsourced, decisions, reviews>>

RecordDecision(a) ==
    /\ analyst[a].pc = "decided"
    /\ Len(decisions) < MaxDecisions
    /\ decisions' = Append(decisions, analyst[a].row)
    /\ Goes(a, Idle)
    /\ UNCHANGED <<known, unsourced, reviews>>

\* review_finding audits the case first.
Judge(a) ==
    /\ analyst[a].pc = "idle"
    /\ \E f \in Audit, d \in Dispositions :
         /\ f.category = "integrity" => d = "kept"
         /\ Goes(a, [pc |-> "judged", row |-> [found |-> f, disposition |-> d]])
    /\ UNCHANGED <<known, unsourced, decisions, reviews>>

RecordReview(a) ==
    /\ analyst[a].pc = "judged"
    /\ Len(reviews) < MaxReviews
    /\ reviews' = Append(reviews, analyst[a].row)
    /\ Goes(a, Idle)
    /\ UNCHANGED <<known, unsourced, decisions>>

\* The row is refused: the case was closed or a journal is pending.
GiveUp(a) ==
    /\ analyst[a].pc \in {"decided", "judged"}
    /\ Goes(a, Idle)
    /\ UNCHANGED <<known, unsourced, decisions, reviews>>

\* The workbench and the graph exports verify the case, read the entities and
\* want a source for each; the decisions are read later.
ReadEntities(a) ==
    /\ analyst[a].pc = "idle"
    /\ HistoryVerifies
    /\ unsourced = {}
    /\ Goes(a, [pc |-> "reading", entities |-> known])
    /\ UNCHANGED <<known, unsourced, decisions, reviews>>

Render(a) ==
    /\ analyst[a].pc = "reading"
    /\ Goes(a, [pc |-> "rendered", upto |-> Len(decisions),
                groups |-> Groups(analyst[a].entities, decisions)])
    /\ UNCHANGED <<known, unsourced, decisions, reviews>>

\* The page, the graph or the tables are written and the ledger notes it.
Publish(a) ==
    /\ analyst[a].pc = "rendered"
    /\ Goes(a, Idle)
    /\ UNCHANGED <<known, unsourced, decisions, reviews>>

Next ==
    \/ RecordEntity
    \/ \E a \in Analysts :
          \/ CheckMerge(a) \/ CheckSplit(a) \/ RecordDecision(a)
          \/ Judge(a) \/ RecordReview(a) \/ GiveUp(a)
          \/ ReadEntities(a) \/ Render(a) \/ Publish(a)

Spec == Init /\ [][Next]_vars

=============================================================================
