--------------------------- MODULE DecisionsProps ---------------------------
(***************************************************************************)
(* What is asked of the analysts' decisions.                               *)
(***************************************************************************)
EXTENDS Decisions

\* Every variable has its type, and decisions are about recorded entities.
AnalystStates ==
    {Idle} \union [pc: {"decided"}, row: Resolutions]
           \union [pc: {"judged"}, row: Reviews]
           \union [pc: {"reading"}, entities: SUBSET Entities]
           \union [pc: {"rendered"}, upto: Nat, groups: SUBSET SUBSET Entities]

TypeOK ==
    /\ known \subseteq Entities
    /\ unsourced \subseteq known
    /\ decisions \in Seq(Resolutions)
    /\ \A i \in DOMAIN decisions :
         {decisions[i].pair[1], decisions[i].pair[2]} \subseteq known
    /\ reviews \in Seq(Reviews)
    /\ analyst \in [Analysts -> AnalystStates]

\* The entities that can be reached from e over merges nobody has reversed.
Joined(e, entities, ds) ==
    LET standing == {i \in Merges(ds) : \A j \in Splits(ds) : ds[j].reverses # i}
        edges == {{ds[i].pair[1], ds[i].pair[2]} : i \in standing}
        beside(es) == {g \in entities : \E f \in es : {f, g} \in edges}
        within[n \in 0..Cardinality(entities)] ==
            IF n = 0 THEN {e}
            ELSE LET before == within[n - 1] IN before \union beside(before)
    IN  within[Cardinality(entities)]

\* "When other merges still connect the same entities, the group may remain
\* connected" (docs/ANALYSIS_WORKBENCH.md): the groups are exactly the entities
\* connected by merges that stand, in whatever order they were recorded and
\* reversed (active_resolution_groups).
GroupsAreComponents ==
    Groups(known, decisions) = {Joined(e, known, decisions) : e \in known}

\* A page made while decisions and entities are being recorded joins no two
\* entities that the decisions it has read leave apart.
PagesAreSound ==
    \A a \in Analysts :
        analyst[a].pc = "rendered" =>
            \A group \in analyst[a].groups : \A e \in group :
                group \subseteq Joined(e, known, SubSeq(decisions, 1, analyst[a].upto))

\* record_resolution keeps resolutions.jsonl in order as far as it can: a row
\* that verify_case objects to is a split whose merge was reversed by a row
\* recorded after its author had looked.
OnlyRacesBreakHistory ==
    \A i \in DOMAIN decisions :
        RowVerifies(decisions, i) \/
        \E j \in 1..(i - 1) :
            /\ decisions[i].action = "split" /\ decisions[j].action = "split"
            /\ decisions[j].reverses = decisions[i].reverses
            /\ decisions[i].seen < j

\* "When a finding changes its supporting record set ..., review the new audit"
\* (docs/ANALYSIS_WORKBENCH.md): a finding that is new, or has gained a record,
\* is open, also if an earlier form of it was excused, or is being excused by
\* somebody who has not seen the record.
GrownFindingsAreOpen ==
    [][\A f \in Audit' : f \notin Audit => ~Suppressed(f, reviews')]_vars

=============================================================================
