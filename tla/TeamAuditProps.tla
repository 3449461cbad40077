--------------------------- MODULE TeamAuditProps ---------------------------
(***************************************************************************)
(* What is asked of the team's audit chain and of its reports.             *)
(***************************************************************************)
EXTENDS TeamAudit

\* Every variable has its type, and the locks are held by the transactions that
\* have reached them.
TypeOK ==
    /\ reports \subseteq Rows /\ events \subseteq Events
    /\ nextId \in Nat \ {0}
    /\ maintenance \in {"free", "asked", "held"}
    /\ \A r \in Requests :
          /\ request[r].pc \in {"idle", "entering", "waiting", "working", "auditing",
                               "appending", "committing", "done"}
          /\ request[r].phase \in Phases
          /\ request[r].pc # "idle" => request[r].input \in Inputs
          /\ request[r].todo \in Seq(Actions)
          /\ writes[r] \subseteq Rows /\ appended[r] \subseteq Events
          /\ status[r] \in {"none", "ok", "denied", "unavailable", "lost"}
          /\ auditLock = r <=> request[r].pc \in {"appending", "committing"}
          /\ \A c \in Cases :
                caseLock[c] = r <=>
                    /\ request[r].phase = "service" /\ Open(r) /\ request[r].pc # "waiting"
                    /\ request[r].input.case = c
    /\ maintenance = "held" => \A r \in Requests : ~Open(r)
    /\ faults \in Nat

\* verify_audit finds no mismatch at any time: each event names the one just
\* before it in the order of event_id, whatever was appended at once, rolled
\* back or cut off in between (team_store.py:228).
ChainVerifies ==
    \A e \in events :
        /\ e.previous < e.id
        /\ e.previous # 0 => \E x \in events : x.id = e.previous
        /\ \A x \in events : x.id <= e.previous \/ x = e \/ x.id > e.id

\* "Every object read, mutation, decision and export is recorded": a report and
\* a decision about it are committed together with their events, also when the
\* client is told that the service is unavailable; and what the events speak of
\* is there: no author at the same time took the same version, no reviewer
\* overwrote another's decision.
ChangesAreAudited ==
    /\ \A row \in reports :
          /\ \E e \in events : e.of = row.of /\ e.action = "report.version-created"
          /\ row.state # "draft" =>
                \E e \in events : /\ e.of = row.decided
                                 /\ e.action = [approved |-> "report.approved",
                                                rejected |-> "report.rejected"][row.state]
    /\ \A e \in events :
          /\ e.action = "report.version-created" => \E row \in reports : row.of = e.of
          /\ e.action = "report.reviewed" => \E row \in reports : row.decided = e.of

\* What the client is told: a success or a denial is in the audit, a denial
\* was noted and has changed nothing, a success was audited and still stands; a
\* decision is then somebody else's than the author's, and a viewer has read
\* nothing but approved reports.
AnswersAreTrue ==
    \A r \in Requests :
        LET i == request[r].input
            seen == {e.action : e \in {x \in events : x.of = r}}
            Stands(row) ==
                CASE i.op = "add_report" -> row.of = r
                  [] i.op = "read_report" ->
                       /\ row.case = i.case /\ row.version = i.version
                       /\ RoleOf[i.user] = "viewer" => row.state = "approved"
                  [] OTHER -> row.decided = r /\ row.author # i.user
        IN  request[r].pc = "done" =>
              /\ status[r] \in {"ok", "denied"} => "api.request" \in seen
              /\ status[r] = "ok" =>
                    /\ {Trail(i.op)[n] : n \in DOMAIN Trail(i.op)} \subseteq seen
                    /\ \E row \in reports : Stands(row)
              /\ status[r] = "denied" =>
                    /\ "service.denied" \in seen
                    /\ \A row \in reports : row.of # r /\ row.decided # r

\* Nothing waits on each other for ever: every request that came in is answered,
\* with backups and failures in between.
RequestsAreAnswered ==
    <>[](\A r \in Requests : request[r].pc \in {"idle", "done"})

=============================================================================
