---------------------------- MODULE MCTeamAudit ----------------------------
EXTENDS TeamAuditProps, TLC

CONSTANTS analyst, reviewer, viewer, r0, c1

Role == analyst :> "analyst" @@ reviewer :> "reviewer" @@ viewer :> "viewer"

\* Where r0, alone, has left the system: a draft in c1.
Draft == [case |-> c1, version |-> 1, author |-> analyst, reviewer |-> NoUser,
          state |-> "draft", of |-> r0, decided |-> NoRequest]
Event(id, action) == [id |-> id, previous |-> id - 1, of |-> r0, action |-> action]

MCInit ==
    /\ reports = {Draft}
    /\ events = {Event(1, "object.created"), Event(2, "report.version-created"),
                 Event(3, "api.request")}
    /\ nextId = 4
    /\ caseLock = [c \in Cases |-> NoRequest]
    /\ auditLock = NoRequest
    /\ maintenance = "free"
    /\ request = [r \in Requests |->
          IF r # r0 THEN Idle
          ELSE [pc |-> "done", phase |-> "request", todo |-> <<>>,
                input |-> [op |-> "add_report", user |-> analyst, case |-> c1, version |-> 0]]]
    /\ writes = [r \in Requests |-> {}]
    /\ appended = [r \in Requests |-> {}]
    /\ status = [r \in Requests |-> IF r = r0 THEN "ok" ELSE "none"]
    /\ faults = 0

MCSpec == MCInit /\ [][Next]_vars /\ Fairness

=============================================================================
