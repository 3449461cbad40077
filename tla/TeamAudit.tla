----------------------------- MODULE TeamAudit -----------------------------
(***************************************************************************)
(* The team service's transactions, its audit chain and its reports.       *)
(*                                                                         *)
(* One API request makes up to three transactions: the service's own, one  *)
(* that notes a denial, and the middleware's note of the request.  Each    *)
(* shares the maintenance lock, a service call holds its case's lock, and  *)
(* every transaction that audits holds the audit lock from its first event *)
(* to its end.  PostgreSQL reads what was committed when a statement       *)
(* starts, together with the transaction's own writes.                     *)
(***************************************************************************)
EXTENDS Integers, Sequences, FiniteSets, FiniteSetsExt

CONSTANTS Requests,   \* requests to the API, each sent once
          Cases,
          Users, NoUser,
          RoleOf,     \* the role of each user in every case
          NoRequest,
          MaxFaults   \* bound: connections broken and processes killed

Roles == {"viewer", "analyst", "reviewer"}

ASSUME TeamAuditAssumption ==
    /\ NoUser \notin Users
    /\ RoleOf \in [Users -> Roles]
    /\ NoRequest \notin Requests
    /\ MaxFaults \in Nat

VARIABLES reports,      \* the committed rows of team_reports
          events,       \* the committed rows of team_audit
          nextId,       \* the sequence behind event_id
          caseLock,
          auditLock,
          maintenance,  \* nobody's, asked for, or held by a backup
          request,      \* where each request is
          writes,       \* the report row its transaction has written
          appended,     \* the events its transaction has appended
          status,       \* what it will answer
          faults

vars == <<reports, events, nextId, caseLock, auditLock, maintenance, request,
          writes, appended, status, faults>>

Inputs == [op: {"add_report", "read_report", "approve", "reject"},
           user: Users, case: Cases, version: Nat]

Rows == [case: Cases, version: Nat \ {0}, author: Users, reviewer: Users \union {NoUser},
         state: {"draft", "approved", "rejected"}, of: Requests, decided: Requests \union {NoRequest}]

\* What a service call writes to the audit, in order.
Trail(op) ==
    CASE op = "add_report" -> <<"object.created", "report.version-created">>
      [] op = "read_report" -> <<"report.read">>
      [] op = "approve" -> <<"report.approved", "report.reviewed">>
      [] op = "reject" -> <<"report.rejected", "report.reviewed">>

Actions == {"object.created", "report.version-created", "report.read", "report.approved",
            "report.rejected", "report.reviewed", "service.denied", "api.request"}

\* An event stands for its digest: previous is the id of the event it names.
Events == [id: Nat \ {0}, previous: Nat, of: Requests, action: Actions]

\* The transaction a request is in, what it waits for, and the events to come.
Phases == {"service", "denial", "request"}
Idle == [pc |-> "idle", phase |-> "service", input |-> <<>>, todo |-> <<>>]

Init ==
    /\ reports = {} /\ events = {} /\ nextId = 1
    /\ caseLock = [c \in Cases |-> NoRequest]
    /\ auditLock = NoRequest
    /\ maintenance = "free"
    /\ request = [r \in Requests |-> Idle]
    /\ writes = [r \in Requests |-> {}]
    /\ appended = [r \in Requests |-> {}]
    /\ status = [r \in Requests |-> "none"]
    /\ faults = 0

(***************************************************************************)
(* The transaction's locks.                                                *)
(***************************************************************************)
Goto(r, pc) == request' = [request EXCEPT ![r].pc = pc]

\* What may come in: the report it is about is one that exists, or a new one.
Incoming ==
    {[op |-> "add_report", user |-> u, case |-> c, version |-> 0] : u \in Users, c \in Cases}
    \union {[op |-> op, user |-> u, case |-> row.case, version |-> row.version] :
                op \in {"read_report", "approve", "reject"}, u \in Users, row \in reports}

Begin(r) ==
    /\ request[r].pc = "idle"
    /\ \E i \in Incoming : request' = [request EXCEPT ![r].pc = "entering", ![r].input = i]
    /\ UNCHANGED <<reports, events, nextId, caseLock, auditLock, maintenance, writes,
                   appended, status, faults>>

\* A backup that waits for the lock goes before whoever comes later.
Enter(r) ==
    /\ request[r].pc = "entering"
    /\ maintenance = "free"
    /\ IF request[r].phase = "service" THEN Goto(r, "waiting")
       ELSE request' = [request EXCEPT ![r].pc = "auditing",
                ![r].todo = IF request[r].phase = "denial" THEN <<"service.denied">> ELSE <<"api.request">>]
    /\ UNCHANGED <<reports, events, nextId, caseLock, auditLock, maintenance, writes,
                   appended, status, faults>>

\* Variant: nothing keeps two calls from working on a case at a time.
LockCase_Shared(r) ==
    /\ request[r].pc = "waiting"
    /\ caseLock' = [caseLock EXCEPT ![request[r].input.case] = r]
    /\ Goto(r, "working")
    /\ UNCHANGED <<reports, events, nextId, auditLock, maintenance, writes, appended,
                   status, faults>>

LockCase(r) ==
    LET c == request[r].input.case
    IN  /\ request[r].pc = "waiting"
        /\ caseLock[c] = NoRequest
        /\ caseLock' = [caseLock EXCEPT ![c] = r]
        /\ Goto(r, "working")
        /\ UNCHANGED <<reports, events, nextId, auditLock, maintenance, writes, appended,
                       status, faults>>

\* Variant: the case's lock belongs to the session.
Release_AuditOnly(r) ==
    /\ auditLock' = IF auditLock = r THEN NoRequest ELSE auditLock
    /\ UNCHANGED caseLock

\* The locks of a transaction go with it.
Release(r) ==
    /\ caseLock' = [c \in Cases |-> IF caseLock[c] = r THEN NoRequest ELSE caseLock[c]]
    /\ auditLock' = IF auditLock = r THEN NoRequest ELSE auditLock

(***************************************************************************)
(* The service call.                                                       *)
(***************************************************************************)
Rank(u) == CASE RoleOf[u] = "viewer" -> 1 [] RoleOf[u] = "analyst" -> 2
             [] RoleOf[u] = "reviewer" -> 3

Minimum(op) == CASE op = "read_report" -> 1 [] op = "add_report" -> 2 [] OTHER -> 3

Versions(c) == {row.version : row \in {x \in reports : x.case = c}}

NewRow(r) ==
    LET i == request[r].input
    IN  [case |-> i.case, author |-> i.user, reviewer |-> NoUser, state |-> "draft",
         version |-> 1 + Max({0} \union Versions(i.case)), of |-> r, decided |-> NoRequest]

Decided(row, r) ==
    [row EXCEPT !.reviewer = request[r].input.user, !.decided = r,
                !.state = IF request[r].input.op = "approve" THEN "approved" ELSE "rejected"]

\* The rows a call writes; no element if it is refused.
Effects(r) ==
    LET i == request[r].input
        row == {x \in reports : x.case = i.case /\ x.version = i.version}
    IN  IF Rank(i.user) < Minimum(i.op) THEN {}
        ELSE CASE i.op = "add_report" -> {{NewRow(r)}}
               [] i.op = "read_report" ->
                     {{} : x \in {y \in row : Rank(i.user) = 1 => y.state = "approved"}}
               [] OTHER -> {{Decided(x, r)} :
                               x \in {y \in row : y.state = "draft" /\ y.author # i.user}}

Permitted(r) ==
    /\ request[r].pc = "working"
    /\ writes' \in {[writes EXCEPT ![r] = rows] : rows \in Effects(r)}
    /\ request' = [request EXCEPT ![r].pc = "auditing", ![r].todo = Trail(request[r].input.op)]
    /\ UNCHANGED <<reports, events, nextId, caseLock, auditLock, maintenance, appended,
                   status, faults>>

\* A refusal rolls back and is noted in a transaction of its own.
Denied(r) ==
    /\ request[r].pc = "working"
    /\ Effects(r) = {}
    /\ Release(r)
    /\ request' = [request EXCEPT ![r].pc = "entering", ![r].phase = "denial"]
    /\ UNCHANGED <<reports, events, nextId, maintenance, writes, appended, status, faults>>

(***************************************************************************)
(* TeamStore.audit, and the end of a transaction.                          *)
(***************************************************************************)
\* Variant: nothing keeps two transactions from appending at a time.
TakeAuditLock_Shared(r) ==
    /\ request[r].pc = "auditing"
    /\ auditLock' = r
    /\ Goto(r, "appending")
    /\ UNCHANGED <<reports, events, nextId, caseLock, maintenance, writes, appended,
                   status, faults>>

TakeAuditLock(r) ==
    /\ request[r].pc = "auditing"
    /\ auditLock = NoRequest
    /\ auditLock' = r
    /\ Goto(r, "appending")
    /\ UNCHANGED <<reports, events, nextId, caseLock, maintenance, writes, appended,
                   status, faults>>

\* The event with the highest id the transaction sees.
LastSeen(r) == Max({0} \union {e.id : e \in events \union appended[r]})

\* The sequence is not rolled back: a failed transaction leaves a gap.
AppendEvent(r) ==
    /\ request[r].pc = "appending"
    /\ appended' = [appended EXCEPT ![r] = @ \union
          {[id |-> nextId, previous |-> LastSeen(r), of |-> r, action |-> Head(request[r].todo)]}]
    /\ nextId' = nextId + 1
    /\ request' = [request EXCEPT ![r].todo = Tail(@),
                      ![r].pc = IF Len(request[r].todo) = 1 THEN "committing" ELSE "appending"]
    /\ UNCHANGED <<reports, events, caseLock, auditLock, maintenance, writes, status, faults>>

\* What follows the transaction: the middleware's note, or the answer.
Proceed(r, answer) ==
    IF request[r].phase = "request"
    THEN /\ request' = [request EXCEPT ![r].pc = "done", ![r].todo = <<>>]
         /\ status' = [status EXCEPT ![r] = IF answer = "unavailable" THEN answer ELSE @]
    ELSE /\ request' = [request EXCEPT ![r].pc = "entering", ![r].phase = "request",
                                       ![r].todo = <<>>]
         /\ status' = [status EXCEPT ![r] = answer]

Outcome(r) == IF request[r].phase = "denial" THEN "denied" ELSE "ok"

Emptied(r) ==
    /\ writes' = [writes EXCEPT ![r] = {}]
    /\ appended' = [appended EXCEPT ![r] = {}]

Replaced(rows) ==
    {x \in reports : \A y \in rows : <<x.case, x.version>> # <<y.case, y.version>>} \union rows

\* The connection may break between the commit and its acknowledgement.
Commit(r) ==
    /\ request[r].pc = "committing"
    /\ reports' = Replaced(writes[r])
    /\ events' = events \union appended[r]
    /\ \/ Proceed(r, Outcome(r)) /\ UNCHANGED faults
       \/ /\ faults < MaxFaults /\ faults' = faults + 1
          /\ Proceed(r, "unavailable")
    /\ Release(r) /\ Emptied(r)
    /\ UNCHANGED <<nextId, maintenance>>

(***************************************************************************)
(* Failures.                                                               *)
(***************************************************************************)
RolledBack(r) ==
    /\ Release(r) /\ Emptied(r)
    /\ UNCHANGED <<reports, events, nextId, maintenance>>

\* Variant: a note that cannot be written does not change the answer.
Break_NoteOptional(r) ==
    /\ request[r].pc \notin {"idle", "done"}
    /\ faults < MaxFaults /\ faults' = faults + 1
    /\ Proceed(r, IF request[r].phase = "request" THEN "ok" ELSE "unavailable")
    /\ RolledBack(r)

\* The connection breaks, or lock_timeout ends a wait: psycopg.Error, which the
\* API answers with 503.  Nobody writes a denial.
Break(r) ==
    /\ request[r].pc \notin {"idle", "done"}
    /\ faults < MaxFaults /\ faults' = faults + 1
    /\ Proceed(r, "unavailable")
    /\ RolledBack(r)

Dies(r) ==
    /\ request[r].pc \notin {"idle", "done"}
    /\ faults < MaxFaults /\ faults' = faults + 1
    /\ request' = [request EXCEPT ![r].pc = "done", ![r].todo = <<>>]
    /\ status' = [status EXCEPT ![r] = "lost"]
    /\ RolledBack(r)

(***************************************************************************)
(* TeamStore.maintenance: a backup waits until no transaction is open.     *)
(***************************************************************************)
Open(r) == request[r].pc \in {"waiting", "working", "auditing", "appending", "committing"}

AskMaintenance ==
    /\ maintenance = "free"
    /\ maintenance' = "asked"
    /\ UNCHANGED <<reports, events, nextId, caseLock, auditLock, request, writes, appended,
                   status, faults>>

HoldMaintenance ==
    /\ maintenance = "asked"
    /\ \A r \in Requests : ~Open(r)
    /\ maintenance' = "held"
    /\ UNCHANGED <<reports, events, nextId, caseLock, auditLock, request, writes, appended,
                   status, faults>>

\* Done, or tired of waiting.
EndMaintenance ==
    /\ maintenance \in {"asked", "held"}
    /\ maintenance' = "free"
    /\ UNCHANGED <<reports, events, nextId, caseLock, auditLock, request, writes, appended,
                   status, faults>>

RequestStep(r) ==
    \/ Enter(r) \/ LockCase(r) \/ Permitted(r) \/ Denied(r)
    \/ TakeAuditLock(r) \/ AppendEvent(r) \/ Commit(r)

Next ==
    \/ \E r \in Requests : Begin(r) \/ RequestStep(r) \/ Break(r) \/ Dies(r)
    \/ AskMaintenance \/ HoldMaintenance \/ EndMaintenance

Spec == Init /\ [][Next]_vars

(***************************************************************************)
(* Fairness: a thread goes on while it can, and a backup ends.  Locks are  *)
(* granted in the order they are asked for, so backups that follow each    *)
(* other do not keep a transaction out for ever.                           *)
(***************************************************************************)
Fairness ==
    /\ \A r \in Requests : WF_vars(RequestStep(r)) /\ SF_vars(Enter(r))
    /\ WF_vars(HoldMaintenance) /\ WF_vars(EndMaintenance)

FairSpec == Spec /\ Fairness

=============================================================================
