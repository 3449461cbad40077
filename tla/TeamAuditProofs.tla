---------------------------- MODULE TeamAuditProofs ----------------------------
(***************************************************************************)
(* Theorems about the audit chain, the reports and the answers, for any    *)
(* number of requests, cases, users, roles and failures.                   *)
(***************************************************************************)
EXTENDS TeamAuditProps, SetLemmas

Pcs == {"idle", "entering", "waiting", "working", "auditing", "appending", "committing", "done"}

RequestStates ==
    [pc: Pcs, phase: Phases, input: Inputs \union {<<>>}, todo: Seq(Actions)]

Answers == {"none", "ok", "denied", "unavailable", "lost"}

Types ==
    /\ reports \in SUBSET Rows /\ IsFiniteSet(reports) /\ events \in SUBSET Events
    /\ nextId \in Nat \ {0}
    /\ caseLock \in [Cases -> Requests \union {NoRequest}]
    /\ auditLock \in Requests \union {NoRequest}
    /\ maintenance \in {"free", "asked", "held"}
    /\ request \in [Requests -> RequestStates]
    /\ writes \in [Requests -> SUBSET Rows]
    /\ appended \in [Requests -> SUBSET Events]
    /\ status \in [Requests -> Answers]
    /\ faults \in Nat

Writing(r) == request[r].pc \in {"auditing", "appending", "committing"}

\* The locks are held by the transactions that have reached them.
LockInv(r) ==
    /\ auditLock = r <=> request[r].pc \in {"appending", "committing"}
    /\ \A c \in Cases :
          caseLock[c] = r <=>
              /\ request[r].phase = "service" /\ Open(r) /\ request[r].pc # "waiting"
              /\ request[r].input.case = c
    /\ request[r].pc # "idle" => request[r].input \in Inputs
    /\ request[r].pc \in {"idle", "waiting", "working"} => request[r].phase = "service"
    /\ maintenance = "held" => ~Open(r)

Locks == \A r \in Requests : LockInv(r)

\* What one request does leaves the others as they are.
Alone(r) ==
    \A d \in Requests \ {r} :
        /\ request'[d] = request[d] /\ writes'[d] = writes[d]
        /\ appended'[d] = appended[d] /\ status'[d] = status[d]

(***************************************************************************)
(* Types and locks.                                                        *)
(***************************************************************************)
LEMMA Trails ==
    /\ \A i \in Inputs : Trail(i.op) \in Seq(Actions) /\ Trail(i.op) # <<>>
    /\ <<"service.denied">> \in Seq(Actions) /\ <<"api.request">> \in Seq(Actions)
    /\ <<>> \in Seq(Actions)
<1>1. /\ <<"object.created", "report.version-created">> \in Seq(Actions)
      /\ <<"report.read">> \in Seq(Actions)
      /\ <<"report.approved", "report.reviewed">> \in Seq(Actions)
      /\ <<"report.rejected", "report.reviewed">> \in Seq(Actions)
  BY DEF Actions
<1>2. /\ <<"service.denied">> \in Seq(Actions) /\ <<"api.request">> \in Seq(Actions)
      /\ <<>> \in Seq(Actions)
  BY DEF Actions
<1>3. ASSUME NEW i \in Inputs PROVE Trail(i.op) \in Seq(Actions) /\ Trail(i.op) # <<>>
  <2>1. i.op \in {"add_report", "read_report", "approve", "reject"}
    BY DEF Inputs
  <2> HIDE DEF Actions
  <2> QED
    BY <1>1, <2>1 DEF Trail
<1> QED
  BY <1>2, <1>3

LEMMA ReleaseTyped ==
    ASSUME Types, Locks, NEW r \in Requests, Release(r)
    PROVE  /\ caseLock' \in [Cases -> Requests \union {NoRequest}]
           /\ auditLock' \in Requests \union {NoRequest}
           /\ auditLock' # r
           /\ \A c \in Cases : caseLock'[c] # r
           /\ \A d \in Requests \ {r} :
                 /\ auditLock' = d <=> auditLock = d
                 /\ \A c \in Cases : caseLock'[c] = d <=> caseLock[c] = d
BY TeamAuditAssumption DEF Types, Release

\* A step that moves one request, and frees its locks or keeps them.
LEMMA Moved ==
    ASSUME Types, Locks, NEW r \in Requests, NEW state \in RequestStates,
           request' = [request EXCEPT ![r] = state],
           state.pc # "idle", state.input \in Inputs,
           state.pc \in {"waiting", "working"} => state.phase = "service",
           UNCHANGED maintenance,
           \/ /\ Release(r) /\ state.pc \in {"entering", "done"}
           \/ /\ UNCHANGED <<caseLock, auditLock>>
              /\ state.phase = request[r].phase
              /\ request[r].pc # "idle" => state.input = request[r].input
              /\ maintenance = "held" => state.pc \in {"entering", "done"}
              /\ \/ /\ request[r].pc \in {"idle", "entering", "waiting"}
                    /\ \/ state.pc \in {"entering", "waiting"}
                       \/ state.pc = "auditing" /\ state.phase # "service"
                 \/ request[r].pc = "working" /\ state.pc = "auditing"
                 \/ request[r].pc = "appending" /\ state.pc \in {"appending", "committing"}
    PROVE  Locks' /\ request' \in [Requests -> RequestStates] /\ request'[r] = state
<1>1. /\ request' \in [Requests -> RequestStates] /\ request'[r] = state
      /\ \A d \in Requests \ {r} : request'[d] = request[d]
  BY DEF Types
<1>2. ASSUME NEW d \in Requests \ {r} PROVE LockInv(d)'
  BY <1>1, <1>2, ReleaseTyped DEF Locks, LockInv, Open
<1>3. LockInv(r)'
  <2>1. CASE Release(r) /\ state.pc \in {"entering", "done"}
    BY <1>1, <2>1, ReleaseTyped DEF LockInv, Open
  <2>2. CASE UNCHANGED <<caseLock, auditLock>>
    BY <1>1, <2>2, ReleaseTyped DEF Locks, LockInv, Open
  <2> QED
    BY <2>1, <2>2
<1> QED
  BY <1>1, <1>2, <1>3 DEF Locks

\* The next version is above all there are.
LEMMA NextVersion ==
    ASSUME Types, NEW c \in Cases
    PROVE  /\ 1 + Max({0} \union Versions(c)) \in Nat \ {0}
           /\ \A x \in reports : x.case = c => x.version < 1 + Max({0} \union Versions(c))
<1> DEFINE rows == {x \in reports : x.case = c}
           version == [x \in rows |-> x.version]
           V == Versions(c)
           W == {0} \union V
<1>1. rows \in SUBSET reports /\ \A x \in rows : x.version \in Nat \ {0}
  BY DEF Types, Rows
<1>2. version \in Surjection(rows, V)
  BY DEF Surjection, Versions
<1>3. V \subseteq Nat
  BY <1>1 DEF Versions
<1>4. \A x \in reports : x.case = c => x.version \in V
  BY DEF Versions
<1> HIDE DEF rows, version, V
<1>5. IsFiniteSet(rows)
  BY <1>1, FS_Subset DEF Types
<1>6. IsFiniteSet(V)
  BY <1>2, <1>5, FS_Surjection
<1>7. IsFiniteSet({0})
  BY FS_Singleton
<1>8. IsFiniteSet(W) /\ W # {} /\ W \subseteq Int
  <2>1. IsFiniteSet(W)
    BY <1>6, <1>7, FS_Union
  <2>2. W # {} /\ W \subseteq Int
    BY <1>3
  <2> QED
    BY <2>1, <2>2
<1>9. 0 \in W /\ V \subseteq W
  OBVIOUS
<1> HIDE DEF W
<1>10. Max(W) \in W /\ \A y \in W : Max(W) >= y
  BY <1>8, MaxOfFinite
<1>11. Max(W) \in Nat
  <2>1. Max(W) \in Int
    BY <1>8, <1>10
  <2>2. Max(W) >= 0
    BY <1>9, <1>10
  <2> QED
    BY <2>1, <2>2
<1>12. ASSUME NEW x \in reports, x.case = c
       PROVE  x.version < 1 + Max(W)
  <2>1. x.version \in W /\ x.version \in Nat
    BY <1>3, <1>4, <1>9, <1>12
  <2>2. Max(W) >= x.version
    BY <1>10, <2>1
  <2> QED
    BY <1>11, <2>1, <2>2
<1>13. 1 + Max(W) \in Nat \ {0}
  BY <1>11
<1> QED
  BY <1>12, <1>13 DEF W, V

\* The rows a call writes: a new one, or the decision of a draft.
IsNew(row, r) ==
    /\ row \in Rows /\ row.case = request[r].input.case
    /\ row.of = r /\ row.decided = NoRequest /\ row.state = "draft"
    /\ \A x \in reports : x.case = row.case => x.version # row.version

IsDecision(row, r) ==
    \E x \in reports :
        /\ x.case = request[r].input.case /\ x.state = "draft"
        /\ x.author # request[r].input.user
        /\ row = Decided(x, r)

Readable(r) ==
    \E x \in reports :
        /\ x.case = request[r].input.case /\ x.version = request[r].input.version
        /\ RoleOf[request[r].input.user] = "viewer" => x.state = "approved"

\* What has been written, or read, still stands while the case is locked.
Written(r, rows) ==
    LET op == request[r].input.op
    IN  /\ op = "add_report" => \E row \in Rows : rows = {row} /\ IsNew(row, r)
        /\ op \in {"approve", "reject"} => \E row \in Rows : rows = {row} /\ IsDecision(row, r)
        /\ op = "read_report" => rows = {} /\ Readable(r)

LEMMA DecidedTyped ==
    ASSUME NEW x \in Rows, NEW r \in Requests, request[r].input \in Inputs
    PROVE  /\ Decided(x, r) \in Rows
           /\ Decided(x, r).case = x.case /\ Decided(x, r).version = x.version
           /\ Decided(x, r).author = x.author /\ Decided(x, r).of = x.of
           /\ Decided(x, r).decided = r
           /\ Decided(x, r).state = IF request[r].input.op = "approve" THEN "approved" ELSE "rejected"
BY DEF Rows, Decided, Inputs

LEMMA EffectsWritten ==
    ASSUME Types, NEW r \in Requests, request[r].input \in Inputs, NEW rows \in Effects(r)
    PROVE  rows \in SUBSET Rows /\ Written(r, rows)
<1> DEFINE i == request[r].input
           row == {x \in reports : x.case = i.case /\ x.version = i.version}
<1>1. /\ i.user \in Users /\ i.case \in Cases /\ RoleOf[i.user] \in Roles
      /\ i.op \in {"add_report", "read_report", "approve", "reject"}
  BY TeamAuditAssumption DEF Inputs
<1>2. row \in SUBSET reports /\ reports \in SUBSET Rows
  BY DEF Types
<1>3. ~(Rank(i.user) < Minimum(i.op))
  <2>1. Rank(i.user) < Minimum(i.op) => Effects(r) = {}
    BY DEF Effects
  <2> QED
    BY <2>1
<1>4. CASE i.op = "add_report"
  <2>1. rows = {NewRow(r)}
    BY <1>3, <1>4 DEF Effects
  <2> DEFINE v == 1 + Max({0} \union Versions(i.case))
  <2>2. v \in Nat \ {0} /\ \A x \in reports : x.case = i.case => x.version < v
    BY <1>1, NextVersion
  <2>3. NewRow(r) = [case |-> i.case, author |-> i.user, reviewer |-> NoUser, state |-> "draft",
                     version |-> v, of |-> r, decided |-> NoRequest]
    BY DEF NewRow
  <2> HIDE DEF v
  <2>4. NewRow(r) \in Rows
    BY <1>1, <2>2, <2>3 DEF Rows
  <2>5. \A x \in reports : x.version \in Nat
    BY <1>2 DEF Rows
  <2>6. IsNew(NewRow(r), r)
    BY <2>2, <2>3, <2>4, <2>5 DEF IsNew
  <2> QED
    BY <1>4, <2>1, <2>4, <2>6 DEF Written
<1>5. CASE i.op = "read_report"
  <2>1. rows \in {{} : x \in {y \in row : Rank(i.user) = 1 => y.state = "approved"}}
    BY <1>3, <1>5 DEF Effects
  <2>2. PICK x \in row : Rank(i.user) = 1 => x.state = "approved"
    BY <2>1
  <2>3. RoleOf[i.user] = "viewer" => Rank(i.user) = 1
    BY DEF Rank
  <2> QED
    BY <1>2, <1>5, <2>1, <2>2, <2>3 DEF Written, Readable
<1>6. CASE i.op \in {"approve", "reject"}
  <2>1. rows \in {{Decided(x, r)} : x \in {y \in row : y.state = "draft" /\ y.author # i.user}}
    BY <1>3, <1>6 DEF Effects
  <2>2. PICK x \in row : x.state = "draft" /\ x.author # i.user /\ rows = {Decided(x, r)}
    BY <2>1
  <2>3. Decided(x, r) \in Rows
    BY <1>2, DecidedTyped
  <2> QED
    BY <1>2, <1>6, <2>2, <2>3 DEF Written, IsDecision
<1> QED
  BY <1>1, <1>4, <1>5, <1>6

(***************************************************************************)
(* Every step keeps the types and the locks.                               *)
(***************************************************************************)
\* What a transaction that is over leaves behind.
LEMMA Ended ==
    ASSUME Types, Locks, NEW r \in Requests, NEW answer \in Answers,
           request[r].pc \notin {"idle", "done"}, Proceed(r, answer), Release(r), UNCHANGED maintenance
    PROVE  /\ Locks' /\ request' \in [Requests -> RequestStates]
           /\ status' \in [Requests -> Answers]
           /\ request'[r].input = request[r].input
           /\ IF request[r].phase = "request"
              THEN /\ request'[r].pc = "done" /\ request'[r].phase = "request"
                   /\ status'[r] = IF answer = "unavailable" THEN answer ELSE status[r]
              ELSE /\ request'[r].pc = "entering" /\ request'[r].phase = "request"
                   /\ status'[r] = answer
           /\ \A d \in Requests \ {r} : request'[d] = request[d] /\ status'[d] = status[d]
<1>1. request[r] \in RequestStates /\ request[r].input \in Inputs /\ <<>> \in Seq(Actions)
  BY Trails DEF Types, Locks, LockInv
<1>2. CASE request[r].phase = "request"
  <2> DEFINE state == [request[r] EXCEPT !.pc = "done", !.todo = <<>>]
  <2>1. /\ state \in RequestStates /\ state.pc = "done" /\ state.phase = "request"
        /\ state.input = request[r].input
    BY <1>1, <1>2 DEF RequestStates, Pcs
  <2>2. /\ request' = [request EXCEPT ![r] = state]
        /\ status' = [status EXCEPT ![r] = IF answer = "unavailable" THEN answer ELSE @]
    BY <1>2 DEF Proceed
  <2> HIDE DEF state
  <2>3. Locks' /\ request' \in [Requests -> RequestStates] /\ request'[r] = state
    BY <1>1, <2>1, <2>2, Moved
  <2> QED
    BY <1>2, <2>1, <2>2, <2>3 DEF Types
<1>3. CASE request[r].phase # "request"
  <2> DEFINE state == [request[r] EXCEPT !.pc = "entering", !.phase = "request", !.todo = <<>>]
  <2>1. /\ state \in RequestStates /\ state.pc = "entering" /\ state.phase = "request"
        /\ state.input = request[r].input
    BY <1>1 DEF RequestStates, Pcs, Phases
  <2>2. /\ request' = [request EXCEPT ![r] = state]
        /\ status' = [status EXCEPT ![r] = answer]
    BY <1>3 DEF Proceed
  <2> HIDE DEF state
  <2>3. Locks' /\ request' \in [Requests -> RequestStates] /\ request'[r] = state
    BY <1>1, <2>1, <2>2, Moved
  <2> QED
    BY <1>3, <2>1, <2>2, <2>3 DEF Types
<1> QED
  BY <1>2, <1>3

LEMMA BeginStep ==
    ASSUME Types, Locks, NEW r \in Requests, Begin(r)
    PROVE  /\ Types' /\ Locks' /\ Alone(r)
           /\ request[r].pc = "idle" /\ request'[r].pc = "entering"
           /\ request'[r].phase = request[r].phase
<1>1. PICK i \in Inputs : request' = [request EXCEPT ![r].pc = "entering", ![r].input = i]
  <2>1. ASSUME NEW u \in Users, NEW c \in Cases
        PROVE  [op |-> "add_report", user |-> u, case |-> c, version |-> 0] \in Inputs
    BY DEF Inputs
  <2>2. ASSUME NEW op \in {"read_report", "approve", "reject"}, NEW u \in Users, NEW row \in reports
        PROVE  [op |-> op, user |-> u, case |-> row.case, version |-> row.version] \in Inputs
    BY DEF Inputs, Types, Rows
  <2>3. Incoming \subseteq Inputs
    BY <2>1, <2>2 DEF Incoming
  <2> QED
    BY <2>3 DEF Begin
<1> DEFINE state == [request[r] EXCEPT !.pc = "entering", !.input = i]
<1>2. /\ state \in RequestStates /\ state.pc = "entering" /\ state.input \in Inputs
      /\ state.phase = request[r].phase
  BY DEF Types, RequestStates, Pcs
<1>3. /\ request' = [request EXCEPT ![r] = state] /\ request[r].pc = "idle"
      /\ UNCHANGED <<reports, events, nextId, caseLock, auditLock, maintenance, writes,
                     appended, status, faults>>
  BY <1>1 DEF Begin
<1> HIDE DEF state
<1>4. Locks' /\ request' \in [Requests -> RequestStates] /\ request'[r] = state
  BY <1>2, <1>3, Moved
<1> QED
  BY <1>2, <1>3, <1>4 DEF Types, Alone

LEMMA EnterStep ==
    ASSUME Types, Locks, NEW r \in Requests, Enter(r)
    PROVE  /\ Types' /\ Locks' /\ Alone(r)
           /\ request[r].pc = "entering" /\ request'[r].phase = request[r].phase
           /\ request'[r].input = request[r].input
           /\ \/ request'[r].pc = "waiting" /\ request[r].phase = "service"
              \/ /\ request'[r].pc = "auditing"
                 /\ \/ request[r].phase = "denial" /\ request'[r].todo = <<"service.denied">>
                    \/ request[r].phase = "request" /\ request'[r].todo = <<"api.request">>
<1>1. /\ request[r].pc = "entering" /\ maintenance = "free" /\ request[r] \in RequestStates
      /\ request[r].input \in Inputs
      /\ UNCHANGED <<reports, events, nextId, caseLock, auditLock, maintenance, writes,
                     appended, status, faults>>
  BY DEF Enter, Types, Locks, LockInv
<1>2. CASE request[r].phase = "service"
  <2> DEFINE state == [request[r] EXCEPT !.pc = "waiting"]
  <2>1. /\ state \in RequestStates /\ state.pc = "waiting" /\ state.phase = request[r].phase
        /\ state.input = request[r].input
    BY <1>1 DEF RequestStates, Pcs
  <2>2. request' = [request EXCEPT ![r] = state]
    BY <1>2 DEF Enter, Goto
  <2> HIDE DEF state
  <2>3. Locks' /\ request' \in [Requests -> RequestStates] /\ request'[r] = state
    BY <1>1, <1>2, <2>1, <2>2, Moved
  <2> QED
    BY <1>1, <1>2, <2>1, <2>2, <2>3 DEF Types, Alone
<1>3. CASE request[r].phase # "service"
  <2> DEFINE todo == IF request[r].phase = "denial" THEN <<"service.denied">> ELSE <<"api.request">>
             state == [request[r] EXCEPT !.pc = "auditing", !.todo = todo]
  <2>1. todo \in Seq(Actions) /\ request[r].phase \in {"denial", "request"}
    BY <1>1, <1>3, Trails DEF RequestStates, Phases
  <2>2. request' = [request EXCEPT ![r] = state]
    BY <1>3 DEF Enter
  <2>3. (request[r].phase = "denial" => todo = <<"service.denied">>)
        /\ (request[r].phase = "request" => todo = <<"api.request">>)
    OBVIOUS
  <2> HIDE DEF todo
  <2>4. /\ state \in RequestStates /\ state.pc = "auditing" /\ state.phase = request[r].phase
        /\ state.input = request[r].input /\ state.todo = todo
    BY <1>1, <2>1 DEF RequestStates, Pcs
  <2> HIDE DEF state
  <2>5. Locks' /\ request' \in [Requests -> RequestStates] /\ request'[r] = state
    BY <1>1, <1>3, <2>2, <2>4, Moved
  <2> QED
    BY <1>1, <1>3, <2>1, <2>2, <2>3, <2>4, <2>5 DEF Types, Alone
<1> QED
  BY <1>2, <1>3

LEMMA LockCaseStep ==
    ASSUME Types, Locks, NEW r \in Requests, LockCase(r)
    PROVE  /\ Types' /\ Locks' /\ Alone(r)
           /\ request[r].pc = "waiting" /\ request'[r].pc = "working"
           /\ request'[r].phase = request[r].phase /\ request'[r].input = request[r].input
<1> DEFINE c == request[r].input.case
           state == [request[r] EXCEPT !.pc = "working"]
<1>1. /\ request[r].pc = "waiting" /\ caseLock[c] = NoRequest
      /\ caseLock' = [caseLock EXCEPT ![c] = r]
      /\ request' = [request EXCEPT ![r] = state]
      /\ UNCHANGED <<reports, events, nextId, auditLock, maintenance, writes, appended,
                     status, faults>>
  BY DEF LockCase, Goto
<1>2. request[r].input \in Inputs /\ request[r].phase = "service" /\ request[r] \in RequestStates
  BY <1>1 DEF Types, Locks, LockInv
<1>3. c \in Cases
  BY <1>2 DEF Inputs
<1>4. /\ state \in RequestStates /\ state.pc = "working" /\ state.phase = "service"
      /\ state.input = request[r].input
  BY <1>2 DEF RequestStates, Pcs
<1> HIDE DEF state, c
<1>5. /\ request' \in [Requests -> RequestStates] /\ request'[r] = state
      /\ \A d \in Requests \ {r} : request'[d] = request[d]
  BY <1>1, <1>4 DEF Types
<1>6. /\ caseLock' \in [Cases -> Requests \union {NoRequest}]
      /\ \A e \in Cases : caseLock'[e] = IF e = c THEN r ELSE caseLock[e]
  BY <1>1, <1>3 DEF Types
<1>7. Types'
  BY <1>1, <1>5, <1>6 DEF Types
<1>8. ASSUME NEW d \in Requests \ {r} PROVE LockInv(d)'
  BY <1>1, <1>5, <1>6, <1>8, TeamAuditAssumption DEF Locks, LockInv, Open
<1>9. LockInv(r)'
  <2>1. \A e \in Cases : caseLock'[e] = r <=> e = c
    BY <1>1, <1>6 DEF Locks, LockInv
  <2> QED
    BY <1>1, <1>2, <1>4, <1>5, <2>1 DEF Locks, LockInv, Open, c
<1> QED
  BY <1>1, <1>2, <1>4, <1>5, <1>7, <1>8, <1>9 DEF Locks, Alone

LEMMA PermittedStep ==
    ASSUME Types, Locks, NEW r \in Requests, Permitted(r)
    PROVE  /\ Types' /\ Locks' /\ request' \in [Requests -> RequestStates]
           /\ \A d \in Requests \ {r} : request'[d] = request[d] /\ writes'[d] = writes[d]
           /\ request[r].pc = "working" /\ request'[r].pc = "auditing"
           /\ request[r].phase = "service" /\ request'[r].phase = "service"
           /\ request'[r].input = request[r].input
           /\ request'[r].todo = Trail(request[r].input.op)
           /\ Written(r, writes'[r])
           /\ UNCHANGED <<reports, events, nextId, caseLock, auditLock, maintenance, appended,
                          status, faults>>
<1> DEFINE state == [request[r] EXCEPT !.pc = "auditing", !.todo = Trail(request[r].input.op)]
<1>1. /\ request[r].pc = "working" /\ request' = [request EXCEPT ![r] = state]
      /\ UNCHANGED <<reports, events, nextId, caseLock, auditLock, maintenance, appended,
                     status, faults>>
  BY DEF Permitted
<1>2. PICK rows \in Effects(r) : writes' = [writes EXCEPT ![r] = rows]
  BY DEF Permitted
<1>3. /\ request[r] \in RequestStates /\ request[r].input \in Inputs
      /\ request[r].phase = "service" /\ (maintenance = "held" => FALSE)
  BY <1>1 DEF Types, Locks, LockInv, Open
<1>4. /\ state \in RequestStates /\ state.pc = "auditing" /\ state.phase = request[r].phase
      /\ state.input = request[r].input /\ state.todo = Trail(request[r].input.op)
  <2>1. Trail(request[r].input.op) \in Seq(Actions)
    BY <1>3, Trails
  <2> QED
    BY <1>3, <2>1 DEF RequestStates, Pcs
<1> HIDE DEF state
<1>5. rows \in SUBSET Rows /\ Written(r, rows)
  BY <1>2, <1>3, EffectsWritten
<1>6. Locks' /\ request' \in [Requests -> RequestStates] /\ request'[r] = state
  BY <1>1, <1>3, <1>4, Moved
<1>7. /\ writes' \in [Requests -> SUBSET Rows] /\ writes'[r] = rows
      /\ \A d \in Requests \ {r} : request'[d] = request[d] /\ writes'[d] = writes[d]
  BY <1>1, <1>2, <1>5 DEF Types
<1>8. Types'
  BY <1>1, <1>6, <1>7 DEF Types
<1> QED
  BY <1>1, <1>3, <1>4, <1>5, <1>6, <1>7, <1>8

LEMMA DeniedStep ==
    ASSUME Types, Locks, NEW r \in Requests, Denied(r)
    PROVE  /\ Types' /\ Locks' /\ Alone(r)
           /\ request[r].pc = "working" /\ request'[r].pc = "entering"
           /\ request[r].phase = "service" /\ request'[r].phase = "denial"
           /\ request'[r].input = request[r].input
<1> DEFINE state == [request[r] EXCEPT !.pc = "entering", !.phase = "denial"]
<1>1. /\ request[r].pc = "working" /\ request' = [request EXCEPT ![r] = state] /\ Release(r)
      /\ UNCHANGED <<reports, events, nextId, maintenance, writes, appended, status, faults>>
  BY DEF Denied
<1>2. /\ request[r] \in RequestStates /\ request[r].input \in Inputs
      /\ request[r].phase = "service"
  BY <1>1 DEF Types, Locks, LockInv
<1>3. /\ state \in RequestStates /\ state.pc = "entering" /\ state.phase = "denial"
      /\ state.input = request[r].input
  BY <1>2 DEF RequestStates, Pcs, Phases
<1> HIDE DEF state
<1>4. Locks' /\ request' \in [Requests -> RequestStates] /\ request'[r] = state
  BY <1>1, <1>2, <1>3, Moved
<1>5. Types'
  BY <1>1, <1>4, ReleaseTyped DEF Types
<1> QED
  BY <1>1, <1>2, <1>3, <1>4, <1>5 DEF Alone, Types

LEMMA TakeAuditLockStep ==
    ASSUME Types, Locks, NEW r \in Requests, TakeAuditLock(r)
    PROVE  /\ Types' /\ Locks' /\ Alone(r)
           /\ request[r].pc = "auditing" /\ request'[r].pc = "appending"
           /\ request'[r].phase = request[r].phase /\ request'[r].input = request[r].input
           /\ request'[r].todo = request[r].todo
           /\ auditLock = NoRequest /\ auditLock' = r
<1> DEFINE state == [request[r] EXCEPT !.pc = "appending"]
<1>1. /\ request[r].pc = "auditing" /\ request' = [request EXCEPT ![r] = state]
      /\ auditLock = NoRequest /\ auditLock' = r
      /\ UNCHANGED <<reports, events, nextId, caseLock, maintenance, writes, appended,
                     status, faults>>
  BY DEF TakeAuditLock, Goto
<1>2. request[r] \in RequestStates
  BY DEF Types
<1>3. /\ state \in RequestStates /\ state.pc = "appending" /\ state.phase = request[r].phase
      /\ state.input = request[r].input /\ state.todo = request[r].todo
  BY <1>2 DEF RequestStates, Pcs
<1> HIDE DEF state
<1>4. /\ request' \in [Requests -> RequestStates] /\ request'[r] = state
      /\ \A d \in Requests \ {r} : request'[d] = request[d]
  BY <1>1, <1>3 DEF Types
<1>5. ASSUME NEW d \in Requests \ {r} PROVE LockInv(d)'
  BY <1>1, <1>4, <1>5, TeamAuditAssumption DEF Locks, LockInv, Open
<1>6. LockInv(r)'
  BY <1>1, <1>3, <1>4 DEF Locks, LockInv, Open
<1>7. Types'
  BY <1>1, <1>4 DEF Types
<1> QED
  BY <1>1, <1>3, <1>4, <1>5, <1>6, <1>7 DEF Locks, Alone

LEMMA MaintenanceStep ==
    ASSUME Types, Locks, AskMaintenance \/ HoldMaintenance \/ EndMaintenance
    PROVE  /\ Types' /\ Locks'
           /\ UNCHANGED <<reports, events, nextId, caseLock, auditLock, request, writes, appended,
                          status, faults>>
<1>1. /\ maintenance' \in {"free", "asked", "held"}
      /\ maintenance' = "held" => \A d \in Requests : ~Open(d)
      /\ UNCHANGED <<reports, events, nextId, caseLock, auditLock, request, writes, appended,
                     status, faults>>
  BY DEF AskMaintenance, HoldMaintenance, EndMaintenance
<1>2. Types'
  BY <1>1 DEF Types
<1>3. ASSUME NEW d \in Requests PROVE LockInv(d)'
  BY <1>1 DEF Locks, LockInv, Open
<1> QED
  BY <1>1, <1>2, <1>3 DEF Locks

LEMMA BreakStep ==
    ASSUME Types, Locks, NEW r \in Requests, Break(r)
    PROVE  /\ Types' /\ Locks'
           /\ \A d \in Requests \ {r} :
                 /\ request'[d] = request[d] /\ writes'[d] = writes[d]
                 /\ appended'[d] = appended[d] /\ status'[d] = status[d]
           /\ writes'[r] = {} /\ appended'[r] = {}
           /\ request'[r].pc \in {"entering", "done"} /\ request'[r].phase = "request"
           /\ status'[r] = "unavailable" /\ request'[r].input = request[r].input
           /\ UNCHANGED <<reports, events, nextId>>
<1>1. /\ request[r].pc \notin {"idle", "done"} /\ faults' = faults + 1
      /\ Proceed(r, "unavailable") /\ Release(r) /\ Emptied(r)
      /\ UNCHANGED <<reports, events, nextId, maintenance>>
  BY DEF Break, RolledBack
<1>2. "unavailable" \in Answers
  BY DEF Answers
<1>3. /\ Locks' /\ request' \in [Requests -> RequestStates]
      /\ status' \in [Requests -> Answers]
      /\ request'[r].input = request[r].input
      /\ request'[r].pc \in {"entering", "done"} /\ request'[r].phase = "request"
      /\ status'[r] = "unavailable"
      /\ \A d \in Requests \ {r} : request'[d] = request[d] /\ status'[d] = status[d]
  BY <1>1, <1>2, Ended
<1>4. /\ writes' \in [Requests -> SUBSET Rows] /\ appended' \in [Requests -> SUBSET Events]
      /\ writes'[r] = {} /\ appended'[r] = {}
      /\ \A d \in Requests \ {r} : writes'[d] = writes[d] /\ appended'[d] = appended[d]
  BY <1>1 DEF Emptied, Types
<1>5. Types'
  BY <1>1, <1>3, <1>4, ReleaseTyped DEF Types
<1> QED
  BY <1>1, <1>3, <1>4, <1>5

LEMMA DiesStep ==
    ASSUME Types, Locks, NEW r \in Requests, Dies(r)
    PROVE  /\ Types' /\ Locks'
           /\ \A d \in Requests \ {r} :
                 /\ request'[d] = request[d] /\ writes'[d] = writes[d]
                 /\ appended'[d] = appended[d] /\ status'[d] = status[d]
           /\ writes'[r] = {} /\ appended'[r] = {}
           /\ request'[r].pc = "done" /\ status'[r] = "lost"
           /\ UNCHANGED <<reports, events, nextId>>
<1> DEFINE state == [request[r] EXCEPT !.pc = "done", !.todo = <<>>]
<1>1. /\ request[r].pc \notin {"idle", "done"} /\ faults' = faults + 1
      /\ request' = [request EXCEPT ![r] = state] /\ status' = [status EXCEPT ![r] = "lost"]
      /\ Release(r) /\ Emptied(r)
      /\ UNCHANGED <<reports, events, nextId, maintenance>>
  BY DEF Dies, RolledBack
<1>2. /\ request[r] \in RequestStates /\ request[r].input \in Inputs /\ <<>> \in Seq(Actions)
  BY <1>1, Trails DEF Types, Locks, LockInv
<1>3. /\ state \in RequestStates /\ state.pc = "done" /\ state.input = request[r].input
  BY <1>2 DEF RequestStates, Pcs
<1> HIDE DEF state
<1>4. Locks' /\ request' \in [Requests -> RequestStates] /\ request'[r] = state
  BY <1>1, <1>2, <1>3, Moved
<1>5. /\ writes' \in [Requests -> SUBSET Rows] /\ appended' \in [Requests -> SUBSET Events]
      /\ writes'[r] = {} /\ appended'[r] = {}
      /\ \A d \in Requests \ {r} : writes'[d] = writes[d] /\ appended'[d] = appended[d]
  BY <1>1 DEF Emptied, Types
<1>6. /\ status' \in [Requests -> Answers] /\ status'[r] = "lost"
      /\ \A d \in Requests \ {r} : status'[d] = status[d] /\ request'[d] = request[d]
  BY <1>1 DEF Types, Answers
<1>7. Types'
  BY <1>1, <1>4, <1>5, <1>6, ReleaseTyped DEF Types
<1> QED
  BY <1>1, <1>3, <1>4, <1>5, <1>6, <1>7

(***************************************************************************)
(* The chain: what a transaction sees, its own events included, is a chain *)
(* below the sequence, and only the holder of the audit lock has events of *)
(* its own, so that two chains never grow from one end.                    *)
(***************************************************************************)
ChainOf(E) ==
    \A e \in E :
        /\ e.previous < e.id
        /\ e.previous # 0 => \E x \in E : x.id = e.previous
        /\ \A x \in E : x.id <= e.previous \/ x = e \/ x.id > e.id

Chain ==
    /\ ChainOf(events) /\ \A e \in events : e.id < nextId
    /\ \A r \in Requests :
          /\ \A e \in appended[r] : e.id < nextId /\ e.of = r
          /\ appended[r] # {} => auditLock = r
          /\ ChainOf(events \union appended[r])

\* An event above all others, naming the highest of them, extends their chain.
LEMMA ChainGrows ==
    ASSUME NEW E \in SUBSET Events, NEW n \in Nat \ {0}, \A e \in E : e.id < n,
           ChainOf(E), NEW e \in Events, e.id = n,
           e.previous = Max({0} \union {x.id : x \in E})
    PROVE  /\ ChainOf(E \union {e}) /\ \A x \in E \union {e} : x.id < n + 1
<1> DEFINE W == {0} \union {x.id : x \in E}
           I == 0..(n - 1)
<1>1. \A x \in E : x.id \in Nat /\ x.previous \in Nat /\ x.id \in W
  BY DEF Events
<1>2. W \in SUBSET I /\ W # {} /\ \A i \in W : i # 0 => \E x \in E : x.id = i
  <2>1. 0 \in I
    OBVIOUS
  <2>2. ASSUME NEW x \in E PROVE x.id \in I
    BY <1>1, <2>2
  <2> HIDE DEF I
  <2> QED
    BY <2>1, <2>2
<1>3. IsFiniteSet(I) /\ I \subseteq Int
  BY FS_Interval
<1> HIDE DEF W, I
<1>4. IsFiniteSet(W) /\ W \subseteq Int
  BY <1>2, <1>3, FS_Subset
<1>5. Max(W) \in W /\ \A y \in W : Max(W) >= y
  BY <1>2, <1>4, MaxOfFinite
<1>6. /\ e.previous \in Nat /\ e.previous < n /\ (e.previous # 0 => \E x \in E : x.id = e.previous)
      /\ \A x \in E : x.id <= e.previous
  <2>1. e.previous = Max(W)
    BY DEF W
  <2>2. e.previous \in 0..(n - 1)
    BY <1>2, <1>5, <2>1 DEF I
  <2>3. \A x \in E : e.previous >= x.id
    BY <1>1, <1>5, <2>1
  <2>4. e.previous # 0 => \E x \in E : x.id = e.previous
    BY <1>2, <1>5, <2>1
  <2>5. \A x \in E : x.id <= e.previous
    BY <1>1, <2>2, <2>3
  <2>6. e.previous \in Nat /\ e.previous < n
    BY <2>2
  <2> QED
    BY <2>4, <2>5, <2>6
<1>7. ASSUME NEW y \in E \union {e}
      PROVE  /\ y.previous < y.id
             /\ y.previous # 0 => \E x \in E \union {e} : x.id = y.previous
             /\ \A x \in E \union {e} : x.id <= y.previous \/ x = y \/ x.id > y.id
  <2>1. CASE y = e
    BY <1>1, <1>6, <2>1
  <2>2. CASE y \in E
    <3>1. /\ y.previous < y.id
          /\ y.previous # 0 => \E x \in E : x.id = y.previous
          /\ \A x \in E : x.id <= y.previous \/ x = y \/ x.id > y.id
      BY <2>2 DEF ChainOf
    <3>2. e.id > y.id
      BY <1>1, <2>2
    <3> QED
      BY <3>1, <3>2
  <2> QED
    BY <2>1, <2>2
<1>8. \A x \in E \union {e} : x.id < n + 1
  BY <1>1
<1> QED
  BY <1>7, <1>8 DEF ChainOf

\* What is still to be noted and what has been: together, the trail.
Noted(r) ==
    IF request[r].phase = "service" THEN Trail(request[r].input.op)
    ELSE IF request[r].phase = "denial" THEN <<"service.denied">> ELSE <<"api.request">>

In(a, s) == \E n \in 1..Len(s) : s[n] = a

TrailInv(r) ==
    /\ Writing(r) => \A a \in Actions :
          In(a, Noted(r)) <=> In(a, request[r].todo) \/ \E e \in appended[r] : e.action = a
    /\ request[r].pc \in {"auditing", "appending"} => request[r].todo # <<>>
    /\ request[r].pc = "committing" => request[r].todo = <<>>

TrailsInv == \A r \in Requests : TrailInv(r)

LEMMA HeadAndTail ==
    ASSUME NEW s \in Seq(Actions), s # <<>>
    PROVE  /\ Head(s) \in Actions /\ Tail(s) \in Seq(Actions)
           /\ \A a \in Actions : In(a, s) <=> a = Head(s) \/ In(a, Tail(s))
           /\ Len(s) = 1 => Tail(s) = <<>>
           /\ Len(s) # 1 => Tail(s) # <<>>
<1>1. /\ Head(s) \in Actions /\ Tail(s) \in Seq(Actions) /\ Len(s) \in Nat \ {0}
      /\ Head(s) = s[1] /\ Len(Tail(s)) = Len(s) - 1
      /\ \A n \in 1..Len(Tail(s)) : Tail(s)[n] = s[n + 1]
  <2> HIDE DEF Actions
  <2> QED
    OBVIOUS
<1>2. (Len(s) = 1 => Tail(s) = <<>>) /\ (Len(s) # 1 => Tail(s) # <<>>)
  <2> HIDE DEF Actions
  <2> QED
    BY <1>1
<1>3. ASSUME NEW a, In(a, s) PROVE a = Head(s) \/ In(a, Tail(s))
  <2>1. PICK n \in 1..Len(s) : s[n] = a
    BY <1>3 DEF In
  <2>2. CASE n = 1
    BY <1>1, <2>1, <2>2
  <2>3. CASE n # 1
    <3>1. n - 1 \in 1..Len(Tail(s)) /\ n - 1 + 1 = n
      BY <1>1, <2>3
    <3> QED
      BY <1>1, <2>1, <3>1 DEF In
  <2> QED
    BY <2>2, <2>3
<1>4. ASSUME NEW a, In(a, Tail(s)) PROVE In(a, s)
  <2>1. PICK n \in 1..Len(Tail(s)) : Tail(s)[n] = a
    BY <1>4 DEF In
  <2>2. n + 1 \in 1..Len(s)
    BY <1>1
  <2> QED
    BY <1>1, <2>1, <2>2 DEF In
<1>5. In(Head(s), s)
  BY <1>1 DEF In
<1> QED
  BY <1>1, <1>2, <1>3, <1>4, <1>5

LEMMA AppendEventStep ==
    ASSUME Types, Locks, Chain, TrailsInv, NEW r \in Requests, AppendEvent(r)
    PROVE  /\ Types' /\ Locks' /\ Chain' /\ TrailInv(r)'
           /\ \A d \in Requests \ {r} : request'[d] = request[d] /\ appended'[d] = appended[d]
           /\ request[r].pc = "appending" /\ request'[r].pc \in {"appending", "committing"}
           /\ request'[r].phase = request[r].phase /\ request'[r].input = request[r].input
           /\ UNCHANGED <<reports, events, writes, status>>
<1> DEFINE e == [id |-> nextId, previous |-> LastSeen(r), of |-> r,
                 action |-> Head(request[r].todo)]
           s == request[r].todo
           state == [request[r] EXCEPT !.todo = Tail(@),
                        !.pc = IF Len(request[r].todo) = 1 THEN "committing" ELSE "appending"]
           E == events \union appended[r]
<1>1. /\ request[r].pc = "appending" /\ nextId' = nextId + 1
      /\ appended' = [appended EXCEPT ![r] = appended[r] \union {e}]
      /\ request' = [request EXCEPT ![r] = state]
      /\ UNCHANGED <<reports, events, caseLock, auditLock, maintenance, writes, status, faults>>
  BY DEF AppendEvent
<1>2. /\ request[r] \in RequestStates /\ s \in Seq(Actions) /\ s # <<>>
      /\ request[r].input \in Inputs
  <2>1. request[r] \in RequestStates
    BY DEF Types
  <2> QED
    BY <1>1, <2>1 DEF Locks, LockInv, TrailsInv, TrailInv, RequestStates
<1>3. /\ Head(s) \in Actions /\ Tail(s) \in Seq(Actions)
      /\ \A a \in Actions : In(a, s) <=> a = Head(s) \/ In(a, Tail(s))
      /\ Len(s) = 1 => Tail(s) = <<>>
      /\ Len(s) # 1 => Tail(s) # <<>>
  BY <1>2, HeadAndTail
<1>4. /\ state \in RequestStates /\ state.phase = request[r].phase
      /\ state.input = request[r].input /\ state.todo = Tail(s)
      /\ state.pc = IF Len(s) = 1 THEN "committing" ELSE "appending"
  BY <1>2, <1>3 DEF RequestStates, Pcs
<1>5. /\ E \in SUBSET Events /\ nextId \in Nat \ {0} /\ ChainOf(E)
      /\ \A x \in E : x.id < nextId
  BY DEF Types, Chain
<1>6. e \in Events
  <2>1. LastSeen(r) \in Nat
    <3> DEFINE W == {0} \union {x.id : x \in E}
               I == 0..(nextId - 1)
    <3>1. W \in SUBSET I /\ W # {}
      <4>1. 0 \in I
        BY <1>5
      <4>2. \A x \in E : x.id \in I
        BY <1>5 DEF Events
      <4> HIDE DEF I, E
      <4> QED
        BY <4>1, <4>2
    <3>2. IsFiniteSet(I) /\ I \subseteq Nat
      BY <1>5, FS_Interval
    <3>3. LastSeen(r) = Max(W)
      BY DEF LastSeen
    <3> HIDE DEF W, I
    <3>4. IsFiniteSet(W)
      BY <3>1, <3>2, FS_Subset
    <3>5. W \subseteq Int
      BY <3>1, <3>2
    <3>6. Max(W) \in W
      BY <3>1, <3>4, <3>5, MaxOfFinite
    <3> QED
      BY <3>1, <3>2, <3>3, <3>6
  <2> QED
    BY <1>3, <1>5, <2>1 DEF Events
<1>7. ChainOf(E \union {e}) /\ \A x \in E \union {e} : x.id < nextId + 1
  <2>1. e.id = nextId /\ e.previous = Max({0} \union {x.id : x \in E})
    BY DEF LastSeen
  <2> HIDE DEF e, E
  <2> QED
    BY <1>5, <1>6, <2>1, ChainGrows
<1>8. e.of = r /\ e.action = Head(s)
  OBVIOUS
<1> HIDE DEF e, s, state
<1>9. Locks' /\ request' \in [Requests -> RequestStates] /\ request'[r] = state
  <2>1. state.pc # "idle" /\ state.input \in Inputs /\ state.pc \in {"appending", "committing"}
    BY <1>2, <1>4
  <2>2. maintenance # "held"
    BY <1>1 DEF Locks, LockInv, Open
  <2> QED
    BY <1>1, <1>4, <2>1, <2>2, Moved
<1>10. /\ appended' \in [Requests -> SUBSET Events] /\ appended'[r] = appended[r] \union {e}
       /\ \A d \in Requests \ {r} : request'[d] = request[d] /\ appended'[d] = appended[d]
  BY <1>1, <1>6 DEF Types
<1>11. Types'
  BY <1>1, <1>9, <1>10 DEF Types
<1>12. auditLock = r
  BY <1>1 DEF Locks, LockInv
<1>13. Chain'
  <2>1. ChainOf(events') /\ \A x \in events' : x.id < nextId'
    BY <1>1, <1>5, <1>7 DEF Chain
  <2>2. ASSUME NEW d \in Requests
        PROVE  /\ \A x \in appended'[d] : x.id < nextId' /\ x.of = d
               /\ appended'[d] # {} => auditLock' = d
               /\ ChainOf(events' \union appended'[d])
    <3>1. CASE d = r
      BY <1>1, <1>7, <1>8, <1>10, <1>12, <3>1 DEF Chain
    <3>2. CASE d # r
      <4>1. appended'[d] = {}
        BY <1>10, <1>12, <3>2 DEF Chain
      <4> QED
        BY <1>1, <4>1 DEF Chain
    <3> QED
      BY <3>1, <3>2
  <2> QED
    BY <2>1, <2>2 DEF Chain
<1>14. TrailInv(r)'
  <2>1. Noted(r)' = Noted(r)
    BY <1>4, <1>9 DEF Noted
  <2>2. \A a \in Actions :
           In(a, Noted(r)) <=> In(a, s) \/ \E x \in appended[r] : x.action = a
    BY <1>1 DEF TrailsInv, TrailInv, Writing, s
  <2>3. \A a \in Actions :
           In(a, Noted(r)) <=> In(a, Tail(s)) \/ \E x \in appended'[r] : x.action = a
    BY <1>3, <1>8, <1>10, <2>2
  <2> QED
    BY <1>3, <1>4, <1>9, <2>1, <2>3 DEF TrailInv, s
<1> QED
  BY <1>1, <1>4, <1>9, <1>10, <1>11, <1>13, <1>14

(***************************************************************************)
(* The reports: a version is taken once, a draft is what nobody decided,   *)
(* and what a transaction is about to write still fits what is committed.  *)
(***************************************************************************)
WriteInv(r) ==
    IF request[r].phase = "service" /\ Writing(r) THEN Written(r, writes[r])
    ELSE writes[r] = {}

Writes == \A r \in Requests : WriteInv(r)

Reports ==
    /\ \A x, y \in reports : x.case = y.case /\ x.version = y.version => x = y
    /\ \A x \in reports : x.state = "draft" <=> x.decided = NoRequest

LEMMA InTrail ==
    /\ \A i \in Inputs :
          /\ In("report.version-created", Trail(i.op)) <=> i.op = "add_report"
          /\ In("report.approved", Trail(i.op)) <=> i.op = "approve"
          /\ In("report.rejected", Trail(i.op)) <=> i.op = "reject"
          /\ In("report.reviewed", Trail(i.op)) <=> i.op \in {"approve", "reject"}
    /\ \A a : In(a, <<"service.denied">>) <=> a = "service.denied"
    /\ \A a : In(a, <<"api.request">>) <=> a = "api.request"
<1>1. ASSUME NEW s, NEW b, NEW c, s = <<b, c>>
      PROVE  \A a : In(a, s) <=> a = b \/ a = c
  <2>1. Len(s) = 2 /\ s[1] = b /\ s[2] = c /\ 1..2 = {1, 2}
    BY <1>1
  <2>2. \A a : In(a, s) <=> \E n \in {1, 2} : s[n] = a
    BY <2>1 DEF In
  <2> QED
    BY <2>1, <2>2
<1>2. ASSUME NEW s, NEW b, s = <<b>>
      PROVE  \A a : In(a, s) <=> a = b
  <2>1. Len(s) = 1 /\ s[1] = b /\ 1..1 = {1}
    BY <1>2
  <2>2. \A a : In(a, s) <=> \E n \in {1} : s[n] = a
    BY <2>1 DEF In
  <2> QED
    BY <2>1, <2>2
<1>3. ASSUME NEW i \in Inputs
      PROVE  /\ In("report.version-created", Trail(i.op)) <=> i.op = "add_report"
             /\ In("report.approved", Trail(i.op)) <=> i.op = "approve"
             /\ In("report.rejected", Trail(i.op)) <=> i.op = "reject"
             /\ In("report.reviewed", Trail(i.op)) <=> i.op \in {"approve", "reject"}
  <2>1. i.op \in {"add_report", "read_report", "approve", "reject"}
    BY DEF Inputs
  <2>2. CASE i.op = "add_report"
    <3>1. Trail(i.op) = <<"object.created", "report.version-created">>
      BY <2>2 DEF Trail
    <3>2. \A a : In(a, Trail(i.op)) <=> a = "object.created" \/ a = "report.version-created"
      BY <1>1, <1>2, <3>1
    <3> QED
      BY <2>2, <3>2
  <2>3. CASE i.op = "read_report"
    <3>1. Trail(i.op) = <<"report.read">>
      BY <2>3 DEF Trail
    <3>2. \A a : In(a, Trail(i.op)) <=> a = "report.read"
      BY <1>1, <1>2, <3>1
    <3> QED
      BY <2>3, <3>2
  <2>4. CASE i.op = "approve"
    <3>1. Trail(i.op) = <<"report.approved", "report.reviewed">>
      BY <2>4 DEF Trail
    <3>2. \A a : In(a, Trail(i.op)) <=> a = "report.approved" \/ a = "report.reviewed"
      BY <1>1, <1>2, <3>1
    <3> QED
      BY <2>4, <3>2
  <2>5. CASE i.op = "reject"
    <3>1. Trail(i.op) = <<"report.rejected", "report.reviewed">>
      BY <2>5 DEF Trail
    <3>2. \A a : In(a, Trail(i.op)) <=> a = "report.rejected" \/ a = "report.reviewed"
      BY <1>1, <1>2, <3>1
    <3> QED
      BY <2>5, <3>2
  <2> QED
    BY <2>1, <2>2, <2>3, <2>4, <2>5
<1> QED
  BY <1>1, <1>3, <1>2

\* What a commit does to the reports.
Adds(r) ==
    /\ request[r].input.op = "add_report"
    /\ \E row \in Rows : IsNew(row, r) /\ reports' = reports \union {row}

Decides(r) ==
    /\ request[r].input.op \in {"approve", "reject"}
    /\ \E x \in reports :
          /\ x.case = request[r].input.case /\ x.state = "draft"
          /\ x.author # request[r].input.user
          /\ reports' = (reports \ {x}) \union {Decided(x, r)}

Reads(r) ==
    /\ request[r].phase = "service" => request[r].input.op = "read_report" /\ Readable(r)
    /\ reports' = reports

LEMMA Committed ==
    ASSUME Types, Locks, Reports, Writes, NEW r \in Requests, request[r].pc = "committing",
           reports' = Replaced(writes[r])
    PROVE  \/ Reads(r)
           \/ request[r].phase = "service" /\ Adds(r)
           \/ request[r].phase = "service" /\ Decides(r)
<1>1. request[r].input \in Inputs
  BY DEF Locks, LockInv
<1>2. CASE writes[r] = {}
  <2>1. reports' = reports
    BY <1>2 DEF Replaced
  <2>2. ASSUME request[r].phase = "service" PROVE request[r].input.op = "read_report" /\ Readable(r)
    <3>1. Written(r, {})
      BY <1>2, <2>2 DEF Writes, WriteInv, Writing
    <3> QED
      BY <1>1, <3>1 DEF Written, Inputs
  <2> QED
    BY <2>1, <2>2 DEF Reads
<1>3. CASE writes[r] # {}
  <2>1. request[r].phase = "service" /\ Written(r, writes[r])
    BY <1>3 DEF Writes, WriteInv
  <2>2. CASE request[r].input.op = "add_report"
    <3>1. PICK row \in Rows : writes[r] = {row} /\ IsNew(row, r)
      BY <2>1, <2>2 DEF Written
    <3>2. reports' = reports \union {row}
      BY <3>1 DEF Replaced, IsNew
    <3> QED
      BY <2>1, <2>2, <3>1, <3>2 DEF Adds
  <2>3. CASE request[r].input.op \in {"approve", "reject"}
    <3>1. PICK row \in Rows : writes[r] = {row} /\ IsDecision(row, r)
      BY <2>1, <2>3 DEF Written
    <3>2. PICK x \in reports : /\ x.case = request[r].input.case /\ x.state = "draft"
                               /\ x.author # request[r].input.user /\ row = Decided(x, r)
      BY <3>1 DEF IsDecision
    <3>3. x \in Rows /\ row.case = x.case /\ row.version = x.version
      BY <1>1, <3>2, DecidedTyped DEF Types
    <3>4. \A y \in reports : <<y.case, y.version>> = <<row.case, row.version>> <=> y = x
      BY <3>3 DEF Reports
    <3>5. reports' = (reports \ {x}) \union {row}
      BY <3>1, <3>4 DEF Replaced
    <3> QED
      BY <2>1, <2>3, <3>2, <3>5 DEF Decides
  <2>4. CASE request[r].input.op = "read_report"
    BY <1>3, <2>1, <2>4 DEF Written
  <2> QED
    BY <1>1, <2>2, <2>3, <2>4 DEF Inputs
<1> QED
  BY <1>2, <1>3

LEMMA CommitStep ==
    ASSUME Types, Locks, Chain, Reports, Writes, NEW r \in Requests, Commit(r)
    PROVE  /\ Types' /\ Locks' /\ Chain' /\ Reports'
           /\ \A d \in Requests \ {r} :
                 /\ request'[d] = request[d] /\ writes'[d] = writes[d]
                 /\ appended'[d] = appended[d] /\ status'[d] = status[d]
           /\ request[r].pc = "committing" /\ request'[r].input = request[r].input
           /\ request'[r].phase = "request"
           /\ IF request[r].phase = "request"
              THEN request'[r].pc = "done" /\ status'[r] \in {status[r], "unavailable"}
              ELSE request'[r].pc = "entering" /\ status'[r] \in {Outcome(r), "unavailable"}
           /\ writes'[r] = {} /\ appended'[r] = {}
           /\ events' = events \union appended[r] /\ nextId' = nextId
           /\ \/ Reads(r)
              \/ request[r].phase = "service" /\ Adds(r)
              \/ request[r].phase = "service" /\ Decides(r)
<1>1. /\ request[r].pc = "committing" /\ reports' = Replaced(writes[r])
      /\ events' = events \union appended[r] /\ UNCHANGED <<nextId, maintenance>>
      /\ Release(r) /\ Emptied(r) /\ faults' \in {faults, faults + 1}
  BY DEF Commit
<1>2. PICK answer \in Answers : answer \in {Outcome(r), "unavailable"} /\ Proceed(r, answer)
  <2>1. Outcome(r) \in Answers /\ "unavailable" \in Answers
    BY DEF Outcome, Answers
  <2>2. Proceed(r, Outcome(r)) \/ Proceed(r, "unavailable")
    BY DEF Commit
  <2> QED
    BY <2>1, <2>2
<1>3. request[r].pc \notin {"idle", "done"} /\ maintenance' = maintenance /\ Release(r)
  BY <1>1
<1>4. Outcome(r) # "unavailable"
  BY DEF Outcome
<1>5. /\ Locks' /\ request' \in [Requests -> RequestStates]
      /\ status' \in [Requests -> Answers]
      /\ request'[r].input = request[r].input /\ request'[r].phase = "request"
      /\ IF request[r].phase = "request"
         THEN request'[r].pc = "done" /\ status'[r] \in {status[r], "unavailable"}
         ELSE request'[r].pc = "entering" /\ status'[r] \in {Outcome(r), "unavailable"}
      /\ \A d \in Requests \ {r} : request'[d] = request[d] /\ status'[d] = status[d]
  BY <1>2, <1>3, Ended
<1>6. /\ writes' \in [Requests -> SUBSET Rows] /\ appended' \in [Requests -> SUBSET Events]
      /\ writes'[r] = {} /\ appended'[r] = {}
      /\ \A d \in Requests \ {r} : writes'[d] = writes[d] /\ appended'[d] = appended[d]
  BY <1>1 DEF Emptied, Types
<1>7. \/ Reads(r)
      \/ request[r].phase = "service" /\ Adds(r)
      \/ request[r].phase = "service" /\ Decides(r)
  BY <1>1, Committed
<1>8. request[r].input \in Inputs
  BY <1>1 DEF Locks, LockInv
<1>9. reports' \in SUBSET Rows /\ IsFiniteSet(reports') /\ Reports'
  <2>1. reports \in SUBSET Rows /\ IsFiniteSet(reports)
    BY DEF Types
  <2>2. CASE Reads(r)
    BY <2>1, <2>2 DEF Reads, Reports
  <2>3. CASE Adds(r)
    <3>1. PICK row \in Rows : IsNew(row, r) /\ reports' = reports \union {row}
      BY <2>3 DEF Adds
    <3>2. IsFiniteSet(reports \union {row})
      BY <2>1, FS_AddElement
    <3>3. Reports'
      BY <3>1 DEF Reports, IsNew
    <3> QED
      BY <2>1, <3>1, <3>2, <3>3
  <2>4. CASE Decides(r)
    <3>1. PICK x \in reports : /\ x.case = request[r].input.case /\ x.state = "draft"
                               /\ reports' = (reports \ {x}) \union {Decided(x, r)}
      BY <2>4 DEF Decides
    <3> DEFINE row == Decided(x, r)
    <3>2. /\ row \in Rows /\ row.case = x.case /\ row.version = x.version
          /\ row.decided = r /\ row.state # "draft"
      BY <1>8, <2>1, DecidedTyped
    <3> HIDE DEF row
    <3>3. IsFiniteSet(reports \ {x})
      BY <2>1, FS_RemoveElement
    <3>4. IsFiniteSet((reports \ {x}) \union {row})
      BY <3>3, FS_AddElement
    <3>5. reports' = (reports \ {x}) \union {row}
      BY <3>1 DEF row
    <3>6. Reports'
      BY <3>2, <3>5, TeamAuditAssumption DEF Reports
    <3> QED
      BY <2>1, <3>2, <3>4, <3>5, <3>6
  <2> QED
    BY <1>7, <2>2, <2>3, <2>4
<1>10. events' \in SUBSET Events
  BY <1>1 DEF Types
<1>11. Types'
  BY <1>1, <1>5, <1>6, <1>9, <1>10, ReleaseTyped DEF Types
<1>12. Chain'
  <2>1. auditLock = r
    BY <1>1 DEF Locks, LockInv
  <2>2. \A d \in Requests : appended'[d] = {}
    BY <1>6, <2>1, TeamAuditAssumption DEF Chain
  <2>3. ChainOf(events') /\ \A e \in events' : e.id < nextId'
    BY <1>1 DEF Chain
  <2>4. ASSUME NEW d \in Requests PROVE ChainOf(events' \union appended'[d])
    BY <2>2, <2>3
  <2> QED
    BY <2>2, <2>3, <2>4 DEF Chain
<1> QED
  BY <1>1, <1>5, <1>6, <1>7, <1>9, <1>11, <1>12

(***************************************************************************)
(* The answers: until it is decided whether a request is granted nothing   *)
(* of it is in the reports; what was said of it afterwards stays true.     *)
(***************************************************************************)
Untouched(r) == \A row \in reports : row.of # r /\ row.decided # r

Stands(r, row) ==
    LET i == request[r].input
    IN  /\ i.op = "add_report" => row.of = r
        /\ i.op = "read_report" =>
              /\ row.case = i.case /\ row.version = i.version
              /\ RoleOf[i.user] = "viewer" => row.state = "approved"
        /\ i.op \notin {"add_report", "read_report"} => row.decided = r /\ row.author # i.user

Audited(r, a) == \E e \in events : e.of = r /\ e.action = a

AnswerInv(r) ==
    /\ request[r].phase # "request" =>
          /\ status[r] \in {"none", "lost"}
          /\ request[r].pc # "done" => status[r] = "none" /\ Untouched(r)
    /\ status[r] = "ok" =>
          /\ \A a \in Actions : In(a, Trail(request[r].input.op)) => Audited(r, a)
          /\ \E row \in reports : Stands(r, row)
    /\ status[r] = "denied" => Audited(r, "service.denied") /\ Untouched(r)
    /\ status[r] \in {"ok", "denied"} /\ request[r].pc = "done" => Audited(r, "api.request")

AnswersInv == \A r \in Requests : AnswerInv(r)

IInv ==
    /\ Types /\ Locks /\ Chain /\ TrailsInv /\ Writes /\ Reports
    /\ ChangesAreAudited /\ AnswersInv

LEMMA InitHolds ==
    ASSUME Init PROVE IInv
<1>1. Types
  <2>1. IsFiniteSet({})
    BY FS_EmptySet
  <2>2. Idle \in RequestStates
    BY Trails DEF Idle, RequestStates, Pcs, Phases
  <2> HIDE DEF Idle
  <2> QED
    BY <2>1, <2>2 DEF Init, Types, Answers
<1>2. \A r \in Requests :
        /\ request[r].pc = "idle" /\ request[r].phase = "service"
        /\ writes[r] = {} /\ appended[r] = {} /\ status[r] = "none"
  BY DEF Init, Idle
<1>3. reports = {} /\ events = {} /\ auditLock = NoRequest /\ maintenance = "free"
      /\ \A c \in Cases : caseLock[c] = NoRequest
  BY DEF Init
<1>4. Locks
  BY <1>2, <1>3, TeamAuditAssumption DEF Locks, LockInv, Open
<1>5. Chain /\ TrailsInv /\ Writes /\ Reports
  BY <1>2, <1>3 DEF Chain, ChainOf, TrailsInv, TrailInv, Writes, WriteInv, Writing, Reports
<1>6. ChangesAreAudited
  BY <1>3 DEF ChangesAreAudited
<1>7. AnswersInv
  BY <1>2, <1>3 DEF AnswersInv, AnswerInv, Untouched
<1> QED
  BY <1>1, <1>4, <1>5, <1>6, <1>7 DEF IInv

\* What a transaction is about to write depends on the rows of its case only.
LEMMA Elsewhere ==
    ASSUME NEW d \in Requests, WriteInv(d), writes'[d] = writes[d],
           request'[d].phase = request[d].phase, request'[d].input = request[d].input,
           Writing(d)' <=> Writing(d),
           request[d].phase = "service" /\ Writing(d) =>
              \A x : x.case = request[d].input.case => (x \in reports' <=> x \in reports)
    PROVE  WriteInv(d)'
<1> DEFINE op == request[d].input.op
<1>1. CASE ~(request[d].phase = "service" /\ Writing(d))
  BY <1>1 DEF WriteInv
<1>2. CASE request[d].phase = "service" /\ Writing(d)
  <2>1. Written(d, writes[d])
    BY <1>2 DEF WriteInv
  <2>2. ASSUME NEW row, IsNew(row, d) PROVE IsNew(row, d)'
    BY <1>2, <2>2 DEF IsNew
  <2>3. \A x : Decided(x, d)' = Decided(x, d)
    BY DEF Decided
  <2>4. ASSUME NEW row, IsDecision(row, d) PROVE IsDecision(row, d)'
    <3>1. PICK x \in reports : /\ x.case = request[d].input.case /\ x.state = "draft"
                               /\ x.author # request[d].input.user /\ row = Decided(x, d)
      BY <2>4 DEF IsDecision
    <3>2. x \in reports'
      BY <1>2, <3>1
    <3>3. row = Decided(x, d)'
      BY <2>3, <3>1
    <3> QED
      BY <3>1, <3>2, <3>3 DEF IsDecision
  <2>5. Readable(d) => Readable(d)'
    BY <1>2 DEF Readable
  <2>6. op = "add_report" => \E row \in Rows : writes'[d] = {row} /\ IsNew(row, d)'
    BY <2>1, <2>2 DEF Written
  <2>7. op \in {"approve", "reject"} => \E row \in Rows : writes'[d] = {row} /\ IsDecision(row, d)'
    BY <2>1, <2>4 DEF Written
  <2>8. op = "read_report" => writes'[d] = {} /\ Readable(d)'
    BY <2>1, <2>5 DEF Written
  <2>9. Written(d, writes[d])'
    BY <2>6, <2>7, <2>8 DEF Written
  <2> QED
    BY <1>2, <2>9 DEF WriteInv
<1> QED
  BY <1>1, <1>2

\* A request moves on, and nothing is committed or noted.
LEMMA Quiet ==
    ASSUME IInv, Types', Locks', NEW r \in Requests,
           \A d \in Requests \ {r} : request'[d] = request[d] /\ writes'[d] = writes[d],
           request[r].pc \notin {"appending", "committing", "done"},
           request'[r].pc # "done",
           UNCHANGED <<reports, events, nextId, appended, status>>,
           \/ request'[r].phase = request[r].phase
           \/ request[r].phase = "service" /\ request'[r].phase = "denial",
           request'[r].input = request[r].input \/ status[r] = "none",
           TrailInv(r)', WriteInv(r)'
    PROVE  IInv'
<1>1. Chain'
  <2>1. ASSUME NEW d \in Requests, appended[d] # {} PROVE auditLock' = d
    <3>1. auditLock = d
      BY <2>1 DEF IInv, Chain
    <3>2. request[d].pc \in {"appending", "committing"}
      BY <3>1 DEF IInv, Locks, LockInv
    <3>3. request'[d] = request[d]
      BY <3>2
    <3> QED
      BY <3>2, <3>3 DEF Locks, LockInv
  <2> QED
    BY <2>1 DEF IInv, Chain, ChainOf
<1>2. ASSUME NEW d \in Requests \ {r} PROVE TrailInv(d)' /\ WriteInv(d)' /\ AnswerInv(d)'
  <2>1. request'[d] = request[d] /\ writes'[d] = writes[d]
    OBVIOUS
  <2>2. TrailInv(d)'
    BY <2>1 DEF IInv, TrailsInv, TrailInv, Writing, Noted
  <2>3. WriteInv(d)'
    <3>1. WriteInv(d)
      BY DEF IInv, Writes
    <3> QED
      BY <2>1, <3>1, Elsewhere DEF Writing
  <2>4. AnswerInv(d)'
    <3>1. AnswerInv(d)
      BY DEF IInv, AnswersInv
    <3> QED
      BY <2>1, <3>1 DEF AnswerInv, Audited, Untouched, Stands
  <2> QED
    BY <2>2, <2>3, <2>4
<1>3. AnswerInv(r)'
  <2>1. AnswerInv(r)
    BY DEF IInv, AnswersInv
  <2> QED
    BY <2>1 DEF AnswerInv, Audited, Untouched, Stands
<1>4. Reports' /\ ChangesAreAudited'
  BY DEF IInv, Reports, ChangesAreAudited
<1> QED
  BY <1>1, <1>2, <1>3, <1>4 DEF IInv, TrailsInv, Writes, AnswersInv

\* A transaction is cut off: it leaves nothing but gaps in the sequence.
LEMMA Dropped ==
    ASSUME IInv, Types', Locks', NEW r \in Requests,
           \A d \in Requests \ {r} :
              /\ request'[d] = request[d] /\ writes'[d] = writes[d]
              /\ appended'[d] = appended[d] /\ status'[d] = status[d],
           writes'[r] = {}, appended'[r] = {},
           \/ request'[r].pc = "done" /\ status'[r] = "lost"
           \/ /\ request'[r].pc \in {"entering", "done"} /\ request'[r].phase = "request"
              /\ status'[r] = "unavailable",
           UNCHANGED <<reports, events, nextId>>
    PROVE  IInv'
<1>1. Chain'
  <2>1. ASSUME NEW d \in Requests
        PROVE  /\ \A e \in appended'[d] : e.id < nextId' /\ e.of = d
               /\ appended'[d] # {} => auditLock' = d
               /\ ChainOf(events' \union appended'[d])
    <3>1. CASE d = r
      BY <3>1 DEF IInv, Chain
    <3>2. CASE d # r
      <4>1. appended'[d] = appended[d] /\ request'[d] = request[d]
        BY <3>2
      <4>2. appended[d] # {} => request[d].pc \in {"appending", "committing"}
        BY DEF IInv, Chain, Locks, LockInv
      <4>3. request'[d].pc \in {"appending", "committing"} => auditLock' = d
        BY DEF Locks, LockInv
      <4> QED
        BY <4>1, <4>2, <4>3 DEF IInv, Chain
    <3> QED
      BY <3>1, <3>2
  <2>2. ChainOf(events') /\ \A e \in events' : e.id < nextId'
    BY DEF IInv, Chain
  <2> QED
    BY <2>1, <2>2 DEF Chain
<1>2. ASSUME NEW d \in Requests \ {r} PROVE TrailInv(d)' /\ WriteInv(d)' /\ AnswerInv(d)'
  <2>1. /\ request'[d] = request[d] /\ writes'[d] = writes[d]
        /\ appended'[d] = appended[d] /\ status'[d] = status[d]
    OBVIOUS
  <2>2. TrailInv(d)'
    BY <2>1 DEF IInv, TrailsInv, TrailInv, Writing, Noted
  <2>3. WriteInv(d)'
    <3>1. WriteInv(d)
      BY DEF IInv, Writes
    <3> QED
      BY <2>1, <3>1, Elsewhere DEF Writing
  <2>4. AnswerInv(d)'
    <3>1. AnswerInv(d)
      BY DEF IInv, AnswersInv
    <3> QED
      BY <2>1, <3>1 DEF AnswerInv, Audited, Untouched, Stands
  <2> QED
    BY <2>2, <2>3, <2>4
<1>3. TrailInv(r)' /\ WriteInv(r)' /\ AnswerInv(r)'
  BY DEF TrailInv, WriteInv, AnswerInv, Writing
<1>4. Reports' /\ ChangesAreAudited'
  BY DEF IInv, Reports, ChangesAreAudited
<1> QED
  BY <1>1, <1>2, <1>3, <1>4 DEF IInv, TrailsInv, Writes, AnswersInv

LEMMA AppendKept ==
    ASSUME IInv, NEW r \in Requests, AppendEvent(r) PROVE IInv'
<1>1. /\ Types' /\ Locks' /\ Chain' /\ TrailInv(r)'
      /\ \A d \in Requests \ {r} : request'[d] = request[d] /\ appended'[d] = appended[d]
      /\ request[r].pc = "appending" /\ request'[r].pc \in {"appending", "committing"}
      /\ request'[r].phase = request[r].phase /\ request'[r].input = request[r].input
      /\ UNCHANGED <<reports, events, writes, status>>
  BY AppendEventStep DEF IInv
<1>2. ASSUME NEW d \in Requests
      PROVE  /\ request'[d].phase = request[d].phase /\ request'[d].input = request[d].input
             /\ Writing(d)' <=> Writing(d)
             /\ request'[d].pc = "done" <=> request[d].pc = "done"
  BY <1>1 DEF Writing
<1>3. ASSUME NEW d \in Requests PROVE TrailInv(d)'
  <2>1. CASE d = r
    BY <1>1, <2>1
  <2>2. CASE d # r
    BY <1>1, <2>2 DEF IInv, TrailsInv, TrailInv, Writing, Noted
  <2> QED
    BY <2>1, <2>2
<1>4. ASSUME NEW d \in Requests PROVE WriteInv(d)'
  <2>1. WriteInv(d)
    BY DEF IInv, Writes
  <2> QED
    BY <1>1, <1>2, <2>1, Elsewhere
<1>5. ASSUME NEW d \in Requests PROVE AnswerInv(d)'
  <2>1. AnswerInv(d)
    BY DEF IInv, AnswersInv
  <2> QED
    BY <1>1, <1>2, <2>1 DEF AnswerInv, Audited, Untouched, Stands
<1>6. Reports' /\ ChangesAreAudited'
  BY <1>1 DEF IInv, Reports, ChangesAreAudited
<1> QED
  BY <1>1, <1>3, <1>4, <1>5, <1>6 DEF IInv, TrailsInv, Writes, AnswersInv

\* What a transaction that commits has noted.
LEMMA CommitNotes ==
    ASSUME IInv, NEW r \in Requests, request[r].pc = "committing",
           events' = events \union appended[r]
    PROVE  /\ \A a \in Actions : In(a, Noted(r)) => \E e \in events' : e.of = r /\ e.action = a
           /\ \A e \in appended[r] : e.of = r /\ In(e.action, Noted(r))
<1>1. \A a : ~In(a, <<>>)
  BY DEF In
<1>2. request[r].todo = <<>> /\ Writing(r)
  BY DEF IInv, TrailsInv, TrailInv, Writing
<1>3. \A a \in Actions : In(a, Noted(r)) <=> \E e \in appended[r] : e.action = a
  BY <1>1, <1>2 DEF IInv, TrailsInv, TrailInv
<1>4. \A e \in appended[r] : e.of = r /\ e.action \in Actions
  <2>1. appended[r] \in SUBSET Events
    BY DEF IInv, Types
  <2>2. \A e \in appended[r] : e.of = r
    BY DEF IInv, Chain
  <2> QED
    BY <2>1, <2>2 DEF Events
<1> QED
  BY <1>3, <1>4

\* What the commit of one request means for what others were told.
LEMMA OthersStand ==
    ASSUME IInv, NEW r \in Requests, NEW d \in Requests \ {r}, request[r].input \in Inputs,
           request'[d].input = request[d].input,
           Reads(r) \/ Adds(r) \/ Decides(r)
    PROVE  /\ Untouched(d) => Untouched(d)'
           /\ (\E row \in reports : Stands(d, row)) => \E row \in reports' : Stands(d, row)'
<1>1. CASE Reads(r)
  <2>1. reports' = reports
    BY <1>1 DEF Reads
  <2>2. \A x \in reports : Stands(d, x) => Stands(d, x)'
    BY DEF Stands
  <2> QED
    BY <2>1, <2>2 DEF Untouched
<1>2. CASE Adds(r)
  <2>1. PICK row \in Rows : IsNew(row, r) /\ reports' = reports \union {row}
    BY <1>2 DEF Adds
  <2>2. Untouched(d) => Untouched(d)'
    BY <2>1, TeamAuditAssumption DEF Untouched, IsNew
  <2>3. \A x \in reports : Stands(d, x) => x \in reports' /\ Stands(d, x)'
    BY <2>1 DEF Stands
  <2> QED
    BY <2>2, <2>3
<1>3. CASE Decides(r)
  <2>1. PICK x \in reports : x.state = "draft" /\ reports' = (reports \ {x}) \union {Decided(x, r)}
    BY <1>3 DEF Decides
  <2>0. PICK row : row = Decided(x, r)
    OBVIOUS
  <2>2. /\ row.case = x.case /\ row.version = x.version /\ row.author = x.author
        /\ row.of = x.of /\ row.decided = r
    BY <2>0, DecidedTyped DEF IInv, Types
  <2>3. x.decided = NoRequest
    BY <2>1 DEF IInv, Reports
  <2>4. reports' = (reports \ {x}) \union {row}
    BY <2>0, <2>1
  <2>5. Untouched(d) => Untouched(d)'
    BY <2>2, <2>4 DEF Untouched
  <2>6. ASSUME NEW y \in reports, Stands(d, y) PROVE \E z \in reports' : Stands(d, z)'
    <3>1. CASE y # x
      <4>1. y \in reports' /\ Stands(d, y)'
        BY <2>4, <2>6, <3>1 DEF Stands
      <4> QED
        BY <4>1
    <3>2. CASE y = x
      <4>1. row \in reports'
        BY <2>4
      <4>2. CASE request[d].input.op = "add_report"
        <5>1. row.of = d
          BY <2>2, <2>6, <3>2, <4>2 DEF Stands
        <5>2. Stands(d, row)'
          BY <4>2, <5>1 DEF Stands
        <5> QED
          BY <4>1, <5>2
      <4>3. CASE request[d].input.op = "read_report"
        <5>1. /\ x.case = request[d].input.case /\ x.version = request[d].input.version
              /\ RoleOf[request[d].input.user] # "viewer"
          BY <2>1, <2>6, <3>2, <4>3 DEF Stands
        <5>2. Stands(d, row)'
          BY <2>2, <4>3, <5>1 DEF Stands
        <5> QED
          BY <4>1, <5>2
      <4>4. CASE request[d].input.op \notin {"add_report", "read_report"}
        <5>1. x.decided = d
          BY <2>6, <3>2, <4>4 DEF Stands
        <5> QED
          BY <2>3, <5>1, TeamAuditAssumption
      <4> QED
        BY <4>2, <4>3, <4>4
    <3> QED
      BY <3>1, <3>2
  <2> QED
    BY <2>5, <2>6
<1> QED
  BY <1>1, <1>2, <1>3

\* The reports and the events of a commit belong together.
LEMMA CommitAudited ==
    ASSUME IInv, NEW r \in Requests, request[r].pc = "committing",
           events' = events \union appended[r],
           \/ Reads(r)
           \/ request[r].phase = "service" /\ Adds(r)
           \/ request[r].phase = "service" /\ Decides(r)
    PROVE  ChangesAreAudited'
<1> DEFINE i == request[r].input
           Noting(x) == In(x, Noted(r))
<1>1. /\ \A a \in Actions : Noting(a) => \E e \in events' : e.of = r /\ e.action = a
      /\ \A e \in appended[r] : e.of = r /\ Noting(e.action)
      /\ events \subseteq events'
  BY CommitNotes
<1>2. i \in Inputs
  BY DEF IInv, Locks, LockInv
<1>3. CASE request[r].phase = "service"
  <2>1. /\ Noting("report.version-created") <=> i.op = "add_report"
        /\ Noting("report.approved") <=> i.op = "approve"
        /\ Noting("report.rejected") <=> i.op = "reject"
        /\ Noting("report.reviewed") <=> i.op \in {"approve", "reject"}
    BY <1>2, <1>3, InTrail DEF Noted
  <2>2. {"report.version-created", "report.approved", "report.rejected", "report.reviewed"} \subseteq Actions
    BY DEF Actions
  <2> HIDE DEF Noting
  <2>3. CASE Reads(r)
    <3>1. reports' = reports /\ i.op = "read_report"
      BY <1>3, <2>3 DEF Reads
    <3>2. \A e \in appended[r] : e.action \notin {"report.version-created", "report.reviewed"}
      BY <1>1, <2>1, <3>1
    <3> QED
      BY <1>1, <3>1, <3>2 DEF IInv, ChangesAreAudited
  <2>4. CASE Adds(r)
    <3>1. PICK row \in Rows : IsNew(row, r) /\ reports' = reports \union {row} /\ i.op = "add_report"
      BY <2>4 DEF Adds
    <3>2. /\ \E e \in events' : e.of = row.of /\ e.action = "report.version-created"
          /\ row.state = "draft" /\ row.of = r
      BY <1>1, <2>1, <2>2, <3>1 DEF IsNew
    <3>3. \A e \in appended[r] : e.of = r /\ e.action # "report.reviewed"
      BY <1>1, <2>1, <3>1
    <3>4. \A x \in reports' :
             /\ \E e \in events' : e.of = x.of /\ e.action = "report.version-created"
             /\ x.state # "draft" =>
                   \E e \in events' : /\ e.of = x.decided
                                     /\ e.action = [approved |-> "report.approved",
                                                    rejected |-> "report.rejected"][x.state]
      BY <1>1, <3>1, <3>2 DEF IInv, ChangesAreAudited
    <3>5. \A e \in events' :
             /\ e.action = "report.version-created" => \E x \in reports' : x.of = e.of
             /\ e.action = "report.reviewed" => \E x \in reports' : x.decided = e.of
      BY <3>1, <3>2, <3>3 DEF IInv, ChangesAreAudited
    <3> QED
      BY <3>4, <3>5 DEF ChangesAreAudited
  <2>5. CASE Decides(r)
    <3>1. PICK x \in reports : /\ x.state = "draft" /\ i.op \in {"approve", "reject"}
                               /\ reports' = (reports \ {x}) \union {Decided(x, r)}
      BY <2>5 DEF Decides
    <3>2. PICK row : row = Decided(x, r)
      OBVIOUS
    <3>3. /\ row.of = x.of /\ row.decided = r
          /\ row.state = IF i.op = "approve" THEN "approved" ELSE "rejected"
      BY <1>2, <3>2, DecidedTyped DEF IInv, Types
    <3>4. reports' = (reports \ {x}) \union {row} /\ x.decided = NoRequest
      BY <3>1, <3>2 DEF IInv, Reports
    <3>5. \E e \in events' : e.of = row.of /\ e.action = "report.version-created"
      BY <1>1, <3>3 DEF IInv, ChangesAreAudited
    <3>6. \E e \in events' : /\ e.of = row.decided
                             /\ e.action = [approved |-> "report.approved",
                                            rejected |-> "report.rejected"][row.state]
      <4>1. CASE i.op = "approve"
        BY <1>1, <2>1, <2>2, <3>3, <4>1
      <4>2. CASE i.op = "reject"
        BY <1>1, <2>1, <2>2, <3>3, <4>2
      <4> QED
        BY <3>1, <4>1, <4>2
    <3>7. \A y \in reports' :
             /\ \E e \in events' : e.of = y.of /\ e.action = "report.version-created"
             /\ y.state # "draft" =>
                   \E e \in events' : /\ e.of = y.decided
                                     /\ e.action = [approved |-> "report.approved",
                                                    rejected |-> "report.rejected"][y.state]
      BY <1>1, <3>4, <3>5, <3>6 DEF IInv, ChangesAreAudited
    <3>8. ASSUME NEW e \in events'
          PROVE  /\ e.action = "report.version-created" => \E y \in reports' : y.of = e.of
                 /\ e.action = "report.reviewed" => \E y \in reports' : y.decided = e.of
      <4>1. CASE e \in events
        <5>1. e.of \in Requests
          BY <4>1 DEF IInv, Types, Events
        <5>2. ASSUME e.action = "report.version-created" PROVE \E y \in reports' : y.of = e.of
          <6>1. PICK y \in reports : y.of = e.of
            BY <4>1, <5>2 DEF IInv, ChangesAreAudited
          <6> QED
            BY <3>3, <3>4, <6>1
        <5>3. ASSUME e.action = "report.reviewed" PROVE \E y \in reports' : y.decided = e.of
          <6>1. PICK y \in reports : y.decided = e.of
            BY <4>1, <5>3 DEF IInv, ChangesAreAudited
          <6> QED
            BY <3>4, <5>1, <6>1, TeamAuditAssumption
        <5> QED
          BY <5>2, <5>3
      <4>2. CASE e \in appended[r]
        <5>1. e.of = r /\ e.action # "report.version-created"
          BY <1>1, <2>1, <3>1, <4>2
        <5> QED
          BY <3>3, <3>4, <5>1
      <4> QED
        BY <4>1, <4>2
    <3> QED
      BY <3>7, <3>8 DEF ChangesAreAudited
  <2> QED
    BY <2>3, <2>4, <2>5
<1>4. CASE request[r].phase # "service"
  <2>1. reports' = reports
    BY <1>4 DEF Reads
  <2>2. Noted(r) \in {<<"service.denied">>, <<"api.request">>}
    BY <1>4 DEF Noted
  <2>3. \A a : Noting(a) => a \in {"service.denied", "api.request"}
    BY <2>2, InTrail
  <2> HIDE DEF Noting
  <2>4. \A e \in appended[r] : e.action \notin {"report.version-created", "report.reviewed"}
    BY <1>1, <2>3
  <2> QED
    BY <1>1, <2>1, <2>4 DEF IInv, ChangesAreAudited
<1> QED
  BY <1>3, <1>4

LEMMA CommitKept ==
    ASSUME IInv, NEW r \in Requests, Commit(r) PROVE IInv'
<1>1. /\ Types' /\ Locks' /\ Chain' /\ Reports'
      /\ \A d \in Requests \ {r} :
            /\ request'[d] = request[d] /\ writes'[d] = writes[d]
            /\ appended'[d] = appended[d] /\ status'[d] = status[d]
      /\ request[r].pc = "committing" /\ request'[r].input = request[r].input
      /\ request'[r].phase = "request"
      /\ IF request[r].phase = "request"
         THEN request'[r].pc = "done" /\ status'[r] \in {status[r], "unavailable"}
         ELSE request'[r].pc = "entering" /\ status'[r] \in {Outcome(r), "unavailable"}
      /\ writes'[r] = {} /\ appended'[r] = {}
      /\ events' = events \union appended[r] /\ nextId' = nextId
      /\ \/ Reads(r)
         \/ request[r].phase = "service" /\ Adds(r)
         \/ request[r].phase = "service" /\ Decides(r)
  BY CommitStep DEF IInv
<1>2. request[r].input \in Inputs /\ events \subseteq events'
  BY <1>1 DEF IInv, Locks, LockInv
<1>3. ChangesAreAudited'
  BY <1>1, CommitAudited
<1>4. ASSUME NEW d \in Requests \ {r} PROVE TrailInv(d)' /\ WriteInv(d)' /\ AnswerInv(d)'
  <2>1. /\ request'[d] = request[d] /\ writes'[d] = writes[d]
        /\ appended'[d] = appended[d] /\ status'[d] = status[d]
    BY <1>1
  <2>2. TrailInv(d)'
    BY <2>1 DEF IInv, TrailsInv, TrailInv, Writing, Noted
  <2>3. WriteInv(d)'
    <3>1. ASSUME request[d].phase = "service", Writing(d),
                 NEW x, x.case = request[d].input.case
          PROVE  x \in reports' <=> x \in reports
      <4>1. request[d].input \in Inputs /\ request[d].input.case \in Cases
            /\ caseLock[request[d].input.case] = d
        <5>1. request[d].input \in Inputs
          BY <3>1 DEF IInv, Locks, LockInv, Writing
        <5>2. request[d].input.case \in Cases
          BY <5>1 DEF Inputs
        <5> QED
          BY <3>1, <5>1, <5>2 DEF IInv, Locks, LockInv, Writing, Open
      <4>2. CASE Reads(r)
        BY <4>2 DEF Reads
      <4>3. CASE request[r].phase = "service" /\ (Adds(r) \/ Decides(r))
        <5>1. request[r].input.case \in Cases
          BY <1>2 DEF Inputs
        <5>2. caseLock[request[r].input.case] = r
          BY <1>1, <4>3, <5>1 DEF IInv, Locks, LockInv, Open
        <5>3. x.case # request[r].input.case
          BY <3>1, <4>1, <5>2
        <5>4. CASE Adds(r)
          BY <5>3, <5>4 DEF Adds, IsNew
        <5>5. CASE Decides(r)
          <6>1. PICK y \in reports : /\ y.case = request[r].input.case
                                    /\ reports' = (reports \ {y}) \union {Decided(y, r)}
            BY <5>5 DEF Decides
          <6>2. Decided(y, r).case = request[r].input.case
            BY <1>2, <6>1, DecidedTyped DEF IInv, Types
          <6> QED
            BY <5>3, <6>1, <6>2
        <5> QED
          BY <4>3, <5>4, <5>5
      <4> QED
        BY <1>1, <4>2, <4>3
    <3>2. WriteInv(d)
      BY DEF IInv, Writes
    <3> QED
      BY <2>1, <3>1, <3>2, Elsewhere DEF Writing
  <2>4. AnswerInv(d)'
    <3>1. AnswerInv(d)
      BY DEF IInv, AnswersInv
    <3>2. /\ Untouched(d) => Untouched(d)'
          /\ (\E row \in reports : Stands(d, row)) => \E row \in reports' : Stands(d, row)'
      BY <1>1, <1>2, <2>1, OthersStand
    <3>3. \A a : Audited(d, a) => Audited(d, a)'
      BY <1>2 DEF Audited
    <3> QED
      BY <2>1, <3>1, <3>2, <3>3 DEF AnswerInv
  <2> QED
    BY <2>2, <2>3, <2>4
<1>5. TrailInv(r)' /\ WriteInv(r)'
  BY <1>1 DEF TrailInv, WriteInv, Writing
<1>6. AnswerInv(r)'
  <2>1. AnswerInv(r)
    BY DEF IInv, AnswersInv
  <2>2. \A a \in Actions : In(a, Noted(r)) => Audited(r, a)'
    BY <1>1, CommitNotes DEF Audited
  <2>3. \A a : Audited(r, a) => Audited(r, a)'
    BY <1>2 DEF Audited
  <2>4. "service.denied" \in Actions /\ "api.request" \in Actions
    BY DEF Actions
  <2>5. CASE request[r].phase = "service"
    <3>1. /\ status'[r] \in {"ok", "unavailable"} /\ request'[r].pc = "entering"
          /\ Noted(r) = Trail(request[r].input.op)
      BY <1>1, <2>5 DEF Outcome, Noted
    <3>2. \E row \in reports' : Stands(r, row)'
      <4>1. CASE Reads(r)
        BY <1>1, <2>5, <4>1 DEF Reads, Readable, Stands
      <4>2. CASE Adds(r)
        <5>1. PICK row \in Rows : /\ row \in reports' /\ row.of = r
                                  /\ request[r].input.op = "add_report"
          BY <4>2 DEF Adds, IsNew
        <5>2. Stands(r, row)'
          BY <1>1, <5>1 DEF Stands
        <5> QED
          BY <5>1, <5>2
      <4>3. CASE Decides(r)
        <5>1. PICK x \in reports : /\ request[r].input.op \in {"approve", "reject"}
                                   /\ x.author # request[r].input.user
                                   /\ reports' = (reports \ {x}) \union {Decided(x, r)}
          BY <4>3 DEF Decides
        <5>2. PICK row : row = Decided(x, r)
          OBVIOUS
        <5>3. row.decided = r /\ row.author = x.author /\ row \in reports'
          BY <1>2, <5>1, <5>2, DecidedTyped DEF IInv, Types
        <5>4. Stands(r, row)'
          BY <1>1, <5>1, <5>3 DEF Stands
        <5> QED
          BY <5>3, <5>4
      <4> QED
        BY <1>1, <4>1, <4>2, <4>3
    <3> QED
      BY <1>1, <2>2, <3>1, <3>2 DEF AnswerInv
  <2>6. CASE request[r].phase = "denial"
    <3>1. /\ status'[r] \in {"denied", "unavailable"} /\ request'[r].pc = "entering"
          /\ Noted(r) = <<"service.denied">>
      BY <1>1, <2>6 DEF Outcome, Noted
    <3>2. Untouched(r)'
      BY <1>1, <2>1, <2>6 DEF AnswerInv, Untouched, Reads
    <3>3. Audited(r, "service.denied")'
      BY <2>2, <2>4, <3>1, InTrail
    <3> QED
      BY <1>1, <3>1, <3>2, <3>3 DEF AnswerInv
  <2>7. CASE request[r].phase = "request"
    <3>1. /\ status'[r] \in {status[r], "unavailable"} /\ reports' = reports
          /\ Noted(r) = <<"api.request">>
      BY <1>1, <2>7 DEF Reads, Noted
    <3>2. Audited(r, "api.request")'
      BY <2>2, <2>4, <3>1, InTrail
    <3>3. /\ Untouched(r) => Untouched(r)'
          /\ (\E row \in reports : Stands(r, row)) => \E row \in reports' : Stands(r, row)'
      BY <1>1, <3>1 DEF Untouched, Stands
    <3> QED
      BY <1>1, <2>1, <2>3, <3>1, <3>2, <3>3 DEF AnswerInv
  <2>8. request[r].phase \in {"service", "denial", "request"}
    BY DEF IInv, Types, RequestStates, Phases
  <2> QED
    BY <2>5, <2>6, <2>7, <2>8
<1> QED
  BY <1>1, <1>3, <1>4, <1>5, <1>6 DEF IInv, TrailsInv, Writes, AnswersInv

LEMMA NextHolds ==
    ASSUME IInv, [Next]_vars PROVE IInv'
<1>1. Types /\ Locks /\ Chain /\ TrailsInv /\ Writes
  BY DEF IInv
<1>2. ASSUME NEW r \in Requests, Begin(r) PROVE IInv'
  <2>1. /\ Types' /\ Locks' /\ Alone(r)
        /\ request[r].pc = "idle" /\ request'[r].pc = "entering"
        /\ request'[r].phase = request[r].phase
    BY <1>1, <1>2, BeginStep
  <2>2. UNCHANGED <<reports, events, nextId, appended, status, writes>>
    BY <1>2 DEF Begin
  <2>3. status[r] = "none" /\ writes[r] = {}
    BY <1>1, <2>1 DEF IInv, AnswersInv, AnswerInv, Locks, LockInv, Writes, WriteInv, Writing
  <2>4. TrailInv(r)' /\ WriteInv(r)'
    BY <2>1, <2>2, <2>3 DEF TrailInv, WriteInv, Writing
  <2> QED
    BY <2>1, <2>2, <2>3, <2>4, Quiet DEF Alone
<1>3. ASSUME NEW r \in Requests, Enter(r) PROVE IInv'
  <2>1. /\ Types' /\ Locks' /\ Alone(r)
        /\ request[r].pc = "entering" /\ request'[r].phase = request[r].phase
        /\ request'[r].input = request[r].input
        /\ \/ request'[r].pc = "waiting" /\ request[r].phase = "service"
           \/ /\ request'[r].pc = "auditing"
              /\ \/ request[r].phase = "denial" /\ request'[r].todo = <<"service.denied">>
                 \/ request[r].phase = "request" /\ request'[r].todo = <<"api.request">>
    BY <1>1, <1>3, EnterStep
  <2>2. UNCHANGED <<reports, events, nextId, appended, status, writes, auditLock>>
    BY <1>3 DEF Enter
  <2>3. writes[r] = {} /\ appended[r] = {}
    <3>1. auditLock # r
      BY <1>1, <2>1 DEF Locks, LockInv
    <3> QED
      BY <1>1, <2>1, <3>1 DEF Writes, WriteInv, Writing, Chain
  <2>4. TrailInv(r)'
    <3>1. CASE request'[r].pc = "waiting"
      BY <3>1 DEF TrailInv, Writing
    <3>2. CASE request'[r].pc = "auditing"
      <4>1. request'[r].todo = Noted(r)' /\ request'[r].todo # <<>>
        BY <2>1, <3>2 DEF Noted
      <4> QED
        BY <2>2, <2>3, <3>2, <4>1 DEF TrailInv
    <3> QED
      BY <2>1, <3>1, <3>2
  <2>5. WriteInv(r)'
    BY <2>1, <2>2, <2>3 DEF WriteInv, Writing
  <2> QED
    BY <2>1, <2>2, <2>4, <2>5, Quiet DEF Alone
<1>4. ASSUME NEW r \in Requests, LockCase(r) PROVE IInv'
  <2>1. /\ Types' /\ Locks' /\ Alone(r)
        /\ request[r].pc = "waiting" /\ request'[r].pc = "working"
        /\ request'[r].phase = request[r].phase /\ request'[r].input = request[r].input
    BY <1>1, <1>4, LockCaseStep
  <2>2. UNCHANGED <<reports, events, nextId, appended, status, writes>>
    BY <1>4 DEF LockCase
  <2>3. TrailInv(r)' /\ WriteInv(r)'
    BY <1>1, <2>1, <2>2 DEF TrailInv, Writes, WriteInv, Writing
  <2> QED
    BY <2>1, <2>2, <2>3, Quiet DEF Alone
<1>5. ASSUME NEW r \in Requests, Permitted(r) PROVE IInv'
  <2>1. /\ Types' /\ Locks' /\ request' \in [Requests -> RequestStates]
        /\ \A d \in Requests \ {r} : request'[d] = request[d] /\ writes'[d] = writes[d]
        /\ request[r].pc = "working" /\ request'[r].pc = "auditing"
        /\ request[r].phase = "service" /\ request'[r].phase = "service"
        /\ request'[r].input = request[r].input
        /\ request'[r].todo = Trail(request[r].input.op)
        /\ Written(r, writes'[r])
        /\ UNCHANGED <<reports, events, nextId, caseLock, auditLock, maintenance, appended,
                       status, faults>>
    BY <1>1, <1>5, PermittedStep
  <2>2. request[r].input \in Inputs /\ auditLock # r
    BY <1>1, <2>1 DEF Locks, LockInv
  <2>3. TrailInv(r)'
    <3>1. request'[r].todo = Noted(r)' /\ request'[r].todo # <<>>
      BY <2>1, <2>2, Trails DEF Noted
    <3>2. appended'[r] = {}
      BY <1>1, <2>1, <2>2 DEF Chain
    <3> QED
      BY <2>1, <3>1, <3>2 DEF TrailInv
  <2>4. WriteInv(r)'
    <3> DEFINE op == request[r].input.op
    <3>1. ASSUME NEW row, IsNew(row, r) PROVE IsNew(row, r)'
      BY <2>1, <3>1 DEF IsNew
    <3>2. \A x : Decided(x, r)' = Decided(x, r)
      BY <2>1 DEF Decided
    <3>3. ASSUME NEW row, IsDecision(row, r) PROVE IsDecision(row, r)'
      BY <2>1, <3>2, <3>3 DEF IsDecision
    <3>4. Readable(r) => Readable(r)'
      BY <2>1 DEF Readable
    <3>5. op = "add_report" => \E row \in Rows : writes'[r] = {row} /\ IsNew(row, r)'
      BY <2>1, <3>1 DEF Written
    <3>6. op \in {"approve", "reject"} => \E row \in Rows : writes'[r] = {row} /\ IsDecision(row, r)'
      BY <2>1, <3>3 DEF Written
    <3>7. op = "read_report" => writes'[r] = {} /\ Readable(r)'
      BY <2>1, <3>4 DEF Written
    <3>8. Written(r, writes[r])'
      BY <2>1, <3>5, <3>6, <3>7 DEF Written
    <3> QED
      BY <2>1, <3>8 DEF WriteInv, Writing
  <2> QED
    BY <2>1, <2>3, <2>4, Quiet
<1>6. ASSUME NEW r \in Requests, Denied(r) PROVE IInv'
  <2>1. /\ Types' /\ Locks' /\ Alone(r)
        /\ request[r].pc = "working" /\ request'[r].pc = "entering"
        /\ request[r].phase = "service" /\ request'[r].phase = "denial"
        /\ request'[r].input = request[r].input
    BY <1>1, <1>6, DeniedStep
  <2>2. UNCHANGED <<reports, events, nextId, appended, status, writes>>
    BY <1>6 DEF Denied
  <2>3. TrailInv(r)' /\ WriteInv(r)'
    BY <1>1, <2>1, <2>2 DEF TrailInv, Writes, WriteInv, Writing
  <2> QED
    BY <2>1, <2>2, <2>3, Quiet DEF Alone
<1>7. ASSUME NEW r \in Requests, TakeAuditLock(r) PROVE IInv'
  <2>1. /\ Types' /\ Locks' /\ Alone(r)
        /\ request[r].pc = "auditing" /\ request'[r].pc = "appending"
        /\ request'[r].phase = request[r].phase /\ request'[r].input = request[r].input
        /\ request'[r].todo = request[r].todo
    BY <1>1, <1>7, TakeAuditLockStep
  <2>2. UNCHANGED <<reports, events, nextId, appended, status, writes>>
    BY <1>7 DEF TakeAuditLock
  <2>3. Noted(r)' = Noted(r) /\ (Writing(r)' <=> Writing(r))
    BY <2>1 DEF Noted, Writing
  <2>4. TrailInv(r)'
    BY <1>1, <2>1, <2>2, <2>3 DEF TrailsInv, TrailInv
  <2>5. WriteInv(r)'
    <3>1. WriteInv(r)
      BY <1>1 DEF Writes
    <3> QED
      BY <2>1, <2>2, <2>3, <3>1, Elsewhere
  <2> QED
    BY <2>1, <2>2, <2>4, <2>5, Quiet DEF Alone
<1>8. ASSUME NEW r \in Requests, Break(r) PROVE IInv'
  BY <1>1, <1>8, BreakStep, Dropped
<1>9. ASSUME NEW r \in Requests, Dies(r) PROVE IInv'
  BY <1>1, <1>9, DiesStep, Dropped
<1>10. CASE (AskMaintenance \/ HoldMaintenance \/ EndMaintenance) \/ UNCHANGED vars
  <2>1. /\ Types' /\ Locks'
        /\ UNCHANGED <<reports, events, nextId, caseLock, auditLock, request, writes, appended,
                       status>>
    <3>1. CASE UNCHANGED vars
      BY <1>1, <3>1 DEF vars, Types, Locks, LockInv, Open
    <3> QED
      BY <1>1, <1>10, <3>1, MaintenanceStep
  <2>2. Chain' /\ TrailsInv' /\ Reports' /\ ChangesAreAudited'
    BY <2>1 DEF IInv, Chain, ChainOf, TrailsInv, TrailInv, Writing, Noted, Reports, ChangesAreAudited
  <2>3. Writes'
    <3>1. ASSUME NEW d \in Requests PROVE WriteInv(d)'
      BY <1>1, <2>1, Elsewhere DEF Writes, Writing
    <3> QED
      BY <3>1 DEF Writes
  <2>4. AnswersInv'
    BY <2>1 DEF IInv, AnswersInv, AnswerInv, Audited, Untouched, Stands
  <2> QED
    BY <2>1, <2>2, <2>3, <2>4 DEF IInv
<1> QED
  BY <1>2, <1>3, <1>4, <1>5, <1>6, <1>7, <1>8, <1>9, <1>10, AppendKept, CommitKept
     DEF Next, RequestStep

(***************************************************************************)
(* The theorems.                                                           *)
(***************************************************************************)
\* Whatever is asked, broken off, killed or backed up, the invariant holds.
THEOREM IInvHolds == Spec => []IInv
<1>1. Init => IInv
  BY InitHolds
<1>2. IInv /\ [Next]_vars => IInv'
  BY NextHolds
<1> QED
  BY <1>1, <1>2, PTL DEF Spec

\* Every variable has its type; the case's lock and the audit lock are held by
\* exactly the transactions that have reached them, and while a backup holds the
\* maintenance lock no transaction is open (team_store.py:196).
THEOREM TypesHold == Spec => []TypeOK
<1>1. ASSUME IInv PROVE TypeOK
  <2>1. ASSUME NEW r \in Requests
        PROVE  /\ request[r].pc \in Pcs /\ request[r].phase \in Phases
               /\ request[r].todo \in Seq(Actions)
    <3>1. request[r] \in RequestStates
      BY <1>1 DEF IInv, Types
    <3> QED
      BY <3>1 DEF RequestStates
  <2>2. ASSUME NEW r \in Requests
        PROVE  /\ writes[r] \subseteq Rows /\ appended[r] \subseteq Events
               /\ status[r] \in Answers
    <3>1. writes[r] \in SUBSET Rows /\ appended[r] \in SUBSET Events /\ status[r] \in Answers
      BY <1>1 DEF IInv, Types
    <3> QED
      BY <3>1
  <2>3. ASSUME NEW r \in Requests PROVE LockInv(r)
    BY <1>1 DEF IInv, Locks
  <2>4. /\ reports \subseteq Rows /\ events \subseteq Events /\ nextId \in Nat \ {0}
        /\ maintenance \in {"free", "asked", "held"} /\ faults \in Nat
    BY <1>1 DEF IInv, Types
  <2> QED
    BY <2>1, <2>2, <2>3, <2>4 DEF TypeOK, LockInv, Pcs, Answers
<1> QED
  BY <1>1, IInvHolds, PTL

\* verify_audit finds no mismatch at any time (team_store.py:228).
THEOREM AuditVerifies == Spec => []ChainVerifies
<1>1. IInv => ChainVerifies
  BY DEF IInv, Chain, ChainOf, ChainVerifies
<1> QED
  BY <1>1, IInvHolds, PTL

\* A report and a decision are committed together with their events, and what
\* the events speak of is there (team_service.py:371).
THEOREM ReportsAudited == Spec => []ChangesAreAudited
<1>1. IInv => ChangesAreAudited
  BY DEF IInv
<1> QED
  BY <1>1, IInvHolds, PTL

\* What the client was told stays true (team_api.py:171).
THEOREM AnswersTrue == Spec => []AnswersAreTrue
<1>1. ASSUME IInv, NEW r \in Requests, request[r].pc = "done"
      PROVE  LET i == request[r].input
                 seen == {e.action : e \in {x \in events : x.of = r}}
                 Stand(row) ==
                   CASE i.op = "add_report" -> row.of = r
                     [] i.op = "read_report" ->
                          /\ row.case = i.case /\ row.version = i.version
                          /\ RoleOf[i.user] = "viewer" => row.state = "approved"
                     [] OTHER -> row.decided = r /\ row.author # i.user
             IN  /\ status[r] \in {"ok", "denied"} => "api.request" \in seen
                 /\ status[r] = "ok" =>
                       /\ {Trail(i.op)[n] : n \in DOMAIN Trail(i.op)} \subseteq seen
                       /\ \E row \in reports : Stand(row)
                 /\ status[r] = "denied" =>
                       /\ "service.denied" \in seen
                       /\ \A row \in reports : row.of # r /\ row.decided # r
  <2> DEFINE i == request[r].input
             seen == {e.action : e \in {x \in events : x.of = r}}
  <2>1. AnswerInv(r) /\ i \in Inputs
    BY <1>1 DEF IInv, AnswersInv, Locks, LockInv
  <2>2. \A a : Audited(r, a) => a \in seen
    BY DEF Audited
  <2>3. ASSUME status[r] = "ok"
        PROVE  {Trail(i.op)[n] : n \in DOMAIN Trail(i.op)} \subseteq seen
    <3> DEFINE t == Trail(i.op)
    <3>1. t \in Seq(Actions)
      BY <2>1, Trails
    <3> HIDE DEF t
    <3>2. ASSUME NEW n \in DOMAIN t PROVE t[n] \in Actions /\ In(t[n], t)
      <4>1. n \in 1..Len(t) /\ t[n] \in Actions
        <5> HIDE DEF Actions
        <5> QED
          BY <3>1, <3>2
      <4> QED
        BY <4>1 DEF In
    <3>3. \A n \in DOMAIN t : t[n] \in seen
      BY <2>1, <2>2, <2>3, <3>2 DEF AnswerInv, t
    <3> QED
      BY <3>3 DEF t
  <2>4. ASSUME NEW row, Stands(r, row)
        PROVE  CASE i.op = "add_report" -> row.of = r
                 [] i.op = "read_report" ->
                      /\ row.case = i.case /\ row.version = i.version
                      /\ RoleOf[i.user] = "viewer" => row.state = "approved"
                 [] OTHER -> row.decided = r /\ row.author # i.user
    BY <2>4 DEF Stands
  <2> QED
    BY <1>1, <2>1, <2>2, <2>3, <2>4 DEF AnswerInv, Untouched
<1>2. IInv => AnswersAreTrue
  BY <1>1 DEF AnswersAreTrue
<1> QED
  BY <1>2, IInvHolds, PTL

=============================================================================
