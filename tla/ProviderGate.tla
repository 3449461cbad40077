---------------------------- MODULE ProviderGate ----------------------------
(***************************************************************************)
(* Collections from external providers and the approvals licensed ones     *)
(* need: disclosure, reservation, request and records of one case, while   *)
(* people approve, revoke and close the case.                              *)
(*                                                                         *)
(* Every record is one transaction under case_lock, which CaseStore shows  *)
(* to be one step of the log; one that is interrupted stays in the journal *)
(* and recover-case completes it.  What is read outside the lock may be    *)
(* out of date when the record is written.                                 *)
(***************************************************************************)
EXTENDS Integers, FiniteSets, FiniteSetsExt

CONSTANTS Calls,         \* calls of collect_provider
          Licensed,      \* those that need an approval, for one exact target
          Clerks,        \* people who approve and revoke
          NoCall,
          MaxRuns,       \* max_runs of every approval
          MaxApprovals,  \* bound: approvals made
          MaxFaults      \* bound: processes killed and I/O errors

ASSUME ProviderGateAssumption ==
    /\ Licensed \subseteq Calls
    /\ NoCall \notin Calls
    /\ MaxRuns \in Nat \ {0}
    /\ MaxApprovals \in Nat
    /\ MaxFaults \in Nat

VARIABLES open,       \* the case is neither closed nor archived
          retained,   \* its retention date is in the future
          approvals,  \* the approvals made, with how often each was revoked
          filed,      \* the records of each call
          under,      \* the approval each call's reservation names
          call,       \* the next thing each call does
          asked,      \* the calls whose request has left
          closedOn,   \* history: the calls under way when the case was closed
          clerk,
          journal,    \* the record of an interrupted transaction
          faults

vars == <<open, retained, approvals, filed, under, call, asked, closedOn, clerk, journal, faults>>

\* The records of a collection; the last three are the provider run.
Outcomes == {"completed", "failed", "blocked"}
Evidence == {"source", "artifact", "observation"}
Kinds == {"disclosed", "reserved"} \union Evidence \union Outcomes

Ids == 1..MaxApprovals
Approvals == [made: BOOLEAN, revocations: Nat, expired: BOOLEAN]

\* A call about to write a record is named for it.
CallStates == Kinds \union {"idle", "authorize", "send", "done"}

Records == [kind: Kinds \union {"approved", "revoked"},
            by: Calls \union {NoCall}, approval: Nat]
NoRecord == [kind |-> "none", by |-> NoCall, approval |-> 0]

ClerkStates == [pc: {"idle", "approved", "revoked"}, approval: Nat]
IdleClerk == [pc |-> "idle", approval |-> 0]

Init ==
    /\ open = TRUE
    /\ retained \in BOOLEAN
    /\ approvals = [a \in Ids |-> [made |-> FALSE, revocations |-> 0, expired |-> FALSE]]
    /\ filed = [c \in Calls |-> {}]
    /\ under = [c \in Calls |-> 0]
    /\ call = [c \in Calls |-> "idle"]
    /\ asked = {}
    /\ closedOn = {}
    /\ clerk = [k \in Clerks |-> IdleClerk]
    /\ journal = NoRecord
    /\ faults = 0

(***************************************************************************)
(* One transaction.                                                        *)
(***************************************************************************)
\* The ledger entry of a disclosure is written without a look at the status.
CanFile(kind) ==
    /\ journal = NoRecord
    /\ kind # "disclosed" => open

NewId == Cardinality({a \in Ids : approvals[a].made}) + 1

\* Variant: the reservation is counted without its approval.
Apply_ForgetsApproval(r) ==
    /\ filed' = IF r.by = NoCall THEN filed
                ELSE [filed EXCEPT ![r.by] = @ \union {r.kind}]
    /\ approvals' =
         CASE r.kind = "approved" -> [approvals EXCEPT ![r.approval].made = TRUE]
           [] r.kind = "revoked" -> [approvals EXCEPT ![r.approval].revocations = @ + 1]
           [] OTHER -> approvals
    /\ UNCHANGED under

\* The effects of a record, also when it is replayed.
Apply(r) ==
    /\ filed' = IF r.by = NoCall THEN filed
                ELSE [filed EXCEPT ![r.by] = @ \union {r.kind}]
    /\ under' = IF r.kind = "reserved" THEN [under EXCEPT ![r.by] = r.approval]
                ELSE under
    /\ approvals' =
         CASE r.kind = "approved" -> [approvals EXCEPT ![r.approval].made = TRUE]
           [] r.kind = "revoked" -> [approvals EXCEPT ![r.approval].revocations = @ + 1]
           [] OTHER -> approvals

\* A process that is killed, or an error of the disk, leaves the journal.
Interrupted(r) ==
    /\ faults < MaxFaults
    /\ journal' = r
    /\ faults' = faults + 1
    /\ UNCHANGED <<open, retained, approvals, filed, under>>

(***************************************************************************)
(* Approvals.                                                              *)
(***************************************************************************)
Revocable(a) == approvals[a].made /\ approvals[a].revocations = 0

\* approve_provider checks the case and its retention, revoke_provider_approval
\* looks for the approval, both before the record is written.
Check(k) ==
    /\ clerk[k].pc = "idle"
    /\ \/ open /\ retained /\ NewId \in Ids
          /\ clerk' = [clerk EXCEPT ![k].pc = "approved"]
       \/ \E a \in Ids :
             /\ Revocable(a)
             /\ clerk' = [clerk EXCEPT ![k] = [pc |-> "revoked", approval |-> a]]
    /\ UNCHANGED <<open, retained, approvals, filed, under, call, asked, closedOn, journal, faults>>

ClerkRecord(k) ==
    [kind |-> clerk[k].pc, by |-> NoCall,
     approval |-> IF clerk[k].pc = "approved" THEN NewId ELSE clerk[k].approval]

\* The bound on approvals may be reached while a clerk waits.
Decide(k) ==
    /\ clerk[k].pc # "idle"
    /\ ClerkRecord(k).approval \in Ids
    /\ CanFile(clerk[k].pc)
    /\ \/ Apply(ClerkRecord(k)) /\ UNCHANGED <<open, retained, journal, faults>>
       \/ Interrupted(ClerkRecord(k))
    /\ clerk' = [clerk EXCEPT ![k] = IdleClerk]
    /\ UNCHANGED <<call, asked, closedOn>>

\* The case was closed, a journal is pending, or the clerk thinks again.
GiveUp(k) ==
    /\ clerk[k].pc # "idle"
    /\ clerk' = [clerk EXCEPT ![k] = IdleClerk]
    /\ UNCHANGED <<open, retained, approvals, filed, under, call, asked, closedOn, journal, faults>>

Expire(a) ==
    /\ approvals[a].made /\ ~approvals[a].expired
    /\ approvals' = [approvals EXCEPT ![a].expired = TRUE]
    /\ UNCHANGED <<open, retained, filed, under, call, asked, closedOn, clerk, journal, faults>>

(***************************************************************************)
(* Governance: both commands want verify_case to pass, which it does not   *)
(* while a journal is pending or an approval is revoked twice.             *)
(***************************************************************************)
Verifies ==
    /\ journal = NoRecord
    /\ \A a \in Ids : approvals[a].revocations <= 1

UnderWay == {c \in Calls : call[c] \notin {"idle", "done"}}

\* Variant: the case is closed over a pending journal.
SetStatus_IgnoresJournal ==
    /\ \A a \in Ids : approvals[a].revocations <= 1
    /\ open' = ~open
    /\ closedOn' = IF open THEN closedOn \union UnderWay ELSE closedOn
    /\ UNCHANGED <<retained, approvals, filed, under, call, asked, clerk, journal, faults>>

SetStatus ==
    /\ Verifies
    /\ open' = ~open
    /\ closedOn' = IF open THEN closedOn \union UnderWay ELSE closedOn
    /\ UNCHANGED <<retained, approvals, filed, under, call, asked, clerk, journal, faults>>

SetRetention ==
    /\ Verifies
    /\ retained' \in BOOLEAN
    /\ UNCHANGED <<open, approvals, filed, under, call, asked, closedOn, clerk, journal, faults>>

RetentionEnds ==
    /\ retained
    /\ retained' = FALSE
    /\ UNCHANGED <<open, approvals, filed, under, call, asked, closedOn, clerk, journal, faults>>

RecoverCase ==
    /\ journal # NoRecord
    /\ Apply(journal)
    /\ journal' = NoRecord
    /\ UNCHANGED <<open, retained, call, asked, closedOn, clerk, faults>>

(***************************************************************************)
(* collect_provider.                                                       *)
(***************************************************************************)
\* A closed case, options that are not valid, or no confirmation that the
\* target is disclosed.
Begin(c) ==
    /\ call[c] = "idle"
    /\ \E next \in IF open THEN {"disclosed", "failed", "blocked"} ELSE {"done"} :
          call' = [call EXCEPT ![c] = next]
    /\ UNCHANGED <<open, retained, approvals, filed, under, asked, closedOn, clerk, journal, faults>>

Used(a) == Cardinality({c \in Calls : under[c] = a})

\* Variants: a revoked approval still serves; one run more than approved.
Candidates_Revoked ==
    {a \in Ids : approvals[a].made /\ ~approvals[a].expired /\ Used(a) < MaxRuns}
Candidates_OneMore ==
    {a \in Ids : Revocable(a) /\ ~approvals[a].expired /\ Used(a) <= MaxRuns}

\* Approvals that are neither revoked nor expired, with a run left.
Candidates ==
    {a \in Ids : Revocable(a) /\ ~approvals[a].expired /\ Used(a) < MaxRuns}

\* Variant: what goes wrong after the completed run makes it a failed one, too.
Following_FailsAfter(c, kind) ==
    CASE kind = "disclosed" -> {IF c \in Licensed THEN "reserved" ELSE "authorize"}
      [] kind = "reserved" -> {"authorize"}
      [] kind = "source" -> {"artifact"}
      [] kind \in {"artifact", "observation"} -> {"observation", "completed"}
      [] kind = "completed" -> {"done", "failed"}
      [] OTHER -> {"done"}

\* What a call does when a record is written.
Following(c, kind) ==
    CASE kind = "disclosed" -> {IF c \in Licensed THEN "reserved" ELSE "authorize"}
      [] kind = "reserved" -> {"authorize"}
      [] kind = "source" -> {"artifact"}
      [] kind = "artifact" -> {"observation", "completed"}
      [] kind = "observation" -> {"observation", "completed"}
      [] OTHER -> {"done"}

\* Variants: a refused reservation does not stop the call; nor does a result
\* that could not be stored.
Otherwise_Unreserved(state) ==
    CASE state = "disclosed" -> "done"
      [] state = "reserved" -> "authorize"
      [] state \in {"failed", "blocked"} -> "done"
      [] OTHER -> "failed"

\* What it does when an exception is raised instead.
Otherwise(state) ==
    CASE state = "disclosed" -> "done"
      [] state = "reserved" -> "blocked"
      [] state \in {"failed", "blocked"} -> "done"
      [] OTHER -> "failed"

\* The latest candidate is chosen and its reservation written under one lock.
CallRecord(c) ==
    [kind |-> call[c], by |-> c,
     approval |-> IF call[c] = "reserved" THEN Max(Candidates) ELSE 0]

File(c) ==
    /\ call[c] \in Kinds
    /\ CanFile(call[c])
    /\ call[c] = "reserved" => retained /\ Candidates # {}
    /\ \/ /\ Apply(CallRecord(c))
          /\ \E next \in Following(c, call[c]) : call' = [call EXCEPT ![c] = next]
          /\ UNCHANGED <<open, retained, journal, faults>>
       \/ /\ Interrupted(CallRecord(c))
          \* reserve_approved_run's caller expects a ValueError only.
          /\ \E next \in {"done",
                          IF call[c] = "reserved" THEN "done" ELSE Otherwise(call[c])} :
                call' = [call EXCEPT ![c] = next]
    /\ UNCHANGED <<asked, closedOn, clerk>>

\* The record is refused: the case was closed, a journal is pending, or no
\* reservation is possible (there is no candidate or no credential).
Refused(c) ==
    /\ call[c] \in Kinds
    /\ \/ ~CanFile(call[c])
       \/ call[c] = "reserved"
    /\ call' = [call EXCEPT ![c] = Otherwise(call[c])]
    /\ UNCHANGED <<open, retained, approvals, filed, under, asked, closedOn, clerk, journal, faults>>

\* The status is read once more just before the adapter is called; what is
\* asked for may also be refused by execute_collection itself.
Authorize(c) ==
    /\ call[c] = "authorize"
    /\ \E next \in {"failed"} \union (IF open THEN {"send"} ELSE {}) :
          call' = [call EXCEPT ![c] = next]
    /\ UNCHANGED <<open, retained, approvals, filed, under, asked, closedOn, clerk, journal, faults>>

\* The adapter: an answer that can be read, or an error.
Send(c) ==
    /\ call[c] = "send"
    /\ asked' = asked \union {c}
    /\ \E next \in {"source", "failed"} : call' = [call EXCEPT ![c] = next]
    /\ UNCHANGED <<open, retained, approvals, filed, under, closedOn, clerk, journal, faults>>

\* Killed between two transactions.
Dies(c) ==
    /\ faults < MaxFaults
    /\ call[c] \notin {"idle", "done"}
    /\ call' = [call EXCEPT ![c] = "done"]
    /\ asked' \in IF call[c] = "send" THEN {asked, asked \union {c}} ELSE {asked}
    /\ faults' = faults + 1
    /\ UNCHANGED <<open, retained, approvals, filed, under, closedOn, clerk, journal>>

Next ==
    \/ \E k \in Clerks : Check(k) \/ Decide(k) \/ GiveUp(k)
    \/ \E a \in Ids : Expire(a)
    \/ SetStatus \/ SetRetention \/ RetentionEnds \/ RecoverCase
    \/ \E c \in Calls :
          Begin(c) \/ File(c) \/ Refused(c) \/ Authorize(c) \/ Send(c) \/ Dies(c)

Spec == Init /\ [][Next]_vars

=============================================================================
