-------------------------------- MODULE JobLease --------------------------------
(***************************************************************************)
(* A row of OrchestrationJob and what withJobLease (apps/worker jobs.ts)   *)
(* reads from it and writes to it.  until is the lease expiry of a Leased  *)
(* row and the next attempt of a Pending one; retry is no column but what  *)
(* the lease's owner computed when it took the row: the next attempt,      *)
(* should it lose the database.                                            *)
(***************************************************************************)
EXTENDS Integers

CONSTANTS
    NoAttempt,     \* leaseOwner: null
    LEASE,         \* LEASE_MS
    REQUEUE        \* the 15 seconds a lost database postpones a job

ASSUME LeaseAssumption == LEASE \in Nat /\ REQUEUE \in Nat

JobStatus == {"none", "Pending", "Leased", "Succeeded", "Failed"}

NoJob == [status |-> "none", owner |-> NoAttempt, until |-> 0, retry |-> 0]

\* Seeded bugs: a finished job may be taken again; a lapsed lease may not.
ClaimableUnlessHeld(row, t) == row.status = "Leased" => row.until < t
ClaimableUnlessLeased(row, t) ==
    \/ row.status = "none"
    \/ row.status = "Pending" /\ row.until <= t

\* The row can be created, or taken over: pending and due, or with a lapsed lease.
Claimable(row, t) ==
    \/ row.status = "none"
    \/ row.status = "Pending" /\ row.until <= t
    \/ row.status = "Leased" /\ row.until < t

LeasedRow(owner, t) ==
    [status |-> "Leased", owner |-> owner, until |-> t + LEASE, retry |-> t + REQUEUE]

\* Seeded bug: the completing update does not name the lease's owner.
LeasedToAnyone(row, owner) == row.status = "Leased"
HeldBy(row, owner) == row.status = "Leased" /\ row.owner = owner

\* What owner's completing update leaves in the row.
CompletedRow(row, owner, status) ==
    IF HeldBy(row, owner)
    THEN [status |-> status, owner |-> NoAttempt,
          until |-> IF status = "Pending" THEN row.retry ELSE 0, retry |-> 0]
    ELSE row

=============================================================================
