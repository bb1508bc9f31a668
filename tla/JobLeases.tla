----------------------------- MODULE JobLeases -----------------------------
(***************************************************************************)
(* jobs.Runner and jobs.LeaseStore: worker replicas that poll one job of   *)
(* the registry.  A replica that finds the job due starts a goroutine; the *)
(* goroutine takes the job's row of job_leases, runs a batch under a       *)
(* timeout and marks the row, which frees it.  Who holds the lease is a    *)
(* name, not a run: the same name may take it again while it holds it, and *)
(* frees it for all its runs.  Replicas stop, die and start again, and     *)
(* statements fail.  Jobs have rows of their own, so one job shows all.    *)
(* Time passes in units; a lease and a cadence are the time they have left.*)
(***************************************************************************)
EXTENDS Integers

CONSTANTS Replicas,     \* worker processes
          Steady,       \* one of them that neither stops nor dies
          Owner,        \* Runner.Owner of each replica
          Goroutines,   \* bound: executeJob calls under way at a time
          Cadence,      \* JobMeta.Cadence
          Timeout,      \* JobMeta.Timeout
          Grace,        \* bound: how long a job takes to obey its cancelled context
          LeaseTTL,     \* JobMeta.LeaseTTL
          MarkDelay,    \* bound: how long MarkSuccess or MarkFailure takes
          MaxMisses     \* bound: TryAcquire calls that fail with a database error

ASSUME LeaseAssumption ==
  /\ Steady \in Replicas
  /\ {Cadence, Timeout, LeaseTTL} \subseteq Nat \ {0}
  /\ {Grace, MarkDelay, MaxMisses} \subseteq Nat
  /\ Timeout + Grace < LeaseTTL     \* "Should be >= Timeout + small buffer"

VARIABLES lease,    \* the job's row of job_leases: who took it, and lease_until - now
          due,      \* time to nextDue, in each replica
          mode,     \* what each replica does
          run,      \* the goroutines of executeJob
          missed,   \* failed TryAcquire calls so far
          quiet     \* how long no batch has been running

vars == <<lease, due, mode, run, missed, quiet>>

Names    == {Owner[r] : r \in Replicas}
Longest  == Timeout + Grace              \* the age at which a batch has returned
Overdue  == Longest + MarkDelay          \* the age at which a run is over
TooQuiet == LeaseTTL + Cadence * (MaxMisses + 1)     \* bound: quiet is counted so far

TypeOK ==
  /\ lease \in [owner : Names, left : 0 .. LeaseTTL]
  /\ due \in [Replicas -> 0 .. Cadence]
  /\ mode \in [Replicas -> {"up", "draining", "down"}]
  /\ run \in [Goroutines -> [at : {"free", "running", "ended"}, in : Replicas,
                             age : 0 .. Overdue, joined : BOOLEAN]]
  /\ missed \in 0 .. MaxMisses
  /\ quiet \in 0 .. TooQuiet

Free       == [at |-> "free", in |-> Steady, age |-> 0, joined |-> FALSE]
Running(g) == run[g].at = "running"
Active(g)  == run[g].at # "free"
Name(g)    == Owner[run[g].in]

----------------------------------------------------------------------------
(* LeaseStore.  `joined` is history: a run that shared its name, when it   *)
(* or the other one began, with a run that was not over.                   *)

GrantedToOwner(name) == lease.owner = name     \* faulty: an expired lease is not taken over
Granted(name)        == lease.left = 0 \/ lease.owner = name

FreedAny(name) == lease' = [lease EXCEPT !.left = 0]      \* faulty: WHERE owner is missing
Freed(name)    == lease' = IF lease.owner = name THEN [lease EXCEPT !.left = 0] ELSE lease

Siblings(name) == {h \in Goroutines : Active(h) /\ Name(h) = name}

----------------------------------------------------------------------------
(* Runner: a replica whose job is due polls, and is next due a cadence     *)
(* later whatever comes of it.                                             *)

PolledLate(r)  == due' = [due EXCEPT ![r] = Cadence + 1]  \* faulty: a tick too many
PolledTwice(r) == due' \in {due, [due EXCEPT ![r] = Cadence]}    \* faulty: may not be set
Polled(r)      == due' = [due EXCEPT ![r] = Cadence]

Due(r) == mode[r] = "up" /\ due[r] = 0

(* executeJob: TryAcquire, then the batch. *)
Start(r, g) ==
  LET mates == Siblings(Owner[r]) IN
  /\ Due(r)
  /\ run[g].at = "free"
  /\ Granted(Owner[r])
  /\ lease' = [owner |-> Owner[r], left |-> LeaseTTL]
  /\ run' = [h \in Goroutines |->
               IF h = g THEN [at |-> "running", in |-> r, age |-> 0, joined |-> mates # {}]
               ELSE IF h \in mates THEN [run[h] EXCEPT !.joined = TRUE]
               ELSE run[h]]
  /\ Polled(r)
  /\ quiet' = 0
  /\ UNCHANGED <<mode, missed>>

(* ErrLeaseNotAcquired. *)
Refused(r) ==
  /\ Due(r)
  /\ ~Granted(Owner[r])
  /\ Polled(r)
  /\ UNCHANGED <<lease, mode, run, missed, quiet>>

Missed(r) ==
  /\ Due(r)
  /\ missed < MaxMisses
  /\ missed' = missed + 1
  /\ Polled(r)
  /\ UNCHANGED <<lease, mode, run, quiet>>

(* The batch returns: it is done, its time is up or its replica stops. *)
End(g) ==
  /\ Running(g)
  /\ run' = [run EXCEPT ![g].at = "ended"]
  /\ UNCHANGED <<lease, due, mode, missed, quiet>>

(* MarkSuccess or MarkFailure.  The error of the statement is ignored; in  *)
(* a replica that is stopping it always fails, its context is cancelled.   *)
Mark(g) ==
  /\ run[g].at = "ended"
  /\ \/ mode[run[g].in] = "up" /\ Freed(Name(g))
     \/ UNCHANGED lease
  /\ run' = [run EXCEPT ![g] = Free]
  /\ UNCHANGED <<due, mode, missed, quiet>>

----------------------------------------------------------------------------
(* Replicas *)

Drain(r) ==
  /\ r # Steady
  /\ mode[r] = "up"
  /\ mode' = [mode EXCEPT ![r] = "draining"]
  /\ UNCHANGED <<lease, due, run, missed, quiet>>

(* The process is gone: drained, given up on after two minutes, or killed. *)
Exit(r) ==
  /\ r # Steady
  /\ mode[r] # "down"
  /\ mode' = [mode EXCEPT ![r] = "down"]
  /\ run' = [g \in Goroutines |-> IF run[g].in = r THEN Free ELSE run[g]]
  /\ UNCHANGED <<lease, due, missed, quiet>>

Boot(r) ==
  /\ mode[r] = "down"
  /\ mode' = [mode EXCEPT ![r] = "up"]
  /\ due' = [due EXCEPT ![r] = 1]                  \* the ticker fires a unit later
  /\ UNCHANGED <<lease, run, missed, quiet>>

----------------------------------------------------------------------------
(* Time waits for a poll that is due and for a run whose time is up. *)

Less(n) == IF n = 0 THEN 0 ELSE n - 1

Tick ==
  /\ \A r \in Replicas : ~Due(r)
  /\ \A g \in Goroutines : /\ Running(g) => run[g].age < Longest
                           /\ Active(g) => run[g].age < Overdue
  /\ lease' = [lease EXCEPT !.left = Less(@)]
  /\ due' = [r \in Replicas |-> Less(due[r])]
  /\ run' = [g \in Goroutines |-> IF Active(g) THEN [run[g] EXCEPT !.age = @ + 1] ELSE run[g]]
  /\ quiet' = IF \E g \in Goroutines : Running(g) THEN 0
              ELSE IF quiet < TooQuiet THEN quiet + 1 ELSE quiet
  /\ UNCHANGED <<mode, missed>>

----------------------------------------------------------------------------

Init ==
  /\ lease \in [owner : Names, left : {0}]     \* an old row, or none: free to anyone
  /\ due = [r \in Replicas |-> 1]
  /\ mode = [r \in Replicas |-> "up"]
  /\ run = [g \in Goroutines |-> Free]
  /\ missed = 0
  /\ quiet = 0

Poll(r) == Refused(r) \/ Missed(r) \/ \E g \in Goroutines : Start(r, g)

Next ==
  \/ \E r \in Replicas : Poll(r) \/ Drain(r) \/ Exit(r) \/ Boot(r)
  \/ \E g \in Goroutines : End(g) \/ Mark(g)
  \/ Tick

(* Time passes, a due job is polled, and a run comes to its end. *)
Fairness ==
  /\ WF_vars(Tick)
  /\ \A r \in Replicas : WF_vars(Poll(r))
  /\ \A g \in Goroutines : WF_vars(End(g)) /\ WF_vars(Mark(g))

Spec == Init /\ [][Next]_vars /\ Fairness

----------------------------------------------------------------------------

(* LeaseStore: "Uses INSERT ... ON CONFLICT + conditional UPDATE so only   *)
(* one replica wins".  Batches of two owner names run at the same time     *)
(* only if one of them shared its name with another run: no expiry, late   *)
(* mark, crash or restart lets a lease be taken from under a lone run.     *)
NamesExclude ==
  \A g, h \in Goroutines :
    Running(g) /\ Running(h) /\ Name(g) # Name(h) => run[g].joined \/ run[h].joined

(* Runner.tickOnce: the lease does not stop a replica from running a slow  *)
(* job beside itself, the cadence does: two of its runs are a cadence      *)
(* apart, so that it never has more than Timeout / Cadence + 1 of them.    *)
RunsAreSpaced ==
  \A g, h \in Goroutines :
    Active(g) /\ Active(h) /\ g # h /\ run[g].in = run[h].in =>
      \/ run[g].age >= run[h].age + Cadence
      \/ run[h].age >= run[g].age + Cadence

(* Crash safety of the runner ("leases expire"): as long as one replica    *)
(* lives, a job whose holder died or drained is running again before its   *)
(* lease and one cadence have passed, and one more per failed statement.   *)
FailoverIsBounded == quiet < LeaseTTL + Cadence * (missed + 1)

(* However replicas come and go, the job is run again and again. *)
JobKeepsRunning == []<>(\E g \in Goroutines : Running(g))
=============================================================================
