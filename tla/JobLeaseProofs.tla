--------------------------- MODULE JobLeaseProofs ---------------------------
(***************************************************************************)
(* Job leases, for any replicas, names, runs and times: a lone run is not  *)
(* joined by one of another name, the runs of a replica are a cadence      *)
(* apart, and a job is not without a run for longer than lease and cadence.*)
(* With one name for all, the lease refuses nobody.                        *)
(***************************************************************************)
EXTENDS JobLeases, TLAPS

LEMMA Times ==
  /\ {Cadence, Timeout, LeaseTTL, Grace, MarkDelay, MaxMisses, Longest, Overdue} \subseteq Nat
  /\ Cadence > 0 /\ Longest < LeaseTTL /\ Longest <= Overdue
  /\ Cadence * (MaxMisses + 1) \in Nat /\ TooQuiet \in Nat
<1>1. /\ Cadence \in Nat \ {0} /\ Timeout \in Nat \ {0} /\ LeaseTTL \in Nat \ {0}
      /\ Grace \in Nat /\ MarkDelay \in Nat /\ MaxMisses \in Nat
  BY LeaseAssumption
<1>2. \A a, b \in Nat : a * (b + 1) \in Nat
  OBVIOUS
<1>3. Cadence * (MaxMisses + 1) \in Nat
  BY <1>1, <1>2
<1>4. QED
  BY <1>1, <1>3, LeaseAssumption DEF Longest, Overdue, TooQuiet

----------------------------------------------------------------------------
(* The inductive invariant.                                                *)

(* A lone run holds the lease until after its batch has returned. *)
LoneRunsHold ==
  \A g \in Goroutines : Running(g) /\ ~run[g].joined =>
    lease.owner = Name(g) /\ lease.left >= LeaseTTL - run[g].age

BatchesReturn == \A g \in Goroutines : Running(g) => run[g].age <= Longest

(* A run that shares its name with another one knows. *)
SharersKnow ==
  \A g, h \in Goroutines :
    Active(g) /\ Active(h) /\ g # h /\ Name(g) = Name(h) => run[g].joined

(* A replica is not due again before its runs are a cadence old. *)
DueIsLater ==
  \A g \in Goroutines : Active(g) =>
    /\ mode[run[g].in] # "down"
    /\ mode[run[g].in] = "up" => run[g].age + due[run[g].in] >= Cadence

(* While the lease lasts, it bounds the quiet; then the next poll does. *)
QuietEnds ==
  /\ mode[Steady] = "up"
  /\ lease.left > 0 => quiet + lease.left <= LeaseTTL
  /\ lease.left = 0 => quiet + due[Steady] < LeaseTTL + Cadence * (missed + 1)

IInv ==
  /\ TypeOK
  /\ BatchesReturn
  /\ LoneRunsHold
  /\ SharersKnow
  /\ DueIsLater
  /\ RunsAreSpaced
  /\ QuietEnds

----------------------------------------------------------------------------
(* What the steps do to one run.                                           *)

Runs == [at : {"free", "running", "ended"}, in : Replicas, age : 0 .. Overdue, joined : BOOLEAN]

LEMMA FreeIsRun == Free \in Runs
  BY Times, LeaseAssumption DEF Free, Runs

(* A run that a step leaves active was active and keeps its place. *)
Stays(g, years) ==
  /\ run'[g].at # "free" => /\ Active(g)
                            /\ run'[g].in = run[g].in
                            /\ run'[g].age = run[g].age + years
                            /\ run'[g].joined <=> run[g].joined
  /\ run'[g].at = "running" => Running(g)

(* Steps other than Start and Tick: runs end or are cleared. *)
Fewer ==
  \A g \in Goroutines :
    \/ run'[g] \in {run[g], Free}
    \/ Running(g) /\ run'[g] = [run[g] EXCEPT !.at = "ended"]

LEMMA FewerStay ==
  ASSUME TypeOK, Fewer
  PROVE  \A g \in Goroutines : Stays(g, 0)
<1> SUFFICES ASSUME NEW g \in Goroutines PROVE Stays(g, 0)
  OBVIOUS
<1>1. run[g] \in Runs
  BY DEF TypeOK, Runs
<1>2. CASE run'[g] = run[g]
  BY <1>1, <1>2 DEF Stays, Active, Running, Runs
<1>3. CASE run'[g] = Free
  BY <1>1, <1>3 DEF Stays, Active, Running, Free
<1>4. CASE run'[g] = [run[g] EXCEPT !.at = "ended"] /\ Running(g)
  BY <1>1, <1>4 DEF Stays, Active, Running, Runs
<1>5. QED
  BY <1>2, <1>3, <1>4 DEF Fewer

QuietStep(r) == Refused(r) \/ Missed(r) \/ Drain(r) \/ Exit(r) \/ Boot(r)

LEMMA FewerSteps ==
  ASSUME TypeOK,
         \/ \E r \in Replicas : QuietStep(r)
         \/ \E g \in Goroutines : End(g) \/ Mark(g)
         \/ UNCHANGED vars
  PROVE  Fewer
<1>1. run \in [Goroutines -> Runs]
  BY DEF TypeOK, Runs
<1>2. CASE \E r \in Replicas : QuietStep(r)
  BY <1>1, <1>2 DEF QuietStep, Refused, Missed, Drain, Exit, Boot, Fewer
<1>3. CASE \E g \in Goroutines : End(g) \/ Mark(g)
  BY <1>1, <1>3 DEF End, Mark, Fewer
<1>4. CASE UNCHANGED vars
  BY <1>4 DEF vars, Fewer
<1>5. QED
  BY <1>2, <1>3, <1>4

LEMMA NextKinds ==
  ASSUME [Next]_vars
  PROVE  \/ \E r \in Replicas : QuietStep(r)
         \/ \E g \in Goroutines : End(g) \/ Mark(g)
         \/ UNCHANGED vars
         \/ \E r \in Replicas, g \in Goroutines : Start(r, g)
         \/ Tick
  BY DEF Next, Poll, QuietStep

(* What Start makes of a run. *)
LEMMA StartRuns ==
  ASSUME TypeOK, NEW r \in Replicas, NEW g \in Goroutines, Start(r, g)
  PROVE  /\ run'[g] = [at |-> "running", in |-> r, age |-> 0, joined |-> Siblings(Owner[r]) # {}]
         /\ \A h \in Goroutines \ {g} :
              /\ run'[h].at = run[h].at /\ run'[h].in = run[h].in /\ run'[h].age = run[h].age
              /\ run'[h].joined <=> run[h].joined \/ h \in Siblings(Owner[r])
         /\ run' \in [Goroutines -> Runs]
<1>1. run \in [Goroutines -> Runs]
  BY DEF TypeOK, Runs
<1>2. 0 \in 0 .. Overdue
  BY Times
<1> DEFINE mates == Siblings(Owner[r])
           fresh == [at |-> "running", in |-> r, age |-> 0, joined |-> mates # {}]
<1>3. fresh \in Runs
  BY <1>2 DEF Runs
<1>4. run' = [h \in Goroutines |-> IF h = g THEN fresh
                                   ELSE IF h \in mates THEN [run[h] EXCEPT !.joined = TRUE]
                                   ELSE run[h]]
  BY DEF Start
<1>5. ASSUME NEW h \in Goroutines \ {g}
      PROVE  /\ run'[h].at = run[h].at /\ run'[h].in = run[h].in /\ run'[h].age = run[h].age
             /\ run'[h].joined <=> run[h].joined \/ h \in mates
             /\ run'[h] \in Runs
  <2> HIDE DEF fresh, mates
  <2>1. CASE h \in mates
    BY <1>1, <1>4, <2>1 DEF Runs
  <2>2. CASE h \notin mates
    BY <1>1, <1>4, <2>2 DEF Runs
  <2>3. QED
    BY <2>1, <2>2
<1>6. QED
  BY <1>3, <1>4, <1>5

LEMMA TickRuns ==
  ASSUME TypeOK, Tick
  PROVE  /\ \A g \in Goroutines : Stays(g, 1)
         /\ run' \in [Goroutines -> Runs]
<1> SUFFICES ASSUME NEW g \in Goroutines
             PROVE  Stays(g, 1) /\ run'[g] \in Runs
  BY DEF Tick
<1>1. run[g] \in Runs
  BY DEF TypeOK, Runs
<1>2. CASE Active(g)
  <2>1. run'[g] = [run[g] EXCEPT !.age = @ + 1] /\ run[g].age < Overdue
    BY <1>2 DEF Tick
  <2>2. QED
    BY <1>1, <1>2, <2>1, Times DEF Stays, Active, Running, Runs
<1>3. CASE ~Active(g)
  BY <1>1, <1>3 DEF Tick, Stays, Active, Running
<1>4. QED
  BY <1>2, <1>3
----------------------------------------------------------------------------
(* Types.                                                                  *)

LEMMA TypeInit == Init => TypeOK
<1> SUFFICES ASSUME Init PROVE TypeOK
  OBVIOUS
<1>1. 0 \in 0 .. LeaseTTL /\ 1 \in 0 .. Cadence /\ 0 \in 0 .. MaxMisses /\ 0 \in 0 .. TooQuiet
  BY Times
<1>2. Free \in Runs
  BY FreeIsRun
<1>3. run \in [Goroutines -> Runs]
  BY <1>2 DEF Init
<1>4. QED
  BY <1>1, <1>3 DEF Init, TypeOK, Runs

LEMMA LessIsLess ==
  ASSUME NEW m \in Nat, NEW n \in 0 .. m
  PROVE  Less(n) \in 0 .. m
  BY DEF Less

LEMMA FewerTypes ==
  ASSUME TypeOK, Fewer, run' = [g \in Goroutines |-> run'[g]]
  PROVE  run' \in [Goroutines -> Runs]
<1> SUFFICES ASSUME NEW g \in Goroutines PROVE run'[g] \in Runs
  OBVIOUS
<1>1. run[g] \in Runs
  BY DEF TypeOK, Runs
<1>2. [run[g] EXCEPT !.at = "ended"] \in Runs
  BY <1>1 DEF Runs
<1>3. QED
  BY <1>1, <1>2, FreeIsRun DEF Fewer

LEMMA TypeStep ==
  ASSUME TypeOK, [Next]_vars
  PROVE  TypeOK'
<1>1. /\ lease \in [owner : Names, left : 0 .. LeaseTTL] /\ due \in [Replicas -> 0 .. Cadence]
      /\ mode \in [Replicas -> {"up", "draining", "down"}] /\ run \in [Goroutines -> Runs]
      /\ missed \in 0 .. MaxMisses /\ quiet \in 0 .. TooQuiet
  BY DEF TypeOK, Runs
<1>2. /\ Cadence \in 0 .. Cadence /\ 1 \in 0 .. Cadence /\ 0 \in 0 .. LeaseTTL
      /\ LeaseTTL \in 0 .. LeaseTTL /\ 0 \in 0 .. TooQuiet
  BY Times
<1>3. run' \in [Goroutines -> Runs]
  <2>1. CASE \E r \in Replicas : QuietStep(r)
    <3>1. Fewer
      BY <2>1, FewerSteps
    <3>2. run' = [g \in Goroutines |-> run'[g]]
      BY <1>1, <2>1 DEF QuietStep, Refused, Missed, Drain, Exit, Boot
    <3>3. QED
      BY <3>1, <3>2, FewerTypes
  <2>2. CASE \E g \in Goroutines : End(g) \/ Mark(g)
    <3>1. Fewer
      BY <2>2, FewerSteps
    <3>2. run' = [g \in Goroutines |-> run'[g]]
      BY <1>1, <2>2 DEF End, Mark
    <3>3. QED
      BY <3>1, <3>2, FewerTypes
  <2>3. CASE UNCHANGED vars
    BY <1>1, <2>3 DEF vars
  <2>4. CASE \E r \in Replicas, g \in Goroutines : Start(r, g)
    BY <2>4, StartRuns
  <2>5. CASE Tick
    BY <2>5, TickRuns
  <2>6. QED
    BY <2>1, <2>2, <2>3, <2>4, <2>5, NextKinds
<1>4. CASE \E r \in Replicas : QuietStep(r)
  <2>1. PICK r \in Replicas : QuietStep(r)
    BY <1>4
  <2>2. missed' \in 0 .. MaxMisses
    <3>1. CASE Missed(r)
      BY <1>1, <3>1, Times DEF Missed
    <3>2. CASE ~Missed(r)
      BY <1>1, <2>1, <3>2 DEF QuietStep, Refused, Drain, Exit, Boot
    <3>3. QED
      BY <3>1, <3>2
  <2>3. due' \in [Replicas -> 0 .. Cadence] /\ mode' \in [Replicas -> {"up", "draining", "down"}]
        /\ lease' = lease /\ quiet' = quiet
    BY <1>1, <1>2, <2>1 DEF QuietStep, Refused, Missed, Drain, Exit, Boot, Polled
  <2>4. QED
    BY <1>1, <1>3, <2>2, <2>3 DEF TypeOK, Runs
<1>5. CASE \E g \in Goroutines : End(g) \/ Mark(g)
  BY <1>1, <1>2, <1>3, <1>5 DEF End, Mark, Freed, TypeOK, Runs
<1>6. CASE UNCHANGED vars
  BY <1>1, <1>3, <1>6 DEF vars, TypeOK, Runs
<1>7. CASE \E r \in Replicas, g \in Goroutines : Start(r, g)
  <2>1. PICK r \in Replicas : \E g \in Goroutines : Start(r, g)
    BY <1>7
  <2>2. /\ lease' = [owner |-> Owner[r], left |-> LeaseTTL] /\ due' = [due EXCEPT ![r] = Cadence]
        /\ quiet' = 0 /\ mode' = mode /\ missed' = missed
    BY <2>1 DEF Start, Polled
  <2>3. Owner[r] \in Names
    BY DEF Names
  <2>4. QED
    BY <1>1, <1>2, <1>3, <2>2, <2>3 DEF TypeOK, Runs
<1>8. CASE Tick
  <2>1. Less(lease.left) \in 0 .. LeaseTTL /\ \A r \in Replicas : Less(due[r]) \in 0 .. Cadence
    BY <1>1, LessIsLess, Times
  <2>2. /\ lease' = [lease EXCEPT !.left = Less(lease.left)]
        /\ due' = [r \in Replicas |-> Less(due[r])] /\ mode' = mode /\ missed' = missed
    BY <1>8 DEF Tick
  <2>3. quiet' \in 0 .. TooQuiet
    BY <1>1, <1>8, Times DEF Tick
  <2>4. QED
    BY <1>1, <1>3, <2>1, <2>2, <2>3 DEF TypeOK, Runs
<1>9. QED
  BY <1>4, <1>5, <1>6, <1>7, <1>8, NextKinds
----------------------------------------------------------------------------
(* Each part of the invariant.                                             *)

LEMMA LoneRunsHoldStep ==
  ASSUME IInv, [Next]_vars
  PROVE  (BatchesReturn /\ LoneRunsHold /\ SharersKnow)'
<1>1. /\ lease \in [owner : Names, left : 0 .. LeaseTTL]
      /\ run \in [Goroutines -> Runs]
  BY DEF IInv, TypeOK, Runs
<1>2. /\ LeaseTTL \in Nat /\ Longest \in Nat /\ Longest < LeaseTTL
      /\ \A g \in Goroutines : run[g].age \in Nat /\ run[g].joined \in BOOLEAN
  BY <1>1, Times DEF Runs
<1>3. ASSUME Fewer, lease' = lease \/ \E h \in Goroutines : Active(h) /\ run'[h] = Free /\ Freed(Name(h))
      PROVE  (BatchesReturn /\ LoneRunsHold /\ SharersKnow)'
  <2>1. \A g \in Goroutines : Stays(g, 0)
    BY <1>3, FewerStay DEF IInv
  <2>2. BatchesReturn' /\ SharersKnow'
    BY <1>2, <2>1 DEF Stays, IInv, BatchesReturn, SharersKnow, Active, Running, Name
  <2>3. ASSUME NEW g \in Goroutines, run'[g].at = "running", ~run'[g].joined
        PROVE  lease'.owner = Owner[run'[g].in] /\ lease'.left >= LeaseTTL - run'[g].age
    <3>1. /\ Running(g) /\ Active(g) /\ run'[g].in = run[g].in /\ run'[g].age = run[g].age
          /\ ~run[g].joined
      BY <1>2, <2>1, <2>3 DEF Stays, Running, Active
    <3>2. lease.owner = Name(g) /\ lease.left >= LeaseTTL - run[g].age
      BY <3>1 DEF IInv, LoneRunsHold
    <3>3. CASE lease' = lease
      BY <3>1, <3>2, <3>3 DEF Name
    <3>4. ASSUME NEW h \in Goroutines, Active(h), run'[h] = Free, Freed(Name(h))
          PROVE  lease' = lease
      <4>1. h # g
        BY <2>3, <3>4 DEF Free
      <4>2. Name(h) # Name(g)
        BY <3>1, <3>4, <4>1 DEF IInv, SharersKnow
      <4>3. QED
        BY <3>2, <3>4, <4>2 DEF Freed
    <3>5. QED
      BY <1>3, <3>3, <3>4
  <2>4. QED
    BY <2>2, <2>3 DEF LoneRunsHold, Running, Name
<1>4. CASE \E r \in Replicas : QuietStep(r)
  BY <1>3, <1>4, FewerSteps DEF IInv, QuietStep, Refused, Missed, Drain, Exit, Boot
<1>5. CASE \E g \in Goroutines : End(g) \/ Mark(g)
  <2>1. Fewer
    BY <1>5, FewerSteps DEF IInv
  <2>2. PICK g \in Goroutines : End(g) \/ Mark(g)
    BY <1>5
  <2>3. CASE End(g)
    BY <1>3, <2>1, <2>3 DEF End
  <2>4. CASE Mark(g)
    <3>1. Active(g) /\ run'[g] = Free /\ (lease' = lease \/ Freed(Name(g)))
      BY <1>1, <2>4 DEF Mark, Active
    <3>2. QED
      BY <1>3, <2>1, <3>1
  <2>5. QED
    BY <2>2, <2>3, <2>4
<1>6. CASE UNCHANGED vars
  BY <1>3, <1>6, FewerSteps DEF IInv, vars
<1>7. CASE \E r \in Replicas, g \in Goroutines : Start(r, g)
  <2>1. PICK r \in Replicas, g \in Goroutines : Start(r, g)
    BY <1>7
  <2>2. /\ run'[g] = [at |-> "running", in |-> r, age |-> 0, joined |-> Siblings(Owner[r]) # {}]
        /\ \A h \in Goroutines \ {g} :
             /\ run'[h].at = run[h].at /\ run'[h].in = run[h].in /\ run'[h].age = run[h].age
             /\ run'[h].joined <=> run[h].joined \/ h \in Siblings(Owner[r])
    BY <2>1, StartRuns DEF IInv
  <2>3. /\ lease' = [owner |-> Owner[r], left |-> LeaseTTL] /\ Granted(Owner[r]) /\ ~Active(g)
    BY <2>1 DEF Start, Active
  <2>4. \A h \in Goroutines : h \in Siblings(Owner[r]) <=> Active(h) /\ Name(h) = Owner[r]
    BY DEF Siblings
  <2>5. BatchesReturn'
    BY <1>2, <2>2 DEF IInv, BatchesReturn, Running
  <2>6. SharersKnow'
    <3>1. ASSUME NEW h \in Goroutines, NEW x \in Goroutines,
                 run'[h].at # "free", run'[x].at # "free", h # x,
                 Owner[run'[h].in] = Owner[run'[x].in]
          PROVE  run'[h].joined
      <4>1. CASE h = g
        <5>1. Active(x) /\ Name(x) = Owner[r]
          BY <2>2, <3>1, <4>1 DEF Active, Name
        <5>2. (Siblings(Owner[r]) # {}) = TRUE
          BY <2>4, <5>1
        <5>3. run'[g].joined = (Siblings(Owner[r]) # {})
          BY <2>2
        <5>4. QED
          BY <4>1, <5>2, <5>3
      <4>2. CASE h # g /\ x = g
        <5>1. Active(h) /\ Name(h) = Owner[r]
          BY <2>2, <3>1, <4>2 DEF Active, Name
        <5>2. QED
          BY <2>2, <2>4, <4>2, <5>1
      <4>3. CASE h # g /\ x # g
        BY <2>2, <3>1, <4>3 DEF IInv, SharersKnow, Active, Name
      <4>4. QED
        BY <4>1, <4>2, <4>3
    <3>2. QED
      BY <3>1 DEF SharersKnow, Active, Name
  <2>7. ASSUME NEW h \in Goroutines \ {g}, run'[h].at = "running", ~run'[h].joined
        PROVE  FALSE
    <3>1. Running(h) /\ Active(h) /\ ~run[h].joined /\ h \notin Siblings(Owner[r])
      BY <2>2, <2>7 DEF Running, Active
    <3>2. lease.owner = Name(h) /\ lease.left >= LeaseTTL - run[h].age /\ run[h].age <= Longest
      BY <3>1 DEF IInv, LoneRunsHold, BatchesReturn
    <3>3. lease.left > 0
      BY <1>1, <1>2, <3>2
    <3>4. Name(h) # Owner[r]
      BY <2>4, <3>1
    <3>5. QED
      BY <1>1, <2>3, <3>2, <3>3, <3>4 DEF Granted
  <2>8. LoneRunsHold'
    BY <1>2, <2>2, <2>3, <2>7 DEF LoneRunsHold, Running, Name
  <2>9. QED
    BY <2>5, <2>6, <2>8
<1>8. CASE Tick
  <2>1. \A g \in Goroutines : Stays(g, 1)
    BY <1>8, TickRuns DEF IInv
  <2>2. lease' = [lease EXCEPT !.left = Less(lease.left)]
    BY <1>8 DEF Tick
  <2>3. \A g \in Goroutines : Running(g) => run[g].age < Longest
    BY <1>8 DEF Tick
  <2>4. BatchesReturn'
    BY <1>2, <2>1, <2>3 DEF Stays, BatchesReturn, Running, Active
  <2>5. SharersKnow'
    BY <2>1 DEF Stays, IInv, SharersKnow, Active, Name
  <2>6. ASSUME NEW g \in Goroutines, run'[g].at = "running", ~run'[g].joined
        PROVE  lease'.owner = Owner[run'[g].in] /\ lease'.left >= LeaseTTL - run'[g].age
    <3>1. /\ Running(g) /\ run'[g].in = run[g].in /\ run'[g].age = run[g].age + 1
          /\ ~run[g].joined
      BY <2>1, <2>6 DEF Stays
    <3>2. lease.owner = Name(g) /\ lease.left >= LeaseTTL - run[g].age /\ run[g].age < Longest
      BY <2>3, <3>1 DEF IInv, LoneRunsHold
    <3>3. lease'.left = lease.left - 1
      BY <1>1, <1>2, <2>2, <3>2 DEF Less
    <3>4. QED
      BY <1>1, <1>2, <2>2, <3>1, <3>2, <3>3 DEF Name
  <2>7. QED
    BY <2>4, <2>5, <2>6 DEF LoneRunsHold, Running, Name
<1>9. QED
  BY <1>4, <1>5, <1>6, <1>7, <1>8, NextKinds

LEMMA SpacedStep ==
  ASSUME IInv, [Next]_vars
  PROVE  (DueIsLater /\ RunsAreSpaced)'
<1>1. /\ due \in [Replicas -> 0 .. Cadence] /\ mode \in [Replicas -> {"up", "draining", "down"}]
      /\ run \in [Goroutines -> Runs]
  BY DEF IInv, TypeOK, Runs
<1>2. /\ Cadence \in Nat
      /\ \A g \in Goroutines : run[g].age \in Nat /\ run[g].in \in Replicas
      /\ \A r \in Replicas : due[r] \in Nat
  BY <1>1, Times DEF Runs
<1>3. ASSUME \A g \in Goroutines : Stays(g, 0),
             \A r \in Replicas : \/ due'[r] = due[r] \/ due'[r] = Cadence
                                 \/ \A g \in Goroutines : run'[g].at # "free" => run'[g].in # r,
             \A r \in Replicas : \/ mode'[r] = mode[r]
                                 \/ mode'[r] = "draining" /\ mode[r] = "up"
                                 \/ \A g \in Goroutines : run'[g].at # "free" => run'[g].in # r
      PROVE  (DueIsLater /\ RunsAreSpaced)'
  <2>1. RunsAreSpaced'
    BY <1>2, <1>3 DEF Stays, IInv, RunsAreSpaced, Active
  <2>2. ASSUME NEW g \in Goroutines, run'[g].at # "free"
        PROVE  /\ mode'[run'[g].in] # "down"
               /\ mode'[run'[g].in] = "up" => run'[g].age + due'[run'[g].in] >= Cadence
    <3>1. Active(g) /\ run'[g].in = run[g].in /\ run'[g].age = run[g].age
      BY <1>2, <1>3, <2>2 DEF Stays
    <3>2. /\ mode[run[g].in] # "down"
          /\ mode[run[g].in] = "up" => run[g].age + due[run[g].in] >= Cadence
      BY <3>1 DEF IInv, DueIsLater
    <3>3. /\ due'[run[g].in] \in {due[run[g].in], Cadence}
          /\ mode'[run[g].in] = mode[run[g].in] \/ mode'[run[g].in] = "draining"
      BY <1>2, <1>3, <2>2, <3>1
    <3>4. QED
      BY <1>2, <3>1, <3>2, <3>3
  <2>3. QED
    BY <2>1, <2>2 DEF DueIsLater, Active
<1>4. CASE \E r \in Replicas : QuietStep(r)
  <2>1. PICK r \in Replicas : QuietStep(r)
    BY <1>4
  <2>2. \A g \in Goroutines : Stays(g, 0)
    BY <1>4, FewerSteps, FewerStay DEF IInv
  <2>3. CASE Refused(r) \/ Missed(r) \/ Drain(r)
    BY <1>1, <1>3, <2>2, <2>3 DEF Refused, Missed, Drain, Polled
  <2>4. CASE Exit(r)
    <3>1. \A g \in Goroutines : run'[g].at # "free" => run'[g].in # r
      BY <1>1, <2>4 DEF Exit, Free
    <3>2. QED
      BY <1>1, <1>3, <2>2, <2>4, <3>1 DEF Exit
  <2>5. CASE Boot(r)
    <3>1. \A g \in Goroutines : run'[g].at # "free" => run'[g].in # r
      BY <1>1, <2>5 DEF Boot, IInv, DueIsLater, Active
    <3>2. QED
      BY <1>1, <1>3, <2>2, <2>5, <3>1 DEF Boot
  <2>6. QED
    BY <2>1, <2>3, <2>4, <2>5 DEF QuietStep
<1>5. CASE \E g \in Goroutines : End(g) \/ Mark(g)
  <2>1. \A g \in Goroutines : Stays(g, 0)
    BY <1>5, FewerSteps, FewerStay DEF IInv
  <2>2. due' = due /\ mode' = mode
    BY <1>5 DEF End, Mark
  <2>3. QED
    BY <1>3, <2>1, <2>2
<1>6. CASE UNCHANGED vars
  <2>1. \A g \in Goroutines : Stays(g, 0)
    BY <1>6, FewerSteps, FewerStay DEF IInv
  <2>2. QED
    BY <1>3, <1>6, <2>1 DEF vars
<1>7. CASE \E r \in Replicas, g \in Goroutines : Start(r, g)
  <2>1. PICK r \in Replicas, g \in Goroutines : Start(r, g)
    BY <1>7
  <2>2. /\ run'[g].at = "running" /\ run'[g].in = r /\ run'[g].age = 0
        /\ \A h \in Goroutines \ {g} :
             run'[h].at = run[h].at /\ run'[h].in = run[h].in /\ run'[h].age = run[h].age
    <3>1. /\ run'[g] = [at |-> "running", in |-> r, age |-> 0, joined |-> Siblings(Owner[r]) # {}]
          /\ \A h \in Goroutines \ {g} :
               run'[h].at = run[h].at /\ run'[h].in = run[h].in /\ run'[h].age = run[h].age
      BY <2>1, StartRuns DEF IInv
    <3>2. QED
      BY <3>1
  <2>3. due' = [due EXCEPT ![r] = Cadence] /\ mode' = mode /\ mode[r] = "up" /\ due[r] = 0
    BY <2>1 DEF Start, Polled, Due
  <2>4. ASSUME NEW h \in Goroutines \ {g}, run[h].at # "free", run[h].in = r
        PROVE  run[h].age >= Cadence
    BY <1>2, <2>3, <2>4 DEF IInv, DueIsLater, Active
  <2>5. RunsAreSpaced'
    <3>1. ASSUME NEW h \in Goroutines, NEW x \in Goroutines, h # x,
                 run'[h].at # "free", run'[x].at # "free", run'[h].in = run'[x].in
          PROVE  run'[h].age >= run'[x].age + Cadence \/ run'[x].age >= run'[h].age + Cadence
      <4>1. CASE h = g
        BY <1>2, <2>2, <2>4, <3>1, <4>1
      <4>2. CASE x = g
        BY <1>2, <2>2, <2>4, <3>1, <4>2
      <4>3. CASE h # g /\ x # g
        BY <2>2, <3>1, <4>3 DEF IInv, RunsAreSpaced, Active
      <4>4. QED
        BY <4>1, <4>2, <4>3
    <3>2. QED
      BY <3>1 DEF RunsAreSpaced, Active
  <2>6. DueIsLater'
    <3>1. ASSUME NEW h \in Goroutines, run'[h].at # "free"
          PROVE  /\ mode'[run'[h].in] # "down"
                 /\ mode'[run'[h].in] = "up" => run'[h].age + due'[run'[h].in] >= Cadence
      <4>1. CASE h = g
        BY <1>1, <1>2, <2>2, <2>3, <4>1
      <4>2. CASE h # g
        BY <1>1, <1>2, <2>2, <2>3, <3>1, <4>2 DEF IInv, DueIsLater, Active
      <4>3. QED
        BY <4>1, <4>2
    <3>2. QED
      BY <3>1 DEF DueIsLater, Active
  <2>7. QED
    BY <2>5, <2>6
<1>8. CASE Tick
  <2>1. \A g \in Goroutines : Stays(g, 1)
    BY <1>8, TickRuns DEF IInv
  <2>2. due' = [r \in Replicas |-> Less(due[r])] /\ mode' = mode
    BY <1>8 DEF Tick
  <2>3. \A r \in Replicas : due'[r] >= due[r] - 1 /\ due'[r] \in Nat
    BY <1>2, <2>2 DEF Less
  <2>4. RunsAreSpaced'
    BY <1>2, <2>1 DEF Stays, IInv, RunsAreSpaced, Active
  <2>5. DueIsLater'
    <3>1. ASSUME NEW h \in Goroutines, run'[h].at # "free"
          PROVE  /\ mode'[run'[h].in] # "down"
                 /\ mode'[run'[h].in] = "up" => run'[h].age + due'[run'[h].in] >= Cadence
      <4>1. Active(h) /\ run'[h].in = run[h].in /\ run'[h].age = run[h].age + 1
        BY <2>1, <3>1 DEF Stays
      <4>2. QED
        BY <1>2, <2>2, <2>3, <4>1 DEF IInv, DueIsLater
    <3>2. QED
      BY <3>1 DEF DueIsLater, Active
  <2>6. QED
    BY <2>4, <2>5
<1>9. QED
  BY <1>4, <1>5, <1>6, <1>7, <1>8, NextKinds

LEMMA Allowances ==
  ASSUME NEW m \in 0 .. MaxMisses
  PROVE  /\ Cadence * (m + 1) \in Nat /\ Cadence * (m + 1) >= Cadence
         /\ Cadence * (m + 2) = Cadence * (m + 1) + Cadence
<1>1. Cadence \in Nat /\ m \in Nat
  BY Times
<1>2. \A a, b \in Nat : /\ a * (b + 1) = a * b + a /\ a * (b + 2) = a * b + a + a
                        /\ a * b \in Nat
  OBVIOUS
<1>3. QED
  BY <1>1, <1>2

LEMMA QuietEndsStep ==
  ASSUME IInv, [Next]_vars
  PROVE  QuietEnds'
<1> DEFINE allowed == LeaseTTL + Cadence * (missed + 1)
<1>1. /\ lease \in [owner : Names, left : 0 .. LeaseTTL] /\ due \in [Replicas -> 0 .. Cadence]
      /\ mode \in [Replicas -> {"up", "draining", "down"}]
      /\ missed \in 0 .. MaxMisses /\ quiet \in 0 .. TooQuiet
      /\ Steady \in Replicas
  BY LeaseAssumption DEF IInv, TypeOK
<1>2. /\ LeaseTTL \in Nat /\ LeaseTTL > 0 /\ Cadence \in Nat /\ Cadence > 0 /\ TooQuiet \in Nat
      /\ allowed \in Nat /\ allowed >= LeaseTTL + Cadence
      /\ LeaseTTL + Cadence * (missed + 1 + 1) = allowed + Cadence
  BY <1>1, Times, Allowances, LeaseAssumption
<1>3. /\ mode[Steady] = "up"
      /\ lease.left > 0 => quiet + lease.left <= LeaseTTL
      /\ lease.left = 0 => quiet + due[Steady] < allowed
  BY DEF IInv, QuietEnds
<1>4. /\ lease.left \in Nat /\ due[Steady] \in Nat /\ due[Steady] <= Cadence /\ quiet \in Nat
  BY <1>1, <1>2
<1>5. ASSUME UNCHANGED <<lease, due, missed, quiet>>, mode'[Steady] = mode[Steady]
      PROVE  QuietEnds'
  BY <1>3, <1>5 DEF QuietEnds
<1>6. CASE \E r \in Replicas : QuietStep(r)
  <2>1. PICK r \in Replicas : QuietStep(r)
    BY <1>6
  <2>2. CASE Refused(r)
    <3>1. /\ lease.owner # Owner[r] /\ lease.left # 0 /\ due' = [due EXCEPT ![r] = Cadence]
          /\ UNCHANGED <<lease, mode, missed, quiet>>
      BY <2>2 DEF Refused, Granted, Polled
    <3>2. QED
      BY <1>3, <3>1 DEF QuietEnds
  <2>3. CASE Missed(r)
    <3>1. /\ due' = [due EXCEPT ![r] = Cadence] /\ missed' = missed + 1 /\ due[r] = 0
          /\ UNCHANGED <<lease, mode, quiet>>
      BY <2>3 DEF Missed, Polled, Due
    <3>2. due'[Steady] = IF r = Steady THEN Cadence ELSE due[Steady]
      BY <1>1, <3>1
    <3>3. LeaseTTL + Cadence * (missed' + 1) = allowed + Cadence
      BY <1>2, <3>1
    <3>4. lease.left = 0 => quiet + due'[Steady] < allowed + Cadence
      BY <1>2, <1>3, <1>4, <3>1, <3>2
    <3>5. QED
      BY <1>3, <3>1, <3>3, <3>4 DEF QuietEnds
  <2>4. CASE Drain(r) \/ Exit(r)
    BY <1>1, <1>5, <2>4 DEF Drain, Exit
  <2>5. CASE Boot(r)
    <3>1. r # Steady
      BY <1>3, <2>5 DEF Boot
    <3>2. due'[Steady] = due[Steady] /\ mode'[Steady] = mode[Steady]
      BY <1>1, <2>5, <3>1 DEF Boot
    <3>3. QED
      BY <1>3, <2>5, <3>2 DEF Boot, QuietEnds
  <2>6. QED
    BY <2>1, <2>2, <2>3, <2>4, <2>5 DEF QuietStep
<1>7. CASE \E g \in Goroutines : End(g) \/ Mark(g)
  <2>1. UNCHANGED <<due, mode, missed, quiet>>
    BY <1>7 DEF End, Mark
  <2>2. lease' = lease \/ lease'.left = 0
    BY <1>1, <1>7 DEF End, Mark, Freed
  <2>3. quiet + due[Steady] < allowed
    BY <1>2, <1>3, <1>4
  <2>4. QED
    BY <1>2, <1>3, <2>1, <2>2, <2>3 DEF QuietEnds
<1>8. CASE UNCHANGED vars
  BY <1>5, <1>8 DEF vars
<1>9. CASE \E r \in Replicas, g \in Goroutines : Start(r, g)
  <2>1. lease'.left = LeaseTTL /\ quiet' = 0 /\ mode' = mode
    BY <1>9 DEF Start
  <2>2. QED
    BY <1>2, <1>3, <2>1 DEF QuietEnds
<1>10. CASE Tick
  <2>1. /\ lease'.left = Less(lease.left) /\ due'[Steady] = Less(due[Steady])
        /\ UNCHANGED <<mode, missed>>
    BY <1>1, <1>10 DEF Tick
  <2>2. due[Steady] > 0
    BY <1>1, <1>3, <1>4, <1>10 DEF Tick, Due
  <2>3. quiet' \in Nat /\ quiet' <= quiet + 1
    BY <1>4, <1>10, <1>2 DEF Tick
  <2>4. due'[Steady] = due[Steady] - 1
    BY <1>4, <2>1, <2>2 DEF Less
  <2>5. /\ lease'.left > 0 => quiet' + lease'.left <= LeaseTTL
        /\ lease'.left = 0 => quiet' + due'[Steady] < allowed
    <3>1. CASE lease.left = 0
      BY <1>2, <1>3, <1>4, <2>1, <2>2, <2>3, <2>4, <3>1 DEF Less
    <3>2. CASE lease.left > 0
      <4>1. lease'.left = lease.left - 1
        BY <1>4, <2>1, <3>2 DEF Less
      <4>2. QED
        BY <1>2, <1>3, <1>4, <2>2, <2>3, <2>4, <3>2, <4>1
    <3>3. QED
      BY <1>4, <3>1, <3>2
  <2>6. QED
    BY <1>3, <2>1, <2>5 DEF QuietEnds
<1>11. QED
  BY <1>6, <1>7, <1>8, <1>9, <1>10, NextKinds
----------------------------------------------------------------------------
(* The theorems.                                                           *)

LEMMA Invariance == Spec => []IInv
<1>1. ASSUME Init PROVE IInv
  <2>1. TypeOK
    BY <1>1, TypeInit
  <2>2. \A g \in Goroutines : ~Active(g)
    BY <1>1 DEF Init, Active, Free
  <2>3. BatchesReturn /\ LoneRunsHold /\ SharersKnow /\ DueIsLater /\ RunsAreSpaced
    BY <2>2 DEF BatchesReturn, LoneRunsHold, SharersKnow, DueIsLater, RunsAreSpaced, Active, Running
  <2>4. QuietEnds
    <3>1. Cadence * (0 + 1) = Cadence /\ Cadence \in Nat /\ Cadence > 0 /\ LeaseTTL \in Nat /\ LeaseTTL > 0
      BY Times, LeaseAssumption
    <3>2. mode[Steady] = "up" /\ lease.left = 0 /\ due[Steady] = 1 /\ missed = 0 /\ quiet = 0
      BY <1>1, LeaseAssumption DEF Init
    <3>3. QED
      BY <3>1, <3>2 DEF QuietEnds
  <2>5. QED
    BY <2>1, <2>3, <2>4 DEF IInv
<1>2. ASSUME IInv, [Next]_vars PROVE IInv'
  <2>1. TypeOK'
    BY <1>2, TypeStep DEF IInv
  <2>2. QED
    BY <1>2, <2>1, LoneRunsHoldStep, SpacedStep, QuietEndsStep DEF IInv
<1>3. QED
  BY <1>1, <1>2, PTL DEF Spec

(* The row and the runs have their types: no lease is longer than its TTL, *)
(* no run older than it may become.                                        *)
THEOREM TypeCorrect == Spec => []TypeOK
<1>1. IInv => TypeOK
  BY DEF IInv
<1>2. QED
  BY <1>1, Invariance, PTL

(* TryAcquire, MarkSuccess: runs of two names overlap only if one of them  *)
(* shared its name with a run that was not over.                           *)
THEOREM LoneRunsExclude == Spec => []NamesExclude
<1>1. IInv => NamesExclude
  BY DEF IInv, NamesExclude, LoneRunsHold
<1>2. QED
  BY <1>1, Invariance, PTL

(* tickOnce: the runs of a replica are a cadence apart, however long they  *)
(* last and however often it is restarted.                                 *)
THEOREM RunsSpaced == Spec => []RunsAreSpaced
<1>1. IInv => RunsAreSpaced
  BY DEF IInv
<1>2. QED
  BY <1>1, Invariance, PTL

(* Failover: with one replica that lives, no batch running lasts less than *)
(* a lease, a cadence and a cadence per failed statement.                  *)
THEOREM FailoverBounded == Spec => []FailoverIsBounded
<1>1. ASSUME IInv PROVE FailoverIsBounded
  <2>1. /\ missed \in 0 .. MaxMisses /\ lease.left \in 0 .. LeaseTTL
        /\ due[Steady] \in 0 .. Cadence /\ quiet \in Nat
    BY <1>1, Times, LeaseAssumption DEF IInv, TypeOK
  <2>2. Cadence * (missed + 1) \in Nat /\ Cadence * (missed + 1) >= Cadence
    BY <2>1, Allowances
  <2>3. QED
    BY <1>1, <2>1, <2>2, Times DEF IInv, QuietEnds, FailoverIsBounded
<1>2. QED
  BY <1>1, Invariance, PTL

(* App.RunWorker gives every replica the service's name as Owner: then     *)
(* TryAcquire refuses nobody, and the lease excludes nothing.              *)
NobodyRefused == \A r \in Replicas : Granted(Owner[r])

THEOREM SharedNameExcludesNobody ==
  ASSUME \A r, s \in Replicas : Owner[r] = Owner[s]
  PROVE  Spec => []NobodyRefused
<1>1. IInv => NobodyRefused
  BY DEF IInv, TypeOK, Names, NobodyRefused, Granted
<1>2. QED
  BY <1>1, Invariance, PTL
=============================================================================
