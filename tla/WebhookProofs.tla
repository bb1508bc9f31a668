----------------------------- MODULE WebhookProofs -----------------------------
(***************************************************************************)
(* Seller webhooks, for every number of deliveries, workers, attempts and  *)
(* retries: nothing is recorded as delivered that was not accepted, an     *)
(* endpoint is not called more often than outbox rows allow, and a         *)
(* delivery to be tried again has somebody who will.                       *)
(***************************************************************************)
EXTENDS SellerWebhooks, FiniteSetTheorems, TLAPS

JobRows   == [Goroutines -> [at : Step, of : Deliveries, row : Rows, seen : Deliv, result : Deliv]]
Table     == [Deliveries -> [Rows -> RowStatus]]

LEMMA TypeParts ==
  /\ TypeOK <=> /\ delivery \in [Deliveries -> Deliv] /\ outbox \in Table
                /\ posts \in [Deliveries -> Nat] /\ accepted \subseteq Deliveries
                /\ job \in JobRows /\ faults \in 0 .. MaxFaults /\ troubled \subseteq Deliveries
  /\ TypeOK' <=> /\ delivery' \in [Deliveries -> Deliv] /\ outbox' \in Table
                 /\ posts' \in [Deliveries -> Nat] /\ accepted' \subseteq Deliveries
                 /\ job' \in JobRows /\ faults' \in 0 .. MaxFaults /\ troubled' \subseteq Deliveries
  BY DEF TypeOK, Table, JobRows

----------------------------------------------------------------------------
(* The inductive invariant.                                                *)

(* A delivery with rows or goroutines exists. *)
Rooted ==
  /\ \A d \in Deliveries : delivery[d].status = "NONE" => \A r \in Rows : outbox[d][r] = "NONE"
  /\ \A g \in Goroutines : job[g].at # "idle" => delivery[job[g].of].status # "NONE"

(* A worker owns the outbox row it has claimed. *)
Owned ==
  \A w \in Workers : job[w].at # "idle" =>
    /\ outbox[job[w].of][job[w].row] = "processing"
    /\ \A x \in Workers \ {w} :
         job[x].at # "idle" => job[x].of # job[w].of \/ job[x].row # job[w].row

(* Rows whose request has been made, or never will be.                     *)
Unmade(w, d, r) == job[w].of = d /\ job[w].row = r /\ job[w].at \in {"read", "post"}
Burnt(d) == {r \in Rows : /\ outbox[d][r] \in {"processing", "completed"}
                          /\ \A w \in Workers : ~Unmade(w, d, r)}

Counted == \A d \in Deliveries : posts[d] <= Cardinality(Burnt(d))

(* What a goroutine is about to write is true. *)
Truthful ==
  \A g \in Goroutines : job[g].at = "save" =>
    /\ job[g].result.status # "NONE"
    /\ job[g].result.status = "DELIVERED" => job[g].of \in accepted

IInv ==
  /\ TypeOK
  /\ Rooted
  /\ Owned
  /\ Counted
  /\ Truthful
  /\ DeliveredWasAccepted

----------------------------------------------------------------------------
(* Counting rows.                                                          *)

AttemptRows == [kind : {"ATTEMPT"}, n : Attempts]
WaveRows(W) == [kind : {"WAVE"}, n : W]

LEMMA RecordsCount ==
  ASSUME NEW W, IsFiniteSet(W), NEW kind
  PROVE  /\ IsFiniteSet([kind : {kind}, n : W])
         /\ Cardinality([kind : {kind}, n : W]) = Cardinality(W)
<1> DEFINE f == [i \in W |-> [kind |-> kind, n |-> i]]
           T == [kind : {kind}, n : W]
<1>1. f \in [W -> T] /\ \A i, j \in W : f[i] = f[j] => i = j
  OBVIOUS
<1>2. \A t \in T : t.n \in W /\ f[t.n] = t
  OBVIOUS
<1>3. f \in Bijection(W, T)
  BY <1>1, <1>2 DEF Bijection, Injection, Surjection, IsInjective
<1>4. ExistsBijection(W, T)
  BY <1>3 DEF ExistsBijection
<1>5. QED
  BY <1>4, FS_Bijection

LEMMA RowsFinite ==
  /\ IsFiniteSet(Rows)
  /\ IsFiniteSet(AttemptRows) /\ Cardinality(AttemptRows) = MaxAttempts
<1>1. /\ IsFiniteSet(Attempts) /\ Cardinality(Attempts) = MaxAttempts
      /\ IsFiniteSet(Waves)
  BY WebhookAssumption, FS_Interval DEF Attempts, Waves
<1>2. IsFiniteSet(AttemptRows) /\ Cardinality(AttemptRows) = MaxAttempts
  BY <1>1, RecordsCount DEF AttemptRows
<1>3. IsFiniteSet(WaveRows(Waves))
  BY <1>1, RecordsCount DEF WaveRows
<1>4. Rows = AttemptRows \cup WaveRows(Waves)
  BY DEF Rows, AttemptRows, WaveRows
<1>5. QED
  BY <1>2, <1>3, <1>4, FS_Union

LEMMA BurntFinite ==
  ASSUME NEW d
  PROVE  IsFiniteSet(Burnt(d)) /\ IsFiniteSet(Burnt(d)')
<1>1. Burnt(d) \in SUBSET Rows /\ Burnt(d)' \in SUBSET Rows
  BY DEF Burnt
<1>2. QED
  BY <1>1, RowsFinite, FS_Subset

LEMMA CountStays ==
  ASSUME Counted, TypeOK, UNCHANGED posts, \A d \in Deliveries : Burnt(d) \subseteq Burnt(d)'
  PROVE  Counted'
<1>1. SUFFICES ASSUME NEW d \in Deliveries PROVE posts'[d] <= Cardinality(Burnt(d)')
  BY DEF Counted
<1>2. IsFiniteSet(Burnt(d)) /\ IsFiniteSet(Burnt(d)')
  BY BurntFinite
<1>3. Cardinality(Burnt(d)) <= Cardinality(Burnt(d)')
  BY <1>2, FS_Subset
<1>4. Cardinality(Burnt(d)) \in Nat /\ Cardinality(Burnt(d)') \in Nat
  BY <1>2, FS_CardinalityType
<1>5. QED
  BY <1>3, <1>4 DEF Counted, TypeOK

LEMMA CountGrows ==
  ASSUME Counted, TypeOK, NEW d \in Deliveries, NEW r \in Rows,
         posts' = [posts EXCEPT ![d] = @ + 1], r \notin Burnt(d), r \in Burnt(d)',
         \A c \in Deliveries : Burnt(c) \subseteq Burnt(c)'
  PROVE  Counted'
<1>1. SUFFICES ASSUME NEW c \in Deliveries PROVE posts'[c] <= Cardinality(Burnt(c)')
  BY DEF Counted
<1>2. IsFiniteSet(Burnt(c)) /\ IsFiniteSet(Burnt(c)')
  BY BurntFinite
<1>3. Cardinality(Burnt(c)) \in Nat /\ Cardinality(Burnt(c)') \in Nat
  BY <1>2, FS_CardinalityType
<1>4. Cardinality(Burnt(c)) <= Cardinality(Burnt(c)') /\ posts[c] <= Cardinality(Burnt(c))
      /\ posts[c] \in Nat
  BY <1>2, FS_Subset DEF Counted, TypeOK
<1>5. CASE c # d
  BY <1>3, <1>4, <1>5 DEF TypeOK
<1>6. CASE c = d
  <2>1. Cardinality(Burnt(c) \cup {r}) = Cardinality(Burnt(c)) + 1
        /\ IsFiniteSet(Burnt(c) \cup {r})
    BY <1>2, <1>6, FS_AddElement
  <2>2. Burnt(c) \cup {r} \subseteq Burnt(c)'
    BY <1>6
  <2>3. Cardinality(Burnt(c) \cup {r}) <= Cardinality(Burnt(c)')
    BY <1>2, <2>2, FS_Subset
  <2>4. posts'[c] = posts[c] + 1
    BY <1>6 DEF TypeOK
  <2>5. QED
    BY <1>3, <1>4, <2>1, <2>3, <2>4
<1>7. QED
  BY <1>5, <1>6

----------------------------------------------------------------------------
(* One goroutine g goes from its record to r.  What the step must observe. *)

JobRec == [at : Step, of : Deliveries, row : Rows, seen : Deliv, result : Deliv]
Is(g, r) == r \in JobRec /\ job' = [job EXCEPT ![g] = r]

Taken == {"processing", "completed"}
Owns(g, d, x) == g \in Workers /\ job[g].at # "idle" /\ job[g].of = d /\ job[g].row = x

(* Rows another worker owns are left alone, and a worker that gives a row  *)
(* back before its request gives up the row.                               *)
RowsObey(g, r) ==
  \A d \in Deliveries, x \in Rows :
    outbox[d][x] \in Taken =>
      \/ outbox'[d][x] = outbox[d][x]
      \/ Owns(g, d, x) /\ r.at = "idle" /\ (outbox'[d][x] = "completed" \/ job[g].at = "read")

Claims(r) == outbox[r.of][r.row] \notin Taken /\ outbox'[r.of][r.row] = "processing" /\ r.at = "read"

(* A worker goes on with its row, and does not go back to the request.     *)
RowIsMine(g, r) ==
  g \in Workers /\ r.at # "idle" =>
    \/ Claims(r)
    \/ /\ Owns(g, r.of, r.row) /\ outbox'[r.of][r.row] = outbox[r.of][r.row]
       /\ r.at \in {"read", "post"} => job[g].at \in {"read", "post"}

(* Only deliveries that exist are worked on, and none ceases to exist.     *)
RootsObey(r) ==
  /\ \A d \in Deliveries : delivery'[d].status = "NONE" =>
                             delivery[d].status = "NONE" /\ outbox'[d] = outbox[d]
  /\ r.at # "idle" => delivery[r.of].status # "NONE"

(* A delivery becomes DELIVERED only after the endpoint's 2xx.             *)
TruthObeys(r) ==
  /\ accepted \subseteq accepted'
  /\ r.at = "save" => /\ r.result.status # "NONE"
                      /\ r.result.status = "DELIVERED" => r.of \in accepted'
  /\ \A d \in Deliveries : delivery'[d].status = "DELIVERED" =>
                             delivery[d].status = "DELIVERED" \/ d \in accepted

(* A request uses up the row of the worker that makes it.                  *)
PostsObey(g, r) ==
  \/ posts' = posts
  \/ /\ g \in Workers /\ job[g].at = "post" /\ r.at = "save"
     /\ posts' = [posts EXCEPT ![job[g].of] = @ + 1]

LEMMA Others ==
  ASSUME TypeOK, NEW g \in Goroutines, NEW r, Is(g, r)
  PROVE  job'[g] = r /\ \A h \in Goroutines \ {g} : job'[h] = job[h]
BY TypeParts DEF Is, JobRows

LEMMA OwnedKept ==
  ASSUME IInv, NEW g \in Goroutines, NEW r, Is(g, r), RowsObey(g, r), RowIsMine(g, r)
  PROVE  Owned'
<1>1. job'[g] = r /\ (\A h \in Goroutines \ {g} : job'[h] = job[h]) /\ Workers \subseteq Goroutines
  BY Others DEF IInv, Goroutines
<1>2. r.of \in Deliveries /\ r.row \in Rows
      /\ \A w \in Workers : job[w].of \in Deliveries /\ job[w].row \in Rows
  BY <1>1 DEF Is, JobRec, IInv, TypeOK
<1>3. \A w \in Workers : job[w].at # "idle" => outbox[job[w].of][job[w].row] = "processing"
  BY DEF IInv, Owned
<1>4. \A w, x \in Workers : w # x /\ job[w].at # "idle" /\ job[x].at # "idle"
                              => job[x].of # job[w].of \/ job[x].row # job[w].row
  BY DEF IInv, Owned
<1>5. ASSUME NEW w \in Workers, job'[w].at # "idle"
      PROVE  outbox'[job'[w].of][job'[w].row] = "processing"
  <2>1. CASE w = g
    BY <1>1, <1>3, <1>5, <2>1 DEF RowIsMine, Claims, Owns
  <2>2. CASE w # g
    <3>1. job'[w] = job[w] /\ outbox[job[w].of][job[w].row] = "processing"
      BY <1>1, <1>3, <1>5, <2>2
    <3>2. ~Owns(g, job[w].of, job[w].row)
      BY <1>4, <1>5, <2>2, <3>1 DEF Owns
    <3>3. QED
      BY <1>2, <3>1, <3>2 DEF RowsObey, Taken
  <2>3. QED
    BY <2>1, <2>2
<1>6. ASSUME NEW w \in Workers \ {g}, g \in Workers, job'[w].at # "idle", r.at # "idle"
      PROVE  r.of # job[w].of \/ r.row # job[w].row
  <2>1. job[w].at # "idle" /\ outbox[job[w].of][job[w].row] = "processing"
    BY <1>1, <1>3, <1>6
  <2>2. CASE Claims(r)
    BY <2>1, <2>2 DEF Claims, Taken
  <2>3. CASE Owns(g, r.of, r.row)
    BY <1>4, <1>6, <2>1, <2>3 DEF Owns
  <2>4. QED
    BY <1>6, <2>2, <2>3 DEF RowIsMine
<1>7. ASSUME NEW w \in Workers, NEW x \in Workers \ {w}, job'[w].at # "idle", job'[x].at # "idle"
      PROVE  job'[x].of # job'[w].of \/ job'[x].row # job'[w].row
  <2>1. CASE w = g
    BY <1>1, <1>6, <1>7, <2>1
  <2>2. CASE x = g
    BY <1>1, <1>6, <1>7, <2>2
  <2>3. CASE w # g /\ x # g
    BY <1>1, <1>4, <1>7, <2>3
  <2>4. QED
    BY <2>1, <2>2, <2>3
<1>8. QED
  BY <1>5, <1>7 DEF Owned

LEMMA BurntKept ==
  ASSUME IInv, NEW g \in Goroutines, NEW r, Is(g, r), RowsObey(g, r), RowIsMine(g, r),
         NEW d \in Deliveries
  PROVE  Burnt(d) \subseteq Burnt(d)'
<1>1. job'[g] = r /\ (\A h \in Goroutines \ {g} : job'[h] = job[h]) /\ Workers \subseteq Goroutines
  BY Others DEF IInv, Goroutines
<1>2. SUFFICES ASSUME NEW x \in Rows, outbox[d][x] \in Taken, \A w \in Workers : ~Unmade(w, d, x)
               PROVE  outbox'[d][x] \in Taken /\ \A w \in Workers : ~Unmade(w, d, x)'
  BY DEF Burnt, Taken
<1>3. outbox'[d][x] \in Taken
  <2>1. CASE outbox'[d][x] = outbox[d][x]
    BY <1>2, <2>1
  <2>2. CASE Owns(g, d, x) /\ (outbox'[d][x] = "completed" \/ job[g].at = "read")
    BY <1>2, <2>2 DEF Owns, Unmade, Taken
  <2>3. QED
    BY <1>2, <2>1, <2>2 DEF RowsObey
<1>4. ASSUME NEW w \in Workers PROVE ~Unmade(w, d, x)'
  <2>1. CASE w # g
    BY <1>1, <1>2, <2>1 DEF Unmade
  <2>2. CASE w = g
    BY <1>1, <1>2, <2>2 DEF Unmade, RowIsMine, Claims, Owns
  <2>3. QED
    BY <2>1, <2>2
<1>5. QED
  BY <1>3, <1>4

LEMMA CountKept ==
  ASSUME IInv, NEW g \in Goroutines, NEW r, Is(g, r), RowsObey(g, r), RowIsMine(g, r), PostsObey(g, r)
  PROVE  Counted'
<1>1. \A d \in Deliveries : Burnt(d) \subseteq Burnt(d)'
  BY BurntKept
<1>2. CASE posts' = posts
  BY <1>1, <1>2, CountStays DEF IInv
<1>3. CASE /\ g \in Workers /\ job[g].at = "post" /\ r.at = "save"
           /\ posts' = [posts EXCEPT ![job[g].of] = @ + 1]
  <2>1. PICK d \in Deliveries, x \in Rows : d = job[g].of /\ x = job[g].row
    BY DEF IInv, TypeOK
  <2>2. x \notin Burnt(d)
    BY <1>3, <2>1 DEF Burnt, Unmade
  <2>3. job'[g] = r /\ (\A h \in Goroutines \ {g} : job'[h] = job[h]) /\ Workers \subseteq Goroutines
    BY Others DEF IInv, Goroutines
  <2>4. Owned
    BY DEF IInv
  <2>5. outbox[d][x] = "processing" /\ \A w \in Workers \ {g} : ~Unmade(w, d, x)
    BY <1>3, <2>1, <2>4 DEF Owned, Unmade
  <2>6. outbox'[d][x] = "processing"
    BY <1>3, <2>5 DEF RowsObey, Taken
  <2>7. \A w \in Workers : ~Unmade(w, d, x)'
    BY <1>3, <2>3, <2>5 DEF Unmade
  <2>8. x \in Burnt(d)'
    BY <2>6, <2>7 DEF Burnt
  <2>9. QED
    BY <1>1, <1>3, <2>1, <2>2, <2>8, CountGrows DEF IInv
<1>4. QED
  BY <1>2, <1>3 DEF PostsObey

LEMMA GoodStep ==
  ASSUME IInv, TypeOK', NEW g \in Goroutines, NEW r, Is(g, r), RowsObey(g, r), RowIsMine(g, r),
         RootsObey(r), TruthObeys(r), PostsObey(g, r)
  PROVE  IInv'
<1>1. job'[g] = r /\ \A h \in Goroutines \ {g} : job'[h] = job[h]
  BY Others DEF IInv
<1>2. Rooted'
  <2>1. \A d \in Deliveries : delivery'[d].status = "NONE" => \A x \in Rows : outbox'[d][x] = "NONE"
    BY DEF RootsObey, IInv, Rooted
  <2>2. ASSUME NEW h \in Goroutines, job'[h].at # "idle" PROVE delivery'[job'[h].of].status # "NONE"
    <3>1. job'[h].of \in Deliveries
      BY DEF TypeOK
    <3>2. delivery[job'[h].of].status # "NONE"
      BY <1>1, <2>2 DEF RootsObey, IInv, Rooted
    <3>3. QED
      BY <3>1, <3>2 DEF RootsObey
  <2>3. QED
    BY <2>1, <2>2 DEF Rooted
<1>3. Truthful'
  BY <1>1 DEF TruthObeys, IInv, Truthful
<1>4. DeliveredWasAccepted'
  BY DEF TruthObeys, IInv, DeliveredWasAccepted
<1>5. QED
  BY <1>2, <1>3, <1>4, OwnedKept, CountKept DEF IInv
----------------------------------------------------------------------------
(* The actions.                                                            *)

LEMMA Facts ==
  ASSUME IInv, NEW g \in Goroutines
  PROVE  /\ job[g] \in JobRec /\ job[g].of \in Deliveries /\ job[g].row \in Rows
         /\ job[g].seen \in Deliv /\ job[g].result \in Deliv
         /\ job[g].at # "idle" => delivery[job[g].of].status # "NONE"
         /\ g \in Workers /\ job[g].at # "idle" => outbox[job[g].of][job[g].row] = "processing"
         /\ Workers \subseteq Goroutines /\ Admins \subseteq Goroutines
BY TypeParts DEF IInv, JobRows, JobRec, Rooted, Owned, Goroutines

LEMMA RestingType == Resting \in JobRec /\ Resting.at = "idle"
<1>1. PICK d0 \in Deliveries : TRUE
  BY WebhookAssumption
<1>2. (CHOOSE d \in Deliveries : TRUE) \in Deliveries
  BY <1>1
<1>3. Attempt(0) \in Rows
  BY WebhookAssumption DEF Attempt, Rows, Attempts
<1>4. QED
  BY <1>2, <1>3 DEF Resting, JobRec, Step, NoDeliv, Deliv, Status

(* A goroutine comes to the end of its row.                                *)
Ended(g) == [Resting EXCEPT !.at = "finish", !.of = job[g].of, !.row = job[g].row]

LEMMA EndedType ==
  ASSUME IInv, NEW g \in Goroutines
  PROVE  /\ Ended(g) \in JobRec /\ Ended(g).at = "finish"
         /\ Ended(g).of = job[g].of /\ Ended(g).row = job[g].row
         /\ End(g) => job' = [job EXCEPT ![g] = Ended(g)]
BY Facts, RestingType DEF Ended, End, Of, Resting, JobRec, Step

(* One row changes. *)
LEMMA SetRowIs ==
  ASSUME TypeOK, NEW d \in Deliveries, NEW x, NEW s \in RowStatus, SetRow(d, x, s)
  PROVE  /\ outbox' \in Table
         /\ x \in Rows => outbox'[d][x] = s
         /\ \A e \in Deliveries, y \in Rows : e # d \/ y # x => outbox'[e][y] = outbox[e][y]
         /\ \A e \in Deliveries : e # d => outbox'[e] = outbox[e]
BY TypeParts DEF SetRow, Table

LEMMA ClaimStep ==
  ASSUME IInv, NEW w \in Workers, NEW d \in Deliveries, NEW x \in Rows, Claim(w, d, x)
  PROVE  IInv'
<1> DEFINE r == [Resting EXCEPT !.at = "read", !.of = d, !.row = x]
<1>1. TypeOK /\ w \in Goroutines
  BY Facts DEF IInv, Goroutines
<1>2. r \in JobRec /\ r.at = "read" /\ r.of = d /\ r.row = x
  BY RestingType DEF JobRec, Step
<1>3. Is(w, r)
  BY <1>2 DEF Claim, Is
<1>4. /\ outbox' \in Table /\ outbox'[d][x] = "processing" /\ outbox[d][x] \in {"pending", "failed"}
      /\ \A e \in Deliveries, y \in Rows : e # d \/ y # x => outbox'[e][y] = outbox[e][y]
      /\ \A e \in Deliveries : e # d => outbox'[e] = outbox[e]
  BY <1>1, SetRowIs DEF Claim, RowStatus
<1>5. UNCHANGED <<delivery, posts, accepted, faults, troubled>> /\ job[w].at = "idle"
  BY DEF Claim, At
<1>6. TypeOK'
  BY <1>1, <1>3, <1>4, <1>5, TypeParts DEF Is, JobRows, JobRec
<1>7. RowsObey(w, r)
  BY <1>4 DEF RowsObey, Taken
<1>8. RowIsMine(w, r)
  BY <1>2, <1>4 DEF RowIsMine, Claims, Taken
<1>9. delivery[d].status # "NONE"
  BY <1>4 DEF IInv, Rooted
<1>10. RootsObey(r)
  BY <1>2, <1>4, <1>5, <1>9 DEF RootsObey
<1>11. TruthObeys(r) /\ PostsObey(w, r)
  BY <1>2, <1>5 DEF TruthObeys, PostsObey
<1> HIDE DEF r
<1>12. QED
  BY <1>1, <1>3, <1>6, <1>7, <1>8, <1>10, <1>11, GoodStep

(* A step that only moves the goroutine's record. *)
LEMMA MoveStep ==
  ASSUME IInv, NEW g \in Goroutines, NEW r, Is(g, r), job[g].at # "idle", r.of = job[g].of,
         r.row = job[g].row, r.at \in {"read", "post"} => job[g].at \in {"read", "post"},
         UNCHANGED <<delivery, outbox>>, faults' \in 0 .. MaxFaults, troubled' \subseteq Deliveries,
         accepted \subseteq accepted', accepted' \subseteq Deliveries,
         posts' \in [Deliveries -> Nat], PostsObey(g, r),
         r.at = "save" => /\ r.result.status # "NONE"
                          /\ r.result.status = "DELIVERED" => r.of \in accepted'
  PROVE  IInv'
<1>1. TypeOK'
  BY TypeParts DEF Is, JobRows, JobRec, IInv
<1>2. RowsObey(g, r)
  BY DEF RowsObey
<1>3. RowIsMine(g, r)
  BY DEF RowIsMine, Owns
<1>4. RootsObey(r)
  BY Facts DEF RootsObey
<1>5. TruthObeys(r)
  BY DEF TruthObeys
<1>6. QED
  BY <1>1, <1>2, <1>3, <1>4, <1>5, GoodStep

LEMMA ReadStep ==
  ASSUME IInv, NEW w \in Goroutines, Read(w)
  PROVE  IInv'
<1> DEFINE r == IF delivery[Of(w)].status = "DELIVERED" THEN Ended(w)
                ELSE [job[w] EXCEPT !.at = "post", !.seen = delivery[Of(w)]]
<1>1. job[w] \in JobRec /\ delivery[Of(w)] \in Deliv /\ job[w].at = "read"
  BY Facts, TypeParts DEF IInv, Of, Read, At
<1>2. r \in JobRec /\ r.of = job[w].of /\ r.row = job[w].row /\ r.at \in {"finish", "post"}
  BY <1>1, EndedType DEF JobRec, Step
<1>3. job' = [job EXCEPT ![w] = r] /\ UNCHANGED <<delivery, outbox, posts, accepted, faults, troubled>>
  BY <1>1, EndedType, TypeParts DEF IInv, Read, JobRows, JobRec
<1>4. /\ posts \in [Deliveries -> Nat] /\ accepted \subseteq Deliveries
      /\ faults \in 0 .. MaxFaults /\ troubled \subseteq Deliveries
  BY TypeParts DEF IInv
<1> HIDE DEF r
<1>5. QED
  BY <1>1, <1>2, <1>3, <1>4, MoveStep DEF Is, PostsObey

LEMMA Results ==
  ASSUME NEW seen \in Deliv
  PROVE  /\ Again(seen) \in Deliv /\ Dead(seen) \in Deliv /\ Sent(seen) \in Deliv
         /\ Again(seen).status \in {"DEAD_LETTER", "RETRYING"} /\ Dead(seen).status = "DEAD_LETTER"
         /\ Sent(seen).status = "DELIVERED"
BY WebhookAssumption DEF Again, Dead, Sent, Deliv, Status

LEMMA PostStep ==
  ASSUME IInv, NEW w \in Goroutines, Post(w)
  PROVE  IInv'
<1> DEFINE d == job[w].of
           seen == job[w].seen
<1>1. /\ job[w] \in JobRec /\ d \in Deliveries /\ seen \in Deliv /\ job[w].at = "post" /\ w \in Workers
      /\ posts \in [Deliveries -> Nat] /\ accepted \subseteq Deliveries
      /\ faults \in 0 .. MaxFaults /\ troubled \subseteq Deliveries
  BY Facts, TypeParts DEF IInv, Of, Post, At
<1> DEFINE Ends(res) ==
             /\ job' = [job EXCEPT ![w].at = "save", ![w].result = res]
             /\ accepted' \in {accepted, accepted \cup {d}}
             /\ res.status = "DELIVERED" => accepted' = accepted \cup {d}
             /\ posts' \in {posts, [posts EXCEPT ![d] = @ + 1]}
             /\ UNCHANGED <<delivery, outbox, faults, troubled>>
<1>2. PICK res \in {Again(seen), Dead(seen), Sent(seen)} : Ends(res)
  <2>1. Again(seen).status # "DELIVERED" /\ Dead(seen).status # "DELIVERED"
    BY <1>1, Results
  <2>2. CASE Ends(Sent(seen))
    BY <2>2
  <2>3. CASE Ends(Again(seen))
    BY <2>3
  <2>4. CASE Ends(Dead(seen))
    BY <2>4
  <2>5. Ends(Sent(seen)) \/ Ends(Again(seen)) \/ Ends(Dead(seen))
    BY <2>1 DEF Post, Of
  <2> HIDE DEF Ends
  <2>6. QED
    BY <2>2, <2>3, <2>4, <2>5
<1> DEFINE r == [job[w] EXCEPT !.at = "save", !.result = res]
<1>3. /\ res \in Deliv /\ res.status # "NONE"
      /\ res.status = "DELIVERED" => accepted' = accepted \cup {d}
  BY <1>1, <1>2, Results
<1>4. r \in JobRec /\ r.of = d /\ r.row = job[w].row /\ r.at = "save" /\ r.result = res
  BY <1>1, <1>3 DEF JobRec, Step
<1>5. job' = [job EXCEPT ![w] = r]
  BY <1>1, <1>2, TypeParts DEF IInv, JobRows, JobRec
<1>6. accepted \subseteq accepted' /\ accepted' \subseteq Deliveries
      /\ (res.status = "DELIVERED" => d \in accepted')
  BY <1>1, <1>2, <1>3
<1>7. posts' \in [Deliveries -> Nat]
  BY <1>1, <1>2
<1> HIDE DEF r
<1>8. PostsObey(w, r)
  BY <1>1, <1>2, <1>4 DEF PostsObey
<1>9. QED
  BY <1>1, <1>2, <1>3, <1>4, <1>5, <1>6, <1>7, <1>8, MoveStep DEF Is

(* Where a goroutine goes after it has written the delivery, or not.       *)
Went(g) == IF job[g].result.status \in Open
           THEN [job[g] EXCEPT !.at = "insert", !.seen = NoDeliv] ELSE Ended(g)

LEMMA WentType ==
  ASSUME IInv, NEW g \in Goroutines
  PROVE  /\ Went(g) \in JobRec /\ Went(g).of = job[g].of /\ Went(g).row = job[g].row
         /\ Went(g).at \in {"insert", "finish"}
         /\ Went(g).at = "insert" <=> job[g].result.status \in Open
         /\ Went(g).at = "insert" => Went(g).result = job[g].result
         /\ GoOn(g) => job' = [job EXCEPT ![g] = Went(g)]
<1>1. job[g] \in JobRec /\ job \in JobRows
  BY Facts, TypeParts DEF IInv
<1>2. NoDeliv \in Deliv
  BY DEF NoDeliv, Deliv, Status
<1>3. CASE job[g].result.status \in Open
  BY <1>1, <1>2, <1>3 DEF Went, GoOn, JobRows, JobRec, Step
<1>4. CASE job[g].result.status \notin Open
  BY <1>4, EndedType DEF Went, GoOn
<1>5. QED
  BY <1>3, <1>4

LEMMA SaveStep ==
  ASSUME IInv, NEW g \in Goroutines, Save(g)
  PROVE  IInv'
<1> DEFINE d == job[g].of
           r == Went(g)
<1>1. /\ job[g] \in JobRec /\ d \in Deliveries /\ job[g].result \in Deliv /\ job[g].at = "save"
      /\ delivery[d].status # "NONE"
  BY Facts DEF Save, At
<1>2. job[g].result.status # "NONE" /\ (job[g].result.status = "DELIVERED" => d \in accepted)
  BY <1>1 DEF IInv, Truthful
<1>3. /\ delivery' = [delivery EXCEPT ![d] = job[g].result] /\ delivery \in [Deliveries -> Deliv]
      /\ troubled' \subseteq Deliveries /\ UNCHANGED <<outbox, posts, accepted, faults>>
  BY <1>1, TypeParts DEF IInv, Save, Of, Suffer
<1>4. r \in JobRec /\ r.of = d /\ r.row = job[g].row /\ r.at \in {"insert", "finish"}
  BY WentType
<1>5. Is(g, r)
  BY WentType DEF Is, Save
<1> HIDE DEF r
<1>6. TypeOK'
  BY <1>1, <1>3, <1>4, <1>5, TypeParts DEF IInv, Is, JobRows, JobRec
<1>7. RowsObey(g, r) /\ RowIsMine(g, r) /\ PostsObey(g, r)
  BY <1>1, <1>3, <1>4 DEF RowsObey, RowIsMine, Owns, PostsObey
<1>8. RootsObey(r)
  BY <1>1, <1>2, <1>3, <1>4 DEF RootsObey
<1>9. TruthObeys(r)
  BY <1>1, <1>2, <1>3, <1>4 DEF TruthObeys
<1>10. QED
  BY <1>5, <1>6, <1>7, <1>8, <1>9, GoodStep

(* A statement fails. *)
LEMMA FaultBound ==
  ASSUME IInv, Fault
  PROVE  faults' \in 0 .. MaxFaults
BY WebhookAssumption DEF Fault, IInv, TypeOK

LEMMA SaveFailsStep ==
  ASSUME IInv, NEW w \in Workers, SaveFails(w)
  PROVE  IInv'
<1>1. /\ w \in Goroutines /\ job[w].at = "save" /\ faults' \in 0 .. MaxFaults
      /\ UNCHANGED <<delivery, outbox, posts, accepted>> /\ troubled' = troubled \cup {job[w].of}
  BY FaultBound DEF Goroutines, SaveFails, At, Of, Suffer
<1>2. /\ job[w].of \in Deliveries /\ posts \in [Deliveries -> Nat]
      /\ accepted \subseteq Deliveries /\ troubled \subseteq Deliveries
  BY <1>1, Facts, TypeParts DEF IInv
<1>3. Is(w, Went(w))
  BY <1>1, WentType DEF Is, SaveFails
<1>4. QED
  BY <1>1, <1>2, <1>3, WentType, MoveStep DEF PostsObey

LEMMA InsertFailsStep ==
  ASSUME IInv, NEW g \in Goroutines, InsertFails(g)
  PROVE  IInv'
<1>1. /\ job[g].at = "insert" /\ faults' \in 0 .. MaxFaults
      /\ UNCHANGED <<delivery, outbox, posts, accepted>> /\ troubled' = troubled \cup {job[g].of}
  BY FaultBound DEF InsertFails, At, Of, Suffer
<1>2. /\ job[g].of \in Deliveries /\ posts \in [Deliveries -> Nat]
      /\ accepted \subseteq Deliveries /\ troubled \subseteq Deliveries
  BY Facts, TypeParts DEF IInv
<1>3. Is(g, Ended(g))
  BY EndedType DEF Is, InsertFails
<1>4. QED
  BY <1>1, <1>2, <1>3, EndedType, MoveStep DEF PostsObey

LEMMA InsertStep ==
  ASSUME IInv, NEW g \in Goroutines, InsertOutbox(g)
  PROVE  IInv'
<1> DEFINE d == job[g].of
           x == NextRow(g)
           r == Ended(g)
<1>1. /\ job[g] \in JobRec /\ d \in Deliveries /\ job[g].row \in Rows /\ job[g].at = "insert"
      /\ delivery[d].status # "NONE"
      /\ g \in Workers => outbox[d][job[g].row] = "processing"
  BY Facts DEF InsertOutbox, At
<1>2. UNCHANGED <<delivery, posts, accepted, faults, troubled>>
  BY DEF InsertOutbox
<1>3. r \in JobRec /\ r.of = d /\ r.row = job[g].row /\ r.at = "finish"
  BY EndedType
<1>4. Is(g, r)
  BY <1>3, EndedType DEF Is, InsertOutbox
<1> HIDE DEF r
<1>5. /\ outbox' \in Table
      /\ \A e \in Deliveries, y \in Rows : outbox[e][y] # "NONE" => outbox'[e][y] = outbox[e][y]
      /\ \A e \in Deliveries : e # d => outbox'[e] = outbox[e]
  <2>1. CASE outbox[d][x] = "NONE" /\ SetRow(d, x, "pending")
    BY <1>1, <2>1, SetRowIs DEF IInv, RowStatus
  <2>2. CASE UNCHANGED outbox
    BY <2>2, TypeParts DEF IInv
  <2>3. QED
    BY <2>1, <2>2 DEF InsertOutbox, Of
<1>6. TypeOK'
  BY <1>2, <1>3, <1>4, <1>5, TypeParts DEF IInv, Is, JobRows, JobRec
<1>7. RowsObey(g, r) /\ RowIsMine(g, r) /\ PostsObey(g, r)
  BY <1>1, <1>2, <1>3, <1>5 DEF RowsObey, RowIsMine, Owns, PostsObey, Taken
<1>8. RootsObey(r) /\ TruthObeys(r)
  BY <1>1, <1>2, <1>3, <1>5 DEF RootsObey, TruthObeys
<1>9. QED
  BY <1>4, <1>6, <1>7, <1>8, GoodStep

LEMMA RestStep ==
  ASSUME IInv, NEW g \in Goroutines, Rest(g), TypeOK', RowsObey(g, Resting),
         UNCHANGED <<delivery, posts, accepted>>,
         \A d \in Deliveries : delivery[d].status = "NONE" => outbox'[d] = outbox[d]
  PROVE  IInv'
<1>1. Is(g, Resting) /\ Resting.at = "idle"
  BY RestingType DEF Rest, Is
<1>2. RowIsMine(g, Resting) /\ RootsObey(Resting) /\ TruthObeys(Resting) /\ PostsObey(g, Resting)
  BY <1>1 DEF RowIsMine, RootsObey, TruthObeys, PostsObey
<1>3. QED
  BY <1>1, <1>2, GoodStep

(* A worker gives its row back. *)
LEMMA GiveBack ==
  ASSUME IInv, NEW w \in Workers, w \in Goroutines, job[w].at # "idle", Rest(w),
         NEW s \in RowStatus, SetRow(job[w].of, job[w].row, s), s = "completed" \/ job[w].at = "read",
         UNCHANGED <<delivery, posts, accepted>>, faults' \in 0 .. MaxFaults,
         troubled' \subseteq Deliveries
  PROVE  IInv'
<1>1. job[w].of \in Deliveries /\ job[w].row \in Rows /\ delivery[job[w].of].status # "NONE"
  BY Facts
<1>2. /\ outbox' \in Table /\ outbox'[job[w].of][job[w].row] = s
      /\ \A e \in Deliveries, y \in Rows :
           e # job[w].of \/ y # job[w].row => outbox'[e][y] = outbox[e][y]
      /\ \A e \in Deliveries : e # job[w].of => outbox'[e] = outbox[e]
  BY <1>1, SetRowIs DEF IInv
<1>3. Resting \in JobRec /\ Resting.at = "idle"
  BY RestingType
<1>4. TypeOK'
  BY <1>2, <1>3, TypeParts DEF IInv, Rest, JobRows, JobRec
<1>5. RowsObey(w, Resting)
  BY <1>2, <1>3 DEF RowsObey, Owns
<1>6. QED
  BY <1>1, <1>2, <1>4, <1>5, RestStep

(* A goroutine stops, and the outbox is left as it is. *)
LEMMA StopStep ==
  ASSUME IInv, NEW g \in Goroutines, Rest(g), troubled' \subseteq Deliveries,
         UNCHANGED <<delivery, outbox, posts, accepted, faults>>
  PROVE  IInv'
<1>1. TypeOK'
  BY RestingType, TypeParts DEF IInv, Rest, JobRows, JobRec
<1>2. RowsObey(g, Resting)
  BY DEF RowsObey
<1>3. QED
  BY <1>1, <1>2, RestStep

LEMMA ReadFailsStep ==
  ASSUME IInv, NEW w \in Workers, ReadFails(w)
  PROVE  IInv'
<1>1. /\ w \in Goroutines /\ job[w].at = "read" /\ faults' \in 0 .. MaxFaults /\ Rest(w)
      /\ UNCHANGED <<delivery, posts, accepted>>
  BY FaultBound DEF Goroutines, ReadFails, At
<1>2. job[w].of \in Deliveries /\ troubled \subseteq Deliveries
  BY <1>1, Facts, TypeParts DEF IInv
<1>3. PICK s \in {"failed", "dead"} :
        SetRow(job[w].of, job[w].row, s) /\ troubled' \in {troubled, troubled \cup {job[w].of}}
  BY DEF ReadFails, Suffer, Of
<1>4. s \in RowStatus /\ troubled' \subseteq Deliveries
  BY <1>2, <1>3 DEF RowStatus
<1>5. QED
  BY <1>1, <1>3, <1>4, GiveBack

LEMMA FinishStep ==
  ASSUME IInv, NEW g \in Goroutines, Finish(g)
  PROVE  IInv'
<1>1. CASE g \in Workers
  BY <1>1, GiveBack DEF Finish, Of, At, RowStatus, IInv, TypeOK
<1>2. CASE g \notin Workers
  BY <1>2, StopStep DEF Finish, IInv, TypeOK
<1>3. QED
  BY <1>1, <1>2

LEMMA DieStep ==
  ASSUME IInv, NEW g \in Goroutines, Die(g)
  PROVE  IInv'
BY Facts, StopStep DEF Die, Of, Suffer, IInv, TypeOK

LEMMA AdminRetryStep ==
  ASSUME IInv, NEW a \in Admins, NEW d \in Deliveries, AdminRetry(a, d)
  PROVE  IInv'
<1>1. a \in Goroutines /\ a \notin Workers /\ delivery[d] \in Deliv
  BY WebhookAssumption, TypeParts DEF Goroutines, IInv
<1>2. PICK n \in Waves :
        job' = [job EXCEPT ![a] = [at |-> "save", of |-> d, row |-> Wave(n), seen |-> delivery[d],
                                   result |-> [delivery[d] EXCEPT !.status = "QUEUED"]]]
  BY DEF AdminRetry
<1> DEFINE r == [at |-> "save", of |-> d, row |-> Wave(n), seen |-> delivery[d],
                 result |-> [delivery[d] EXCEPT !.status = "QUEUED"]]
<1>3. Wave(n) \in Rows
  BY DEF Wave, Rows
<1>4. /\ r \in JobRec /\ r.at = "save" /\ r.of = d /\ r.result.status = "QUEUED"
  BY <1>1, <1>3 DEF JobRec, Step, Deliv, Status
<1>5. /\ job' = [job EXCEPT ![a] = r] /\ UNCHANGED <<delivery, outbox, posts, accepted, faults, troubled>>
      /\ delivery[d].status # "NONE"
  BY <1>2 DEF AdminRetry
<1> HIDE DEF r
<1>6. TypeOK'
  BY <1>4, <1>5, TypeParts DEF IInv, JobRows, JobRec
<1>7. RowsObey(a, r) /\ RowIsMine(a, r) /\ RootsObey(r) /\ TruthObeys(r) /\ PostsObey(a, r)
  BY <1>1, <1>4, <1>5 DEF RowsObey, RowIsMine, RootsObey, TruthObeys, PostsObey
<1>8. QED
  BY <1>1, <1>4, <1>5, <1>6, <1>7, GoodStep DEF Is

LEMMA EnqueueStep ==
  ASSUME IInv, NEW d \in Deliveries, Enqueue(d)
  PROVE  IInv'
<1>1. /\ delivery[d].status = "NONE" /\ UNCHANGED <<posts, accepted, job, faults, troubled>>
      /\ delivery' = [delivery EXCEPT ![d] = [status |-> "QUEUED", count |-> 0]]
      /\ delivery \in [Deliveries -> Deliv]
  BY TypeParts DEF Enqueue, IInv
<1>2. Attempt(0) \in Rows
  BY WebhookAssumption DEF Attempt, Rows, Attempts
<1>3. /\ outbox' \in Table /\ outbox'[d][Attempt(0)] = "pending"
      /\ \A e \in Deliveries, y \in Rows : e # d \/ y # Attempt(0) => outbox'[e][y] = outbox[e][y]
      /\ \A e \in Deliveries : e # d => outbox'[e] = outbox[e]
  BY <1>2, SetRowIs DEF Enqueue, IInv, RowStatus
<1>4. outbox[d][Attempt(0)] = "NONE" /\ \A g \in Goroutines : job[g].at # "idle" => job[g].of # d
  BY <1>1, <1>2 DEF IInv, Rooted
<1>5. [status |-> "QUEUED", count |-> 0] \in Deliv
  BY DEF Deliv, Status
<1>6. TypeOK'
  BY <1>1, <1>3, <1>5, TypeParts DEF IInv
<1>7. \A e \in Deliveries, y \in Rows :
        outbox[e][y] # "NONE" => outbox'[e][y] = outbox[e][y]
  BY <1>3, <1>4
<1>8. \A e \in Deliveries : delivery'[e].status = "NONE" => e # d /\ delivery[e].status = "NONE"
  BY <1>1
<1>9. Rooted'
  BY <1>1, <1>3, <1>8 DEF IInv, Rooted
<1>10. Owned'
  <2>1. \A w \in Workers : job[w].of \in Deliveries /\ job[w].row \in Rows
    BY Facts DEF Goroutines
  <2>2. QED
    BY <1>1, <1>7, <2>1 DEF IInv, Owned
<1>11. Counted'
  <2>1. \A e \in Deliveries : Burnt(e) \subseteq Burnt(e)'
    BY <1>1, <1>7 DEF Burnt, Unmade
  <2>2. QED
    BY <1>1, <2>1, CountStays DEF IInv
<1>12. Truthful'
  BY <1>1 DEF IInv, Truthful
<1>13. DeliveredWasAccepted'
  BY <1>1 DEF IInv, DeliveredWasAccepted
<1>14. QED
  BY <1>6, <1>9, <1>10, <1>11, <1>12, <1>13 DEF IInv

----------------------------------------------------------------------------
(* The invariant.                                                          *)

LEMMA InitHolds == Init => IInv
<1> SUFFICES ASSUME Init PROVE IInv
  OBVIOUS
<1>1. /\ delivery = [d \in Deliveries |-> NoDeliv] /\ job = [g \in Goroutines |-> Resting]
      /\ outbox = [d \in Deliveries |-> [x \in Rows |-> "NONE"]] /\ posts = [d \in Deliveries |-> 0]
      /\ accepted = {} /\ faults = 0 /\ troubled = {}
  BY DEF Init
<1>2. NoDeliv \in Deliv /\ NoDeliv.status = "NONE" /\ Resting \in JobRec /\ Resting.at = "idle"
  BY RestingType DEF NoDeliv, Deliv, Status
<1>3. TypeOK
  <2>1. faults \in 0 .. MaxFaults
    BY <1>1, WebhookAssumption
  <2>2. outbox \in Table
    BY <1>1 DEF Table, RowStatus
  <2>3. QED
    BY <1>1, <1>2, <2>1, <2>2, TypeParts DEF JobRows, JobRec
<1>4. Rooted /\ Owned /\ Truthful /\ DeliveredWasAccepted
  BY <1>1, <1>2 DEF Rooted, Owned, Truthful, DeliveredWasAccepted, Goroutines
<1>5. Counted
  <2>1. SUFFICES ASSUME NEW d \in Deliveries PROVE posts[d] <= Cardinality(Burnt(d))
    BY DEF Counted
  <2>2. Cardinality(Burnt(d)) \in Nat
    BY BurntFinite, FS_CardinalityType
  <2>3. QED
    BY <1>1, <2>2
<1>6. QED
  BY <1>3, <1>4, <1>5 DEF IInv

LEMMA IInvStep == IInv /\ [Next]_vars => IInv'
<1> SUFFICES ASSUME IInv, [Next]_vars PROVE IInv'
  OBVIOUS
<1>1. ASSUME NEW g \in Goroutines, Proceed(g) PROVE IInv'
  BY <1>1, ReadStep, PostStep, SaveStep, InsertStep, FinishStep DEF Proceed
<1>2. CASE UNCHANGED vars
  <2>1. \A d \in Deliveries : Burnt(d)' = Burnt(d)
    BY <1>2 DEF vars, Burnt, Unmade
  <2>2. Counted'
    BY <1>2, <2>1 DEF vars, IInv, Counted
  <2>3. TypeOK' /\ Rooted' /\ Owned' /\ Truthful' /\ DeliveredWasAccepted'
    BY <1>2 DEF vars, IInv, TypeOK, Rooted, Owned, Truthful, DeliveredWasAccepted
  <2>4. QED
    BY <2>2, <2>3 DEF IInv
<1>3. QED
  BY <1>1, <1>2, EnqueueStep, ClaimStep, ReadFailsStep, SaveFailsStep, AdminRetryStep,
     InsertFailsStep, DieStep DEF Next, ClaimAny

THEOREM Invariance == Spec => []IInv
BY InitHolds, IInvStep, PTL DEF Spec

(* Every column keeps to its type, whatever the interleaving of webhook    *)
(* workers, administrators and deaths.                                     *)
THEOREM TypeCorrect == Spec => []TypeOK
<1>1. IInv => TypeOK
  BY DEF IInv
<1>2. QED
  BY <1>1, Invariance, PTL

(* UpdateDelivery: DELIVERED is never written of an event the endpoint has *)
(* not answered with a 2xx.                                                *)
THEOREM DeliveredIsAccepted == Spec => []DeliveredWasAccepted
<1>1. IInv => DeliveredWasAccepted
  BY DEF IInv
<1>2. QED
  BY <1>1, Invariance, PTL

(* InsertOutbox's dedupe keys: an endpoint is called at most max_attempts  *)
(* times and once for each retry of an administrator.                      *)
THEOREM PostsBounded == Spec => []PostsAreBounded
<1>1. IInv => PostsAreBounded
  <2> SUFFICES ASSUME IInv, NEW d \in Deliveries
               PROVE  posts[d] <= MaxAttempts
                                  + Cardinality({n \in Waves : outbox[d][Wave(n)] # "NONE"})
    BY DEF PostsAreBounded
  <2> DEFINE W == {n \in Waves : outbox[d][Wave(n)] # "NONE"}
  <2>1. IsFiniteSet(W) /\ Cardinality(W) \in Nat
    <3>1. IsFiniteSet(Waves) /\ W \subseteq Waves
      BY WebhookAssumption, FS_Interval DEF Waves
    <3>2. QED
      BY <3>1, FS_Subset, FS_CardinalityType
  <2>2. IsFiniteSet(WaveRows(W)) /\ Cardinality(WaveRows(W)) = Cardinality(W)
    BY <2>1, RecordsCount DEF WaveRows
  <2>3. IsFiniteSet(AttemptRows) /\ Cardinality(AttemptRows) = MaxAttempts
    BY RowsFinite
  <2>4. Burnt(d) \subseteq AttemptRows \cup WaveRows(W)
    <3>1. SUFFICES ASSUME NEW x \in Burnt(d) PROVE x \in AttemptRows \cup WaveRows(W)
      OBVIOUS
    <3>2. x \in Rows /\ outbox[d][x] # "NONE"
      BY DEF Burnt
    <3>3. ASSUME x \notin AttemptRows PROVE x \in WaveRows(W)
      <4>1. x \in [kind : {"WAVE"}, n : Waves]
        BY <3>2, <3>3 DEF Rows, AttemptRows
      <4>2. x = Wave(x.n) /\ x.n \in Waves
        BY <4>1 DEF Wave
      <4>3. x.n \in W
        BY <3>2, <4>2
      <4>4. QED
        BY <4>1, <4>3 DEF WaveRows
    <3>4. QED
      BY <3>3
  <2>5. Cardinality(AttemptRows \cap WaveRows(W)) \in Nat
    BY <2>3, FS_Subset, FS_CardinalityType
  <2>6. /\ IsFiniteSet(AttemptRows \cup WaveRows(W))
        /\ Cardinality(AttemptRows \cup WaveRows(W)) \in Nat
        /\ Cardinality(AttemptRows \cup WaveRows(W)) <= MaxAttempts + Cardinality(W)
    <3> DEFINE U == WaveRows(W)
    <3>1. IsFiniteSet(U) /\ Cardinality(U) = Cardinality(W) /\ Cardinality(AttemptRows \cap U) \in Nat
      BY <2>2, <2>5
    <3> HIDE DEF U, W
    <3>2. /\ IsFiniteSet(AttemptRows \cup U)
          /\ Cardinality(AttemptRows \cup U)
               = Cardinality(AttemptRows) + Cardinality(U) - Cardinality(AttemptRows \cap U)
      BY <2>3, <3>1, FS_Union
    <3>3. Cardinality(AttemptRows \cup U) \in Nat
      BY <3>2, FS_CardinalityType
    <3>4. Cardinality(AttemptRows \cup U) <= MaxAttempts + Cardinality(W)
      BY <2>1, <2>3, <3>1, <3>2, <3>3, WebhookAssumption
    <3>5. QED
      BY <3>2, <3>3, <3>4 DEF U
  <2>7. Cardinality(Burnt(d)) \in Nat /\ Cardinality(Burnt(d)) <= MaxAttempts + Cardinality(W)
    <3>1. Cardinality(Burnt(d)) <= Cardinality(AttemptRows \cup WaveRows(W)) /\ IsFiniteSet(Burnt(d))
      BY <2>4, <2>6, FS_Subset
    <3>2. Cardinality(Burnt(d)) \in Nat
      BY <3>1, FS_CardinalityType
    <3> HIDE DEF W
    <3>3. QED
      BY <2>1, <2>6, <3>1, <3>2, WebhookAssumption
  <2>8. posts[d] \in Nat /\ posts[d] <= Cardinality(Burnt(d))
    BY DEF IInv, Counted, TypeOK
  <2> HIDE DEF W
  <2>9. posts[d] <= MaxAttempts + Cardinality(W)
    BY <2>1, <2>7, <2>8, WebhookAssumption
  <2>10. QED
    BY <2>9 DEF W
<1>2. QED
  BY <1>1, Invariance, PTL

----------------------------------------------------------------------------
(* A delivery that is to be tried again has somebody who will.             *)

Writing == {"save", "insert"}

(* No attempt is asked for before its number is reached. *)
RowsKeepUp ==
  \A d \in Deliveries \ troubled : \A n \in Attempts :
    n > delivery[d].count => outbox[d][Attempt(n)] = "NONE"

(* A worker that will try again counts one up, an administrator none.      *)
SaveIsNext(g, r) ==
  /\ g \in Workers => /\ r.result.count >= r.seen.count
                      /\ r.result.status \in Open =>
                           r.result.count = r.seen.count + 1 /\ r.result.count < MaxAttempts
  /\ g \in Admins  => r.result.count = r.seen.count

SavesAreNext == \A g \in Goroutines : At(g, "save") => SaveIsNext(g, job[g])

(* A worker that has counted up finds its key free: nobody else counted    *)
(* to the same number.                                                     *)
InsertIsNew(w) ==
  /\ job[w].result.count \in Attempts
  /\ job[w].result.count <= delivery[Of(w)].count
  /\ outbox[Of(w)][Attempt(job[w].result.count)] = "NONE"
  /\ \A x \in Workers \ {w} :
       At(x, "insert") /\ Of(x) = Of(w) => job[x].result.count # job[w].result.count

InsertsAreNew == \A w \in Workers : At(w, "insert") /\ Of(w) \notin troubled => InsertIsNew(w)

(* So does an administrator.                                               *)
WaveIsNew(a, r) ==
  /\ r.row.kind = "WAVE"
  /\ outbox[r.of][r.row] = "NONE"
  /\ \A b \in Admins \ {a} : job[b].at \in Writing /\ job[b].of = r.of => job[b].row # r.row

WavesAreNew == \A a \in Admins : job[a].at \in Writing => WaveIsNew(a, job[a])

Worked == RowsKeepUp /\ SavesAreNext /\ InsertsAreNew /\ WavesAreNew /\ OpenHasWork

LEMMA KindsDiffer ==
  ASSUME NEW m, NEW n
  PROVE  /\ Attempt(n).kind = "ATTEMPT" /\ Attempt(n).n = n
         /\ Attempt(n) # Wave(m)
         /\ Attempt(n) = Attempt(m) => n = m
         /\ n \in Attempts => Attempt(n) \in Rows
BY DEF Attempt, Wave, Rows

(* A step of g to the record r that writes no delivery.                    *)
OnlyInserts(g) ==
  \A d \in Deliveries, x \in Rows :
    outbox[d][x] = "NONE" /\ outbox'[d][x] # "NONE" =>
      job[g].at = "insert" /\ d = job[g].of /\ x = NextRow(g)

WorkStays ==
  \A d \in Deliveries \ troubled' : delivery[d].status \in Open /\ Pending(d) => Pending(d)'

LEMMA FreeStaysFree ==
  ASSUME IInv, Worked, NEW g \in Goroutines, OnlyInserts(g),
         NEW d \in Deliveries, NEW x \in Rows, outbox[d][x] = "NONE",
         job[g].at = "insert" /\ d = job[g].of => x # NextRow(g)
  PROVE  outbox'[d][x] = "NONE"
BY DEF OnlyInserts

LEMMA WorkedStep ==
  ASSUME IInv, Worked, TypeOK', NEW g \in Goroutines, NEW r, Is(g, r),
         r.at = "insert" => g \in Workers /\ r.of \in troubled',
         UNCHANGED delivery, troubled \subseteq troubled', OnlyInserts(g), WorkStays,
         r.at = "save" => /\ SaveIsNext(g, r)
                          /\ g \in Admins => WaveIsNew(g, r) /\ outbox'[r.of][r.row] = "NONE"
  PROVE  Worked'
<1>1. job'[g] = r /\ (\A h \in Goroutines \ {g} : job'[h] = job[h]) /\ g \in Workers \cup Admins
      /\ Workers \subseteq Goroutines /\ Admins \subseteq Goroutines /\ Workers \cap Admins = {}
  BY Others, WebhookAssumption DEF IInv, Goroutines
<1>2. \A h \in Goroutines : job[h].of \in Deliveries /\ job[h].row \in Rows
  BY Facts
<1>3. \A w \in Workers : job[w].at = "insert" /\ job[w].of \notin troubled => InsertIsNew(w)
  BY DEF Worked, InsertsAreNew, At, Of
<1>4. \A a \in Admins : job[a].at \in Writing => WaveIsNew(a, job[a])
  BY DEF Worked, WavesAreNew
<1>5. NextRow(g) = IF g \in Workers THEN Attempt(job[g].result.count) ELSE job[g].row
  BY DEF NextRow
<1>6. RowsKeepUp'
  <2>1. SUFFICES ASSUME NEW d \in Deliveries \ troubled', NEW n \in Attempts, n > delivery'[d].count
                 PROVE  outbox'[d][Attempt(n)] = "NONE"
    BY DEF RowsKeepUp
  <2>2. /\ d \notin troubled /\ outbox[d][Attempt(n)] = "NONE"
        /\ Attempt(n) \in Rows /\ n > delivery[d].count
        /\ delivery[d].count \in Nat /\ n \in Int
    <3>1. d \in Deliveries \ troubled /\ n > delivery[d].count
      BY <2>1
    <3>2. outbox[d][Attempt(n)] = "NONE"
      BY <3>1 DEF Worked, RowsKeepUp
    <3>3. delivery[d] \in Deliv /\ n \in Int
      BY <3>1, WebhookAssumption DEF IInv, TypeOK, Attempts
    <3>4. QED
      BY <3>1, <3>2, <3>3, KindsDiffer DEF Deliv
  <2>3. ASSUME job[g].at = "insert", d = job[g].of PROVE Attempt(n) # NextRow(g)
    <3>1. CASE g \in Workers
      <4>1. job[g].result.count \in Attempts /\ job[g].result.count <= delivery[d].count
        BY <1>3, <2>2, <2>3, <3>1 DEF InsertIsNew, Of
      <4>2. job[g].result.count # n
        BY <2>2, <4>1 DEF Attempts
      <4>3. QED
        BY <1>5, <3>1, <4>2, KindsDiffer
    <3>2. CASE g \in Admins
      <4>1. NextRow(g).kind = "WAVE"
        BY <1>1, <1>4, <1>5, <2>3, <3>2 DEF WaveIsNew, Writing
      <4>2. QED
        BY <4>1, KindsDiffer
    <3>3. QED
      BY <1>1, <3>1, <3>2
  <2>4. QED
    BY <2>2, <2>3, FreeStaysFree
<1>7. SavesAreNext'
  <2>1. SUFFICES ASSUME NEW h \in Goroutines, job'[h].at = "save" PROVE SaveIsNext(h, job'[h])
    BY DEF SavesAreNext, At, SaveIsNext
  <2>2. CASE h = g
    BY <1>1, <2>1, <2>2
  <2>3. CASE h # g
    BY <1>1, <2>1, <2>3 DEF Worked, SavesAreNext, At
  <2>4. QED
    BY <2>2, <2>3
<1>8. InsertsAreNew'
  <2>1. SUFFICES ASSUME NEW w \in Workers, job'[w].at = "insert", job'[w].of \notin troubled'
                 PROVE  InsertIsNew(w)'
    BY DEF InsertsAreNew, At, Of
  <2>2. w # g /\ job'[w] = job[w] /\ job[w].of \notin troubled
    BY <1>1, <2>1
  <2>3. InsertIsNew(w)
    BY <1>3, <2>1, <2>2
  <2> DEFINE k == job[w].result.count
  <2>4. k \in Attempts /\ outbox[job[w].of][Attempt(k)] = "NONE" /\ Attempt(k) \in Rows
    BY <2>3, KindsDiffer DEF InsertIsNew, Of
  <2>5. ASSUME job[g].at = "insert", job[w].of = job[g].of PROVE Attempt(k) # NextRow(g)
    <3>1. CASE g \in Workers
      <4>1. job[g].result.count # k
        BY <2>2, <2>3, <2>5, <3>1 DEF InsertIsNew, At, Of
      <4>2. QED
        BY <1>5, <3>1, <4>1, KindsDiffer
    <3>2. CASE g \in Admins
      <4>1. NextRow(g).kind = "WAVE"
        BY <1>1, <1>4, <1>5, <2>5, <3>2 DEF WaveIsNew, Writing
      <4>2. QED
        BY <4>1, KindsDiffer
    <3>3. QED
      BY <1>1, <3>1, <3>2
  <2>6. outbox'[job[w].of][Attempt(k)] = "NONE"
    BY <1>1, <1>2, <2>4, <2>5, FreeStaysFree
  <2>7. \A x \in Workers \ {w} :
          job'[x].at = "insert" /\ job'[x].of = job[w].of => job'[x].result.count # k
    BY <1>1, <2>1, <2>2, <2>3 DEF InsertIsNew, At, Of
  <2>8. QED
    BY <2>2, <2>3, <2>6, <2>7 DEF InsertIsNew, At, Of
<1>9. WavesAreNew'
  <2>1. SUFFICES ASSUME NEW a \in Admins, job'[a].at \in Writing PROVE WaveIsNew(a, job[a])'
    BY DEF WavesAreNew, Writing
  <2>2. CASE a = g
    <3>1. job'[a] = r /\ WaveIsNew(a, r) /\ outbox'[r.of][r.row] = "NONE"
      BY <1>1, <2>1, <2>2 DEF Writing
    <3>2. \A b \in Admins \ {a} : job'[b] = job[b]
      BY <1>1, <2>2
    <3>3. QED
      BY <3>1, <3>2 DEF WaveIsNew, Writing
  <2>3. CASE a # g
    <3>1. job'[a] = job[a] /\ WaveIsNew(a, job[a]) /\ job[a].of \in Deliveries /\ job[a].row \in Rows
      BY <1>1, <1>2, <1>4, <2>1, <2>3
    <3>2. ASSUME job[g].at = "insert", job[a].of = job[g].of PROVE job[a].row # NextRow(g)
      <4>1. CASE g \in Workers
        BY <1>5, <3>1, <4>1, KindsDiffer DEF WaveIsNew
      <4>2. CASE g \in Admins
        BY <1>1, <1>5, <2>3, <3>1, <3>2, <4>2 DEF WaveIsNew, Writing
      <4>3. QED
        BY <1>1, <4>1, <4>2
    <3>3. outbox'[job[a].of][job[a].row] = "NONE"
      BY <3>1, <3>2, FreeStaysFree DEF WaveIsNew
    <3>4. ASSUME NEW b \in Admins \ {a}, job'[b].at \in Writing, job'[b].of = job[a].of
          PROVE  job'[b].row # job[a].row
      <4>1. CASE b = g
        <5>1. job'[b] = r /\ WaveIsNew(g, r) /\ r.at \in Writing
          BY <1>1, <3>4, <4>1 DEF Writing
        <5>2. job[a].at \in Writing /\ job[a].of = r.of
          BY <2>1, <3>1, <3>4, <5>1
        <5>3. job[a].row # r.row
          BY <2>3, <5>1, <5>2 DEF WaveIsNew
        <5>4. QED
          BY <5>1, <5>3
      <4>2. CASE b # g
        <5>1. job'[b] = job[b]
          BY <1>1, <4>2
        <5>2. QED
          BY <3>1, <3>4, <5>1 DEF WaveIsNew
      <4>3. QED
        BY <4>1, <4>2
    <3>5. QED
      BY <3>1, <3>3, <3>4 DEF WaveIsNew, Writing
  <2>4. QED
    BY <2>2, <2>3
<1>10. OpenHasWork'
  <2>1. SUFFICES ASSUME NEW d \in Deliveries, delivery'[d].status \in Open, d \notin troubled'
                 PROVE  Pending(d)'
    BY DEF OpenHasWork, Open
  <2>2. delivery[d].status \in Open /\ d \notin troubled
    BY <2>1
  <2>3. Pending(d)
    BY <2>2 DEF Worked, OpenHasWork
  <2>4. QED
    BY <2>1, <2>2, <2>3 DEF WorkStays
<1>11. QED
  BY <1>6, <1>7, <1>8, <1>9, <1>10 DEF Worked

(* A row or a goroutine that stays keeps a delivery pending. *)
LEMMA PendingBy ==
  ASSUME NEW d \in Deliveries
  PROVE  /\ \A x \in Rows : outbox'[d][x] \in {"pending", "failed"} => Pending(d)'
         /\ \A g \in Goroutines :
              job'[g].of = d /\ job'[g].at \in Step \ {"idle", "finish"} => Pending(d)'
BY DEF Pending, Of

(* Work goes on when a row stops waiting only in the hands of goroutine g, *)
(* and g leaves a row behind or has nothing left to do.                    *)
LEMMA WorkStaysBut ==
  ASSUME TypeOK, NEW g \in Goroutines, NEW r, Is(g, r),
         \A d \in Deliveries, x \in Rows : outbox[d][x] \in {"pending", "failed"} =>
            \/ outbox'[d][x] \in {"pending", "failed"}
            \/ r.of = d /\ r.at \in Step \ {"idle", "finish"},
         job[g].at \in Step \ {"idle", "finish"} =>
            \/ job[g].of \in troubled'
            \/ delivery[job[g].of].status \notin Open
            \/ r.of = job[g].of /\ r.at \in Step \ {"idle", "finish"}
            \/ \E x \in Rows : outbox'[job[g].of][x] \in {"pending", "failed"}
  PROVE  WorkStays
<1>1. job'[g] = r /\ \A h \in Goroutines \ {g} : job'[h] = job[h]
  BY Others
<1>2. SUFFICES ASSUME NEW d \in Deliveries \ troubled', delivery[d].status \in Open, Pending(d)
               PROVE  Pending(d)'
  BY DEF WorkStays
<1>3. ASSUME NEW x \in Rows, outbox[d][x] \in {"pending", "failed"} PROVE Pending(d)'
  BY <1>1, <1>3, PendingBy
<1>4. ASSUME NEW h \in Goroutines, job[h].of = d, job[h].at \in Step \ {"idle", "finish"} PROVE Pending(d)'
  <2>1. CASE h = g
    BY <1>1, <1>2, <1>4, <2>1, PendingBy
  <2>2. CASE h # g
    BY <1>1, <1>4, <2>2, PendingBy
  <2>3. QED
    BY <2>1, <2>2
<1>5. QED
  BY <1>2, <1>3, <1>4 DEF Pending, Of

LEMMA ClaimWorked ==
  ASSUME IInv, TypeOK', Worked, NEW w \in Workers, NEW d \in Deliveries, NEW x \in Rows, Claim(w, d, x)
  PROVE  Worked'
<1> DEFINE r == [Resting EXCEPT !.at = "read", !.of = d, !.row = x]
<1>1. TypeOK /\ w \in Goroutines /\ job[w].at = "idle"
  BY Facts DEF IInv, Goroutines, Claim, At
<1>2. r \in JobRec /\ r.at = "read" /\ r.of = d
  BY RestingType DEF JobRec, Step
<1>3. Is(w, r)
  BY <1>2 DEF Claim, Is
<1>4. /\ outbox[d][x] \in {"pending", "failed"}
      /\ \A e \in Deliveries, y \in Rows : e # d \/ y # x => outbox'[e][y] = outbox[e][y]
  BY <1>1, SetRowIs DEF Claim, RowStatus
<1>5. UNCHANGED <<delivery, troubled>>
  BY DEF Claim
<1> HIDE DEF r
<1>6. OnlyInserts(w)
  BY <1>4 DEF OnlyInserts
<1>7. WorkStays
  BY <1>1, <1>2, <1>3, <1>4, WorkStaysBut DEF Step
<1>8. QED
  BY <1>1, <1>2, <1>3, <1>5, <1>6, <1>7, WorkedStep

LEMMA ReadWorked ==
  ASSUME IInv, TypeOK', Worked, NEW w \in Goroutines, Read(w)
  PROVE  Worked'
<1> DEFINE r == IF delivery[Of(w)].status = "DELIVERED" THEN Ended(w)
                ELSE [job[w] EXCEPT !.at = "post", !.seen = delivery[Of(w)]]
<1>1. job[w] \in JobRec /\ delivery[Of(w)] \in Deliv /\ job[w].at = "read" /\ TypeOK
  BY Facts, TypeParts DEF IInv, Of, Read, At
<1>2. /\ r \in JobRec /\ r.of = job[w].of /\ r.at \in {"finish", "post"}
      /\ r.at = "post" \/ delivery[job[w].of].status = "DELIVERED"
  BY <1>1, EndedType DEF JobRec, Step, Of
<1>3. job' = [job EXCEPT ![w] = r] /\ UNCHANGED <<delivery, outbox, troubled>>
  BY <1>1, EndedType, TypeParts DEF IInv, Read, JobRows, JobRec
<1> HIDE DEF r
<1>4. Is(w, r) /\ OnlyInserts(w)
  BY <1>2, <1>3 DEF Is, OnlyInserts
<1>5. WorkStays
  BY <1>1, <1>2, <1>3, <1>4, WorkStaysBut DEF Step, Open
<1>6. QED
  BY <1>1, <1>2, <1>3, <1>4, <1>5, WorkedStep

LEMMA ResultCounts ==
  ASSUME NEW seen \in Deliv
  PROVE  /\ Again(seen).count = seen.count + 1 /\ Sent(seen).count = seen.count + 1
         /\ Dead(seen).count = seen.count
         /\ Again(seen).status \in Open => seen.count + 1 < MaxAttempts
         /\ Dead(seen).status \notin Open /\ Sent(seen).status \notin Open
BY WebhookAssumption DEF Again, Dead, Sent, Deliv, Open

LEMMA PostWorked ==
  ASSUME IInv, TypeOK', Worked, NEW w \in Goroutines, Post(w)
  PROVE  Worked'
<1> DEFINE seen == job[w].seen
<1>1. /\ job[w] \in JobRec /\ seen \in Deliv /\ job[w].at = "post" /\ w \in Workers
      /\ TypeOK /\ UNCHANGED <<delivery, outbox, troubled>> /\ w \notin Admins
  BY Facts, WebhookAssumption DEF IInv, Post, At
<1>2. PICK res \in {Again(seen), Dead(seen), Sent(seen)} :
        job' = [job EXCEPT ![w].at = "save", ![w].result = res]
  BY DEF Post
<1> DEFINE r == [job[w] EXCEPT !.at = "save", !.result = res]
<1>3. res \in Deliv
  BY <1>1, <1>2, Results
<1>4. r \in JobRec /\ r.of = job[w].of /\ r.at = "save" /\ r.result = res /\ r.seen = seen
  BY <1>1, <1>3 DEF JobRec, Step
<1>5. Is(w, r)
  BY <1>1, <1>2, <1>4, TypeParts DEF Is, JobRows, JobRec
<1>6. SaveIsNext(w, r)
  <2>1. seen.count \in Nat
    BY <1>1 DEF Deliv
  <2>2. res.count >= seen.count
        /\ (res.status \in Open => res.count = seen.count + 1 /\ res.count < MaxAttempts)
    BY <1>1, <1>2, <2>1, ResultCounts
  <2>3. QED
    BY <1>1, <1>4, <2>2 DEF SaveIsNext
<1> HIDE DEF r
<1>7. OnlyInserts(w)
  BY <1>1 DEF OnlyInserts
<1>8. WorkStays
  BY <1>1, <1>4, <1>5, WorkStaysBut DEF Step
<1>9. QED
  BY <1>1, <1>4, <1>5, <1>6, <1>7, <1>8, WorkedStep

LEMMA InsertWorked ==
  ASSUME IInv, TypeOK', Worked, NEW g \in Goroutines, InsertOutbox(g)
  PROVE  Worked'
<1> DEFINE d == job[g].of
           x == NextRow(g)
           r == Ended(g)
<1>1. /\ job[g] \in JobRec /\ d \in Deliveries /\ job[g].row \in Rows /\ job[g].at = "insert"
      /\ TypeOK /\ UNCHANGED <<delivery, troubled>> /\ g \in Workers \cup Admins
  BY Facts DEF InsertOutbox, At, IInv, Goroutines
<1>2. Is(g, r) /\ r.at = "finish"
  BY EndedType DEF Is, InsertOutbox
<1> HIDE DEF r
<1>3. \/ outbox[d][x] = "NONE" /\ SetRow(d, x, "pending")
      \/ outbox[d][x] # "NONE" /\ UNCHANGED outbox
  BY DEF InsertOutbox, Of
<1>4. \A e \in Deliveries, y \in Rows : e # d \/ y # x => outbox'[e][y] = outbox[e][y]
  BY <1>1, <1>3, SetRowIs DEF RowStatus
<1>5. OnlyInserts(g)
  BY <1>1, <1>4 DEF OnlyInserts
<1>6. d \in troubled \/ (x \in Rows /\ outbox[d][x] = "NONE")
  <2>1. CASE g \in Workers
    BY <1>1, <2>1, KindsDiffer DEF Worked, InsertsAreNew, InsertIsNew, NextRow, At, Of
  <2>2. CASE g \in Admins
    BY <1>1, <2>2, WebhookAssumption DEF Worked, WavesAreNew, WaveIsNew, NextRow, Writing
  <2>3. QED
    BY <1>1, <2>1, <2>2
<1>7. d \in troubled' \/ (x \in Rows /\ outbox'[d][x] = "pending")
  BY <1>1, <1>3, <1>6, SetRowIs DEF RowStatus
<1>8. WorkStays
  <2>1. \A e \in Deliveries, y \in Rows :
          outbox[e][y] \in {"pending", "failed"} => outbox'[e][y] \in {"pending", "failed"}
    <3>1. outbox[d][x] # "NONE" => UNCHANGED outbox
      BY <1>3
    <3>2. QED
      BY <1>4, <3>1
  <2>2. QED
    BY <1>1, <1>2, <1>7, <2>1, WorkStaysBut
<1>9. QED
  BY <1>1, <1>2, <1>5, <1>8, WorkedStep

(* A goroutine rests, and no row that waits or is unused changes.          *)
LEMMA RestWorked ==
  ASSUME IInv, TypeOK', Worked, NEW g \in Goroutines, Rest(g), UNCHANGED delivery,
         troubled \subseteq troubled',
         \A d \in Deliveries, x \in Rows : outbox[d][x] # "processing" => outbox'[d][x] = outbox[d][x],
         \/ job[g].at \notin Step \ {"idle", "finish"}
         \/ job[g].of \in troubled'
         \/ \E x \in Rows : outbox'[job[g].of][x] \in {"pending", "failed"}
  PROVE  Worked'
<1>1. Is(g, Resting) /\ Resting.at = "idle"
  BY RestingType DEF Rest, Is
<1>2. OnlyInserts(g)
  BY DEF OnlyInserts
<1>3. WorkStays
  BY <1>1, WorkStaysBut DEF IInv
<1>4. QED
  BY <1>1, <1>2, <1>3, WorkedStep

LEMMA ReadFailsWorked ==
  ASSUME IInv, TypeOK', Worked, NEW w \in Workers, ReadFails(w)
  PROVE  Worked'
<1>1. /\ w \in Goroutines /\ job[w].at = "read" /\ Rest(w) /\ UNCHANGED delivery
      /\ \/ SetRow(job[w].of, job[w].row, "failed") /\ troubled' = troubled
         \/ SetRow(job[w].of, job[w].row, "dead") /\ troubled' = troubled \cup {job[w].of}
  BY DEF Goroutines, ReadFails, At, Of, Suffer
<1>2. /\ TypeOK /\ job[w].of \in Deliveries /\ job[w].row \in Rows
      /\ outbox[job[w].of][job[w].row] = "processing"
  BY <1>1, Facts DEF IInv
<1>3. /\ outbox'[job[w].of][job[w].row] = "failed" \/ job[w].of \in troubled'
      /\ \A d \in Deliveries, x \in Rows :
           outbox[d][x] # "processing" => outbox'[d][x] = outbox[d][x]
  BY <1>1, <1>2, SetRowIs DEF RowStatus
<1>4. QED
  BY <1>1, <1>2, <1>3, RestWorked

LEMMA FinishWorked ==
  ASSUME IInv, TypeOK', Worked, NEW g \in Goroutines, Finish(g)
  PROVE  Worked'
<1>1. job[g].at = "finish" /\ Rest(g) /\ UNCHANGED <<delivery, troubled>>
  BY DEF Finish, At
<1>2. \A d \in Deliveries, x \in Rows : outbox[d][x] # "processing" => outbox'[d][x] = outbox[d][x]
  <2>1. CASE g \in Workers
    <3>1. /\ TypeOK /\ job[g].of \in Deliveries /\ job[g].row \in Rows
          /\ outbox[job[g].of][job[g].row] = "processing" /\ SetRow(job[g].of, job[g].row, "completed")
      BY <1>1, <2>1, Facts DEF IInv, Finish, Of
    <3>2. QED
      BY <3>1, SetRowIs DEF RowStatus
  <2>2. CASE g \notin Workers
    BY <2>2 DEF Finish
  <2>3. QED
    BY <2>1, <2>2
<1>3. QED
  BY <1>1, <1>2, RestWorked

LEMMA DieWorked ==
  ASSUME IInv, TypeOK', Worked, NEW g \in Goroutines, Die(g)
  PROVE  Worked'
BY RestWorked DEF Die, Of, Suffer

LEMMA AdminRetryWorked ==
  ASSUME IInv, TypeOK', Worked, NEW a \in Admins, NEW d \in Deliveries, AdminRetry(a, d)
  PROVE  Worked'
<1>1. /\ a \in Goroutines /\ a \notin Workers /\ delivery[d] \in Deliv /\ TypeOK
      /\ UNCHANGED <<delivery, outbox, troubled>> /\ job[a].at = "idle"
  BY WebhookAssumption, TypeParts DEF Goroutines, IInv, AdminRetry, At
<1>2. PICK n \in Waves \ UsedWaves(d) :
        job' = [job EXCEPT ![a] = [at |-> "save", of |-> d, row |-> Wave(n), seen |-> delivery[d],
                                   result |-> [delivery[d] EXCEPT !.status = "QUEUED"]]]
  BY DEF AdminRetry
<1> DEFINE r == [at |-> "save", of |-> d, row |-> Wave(n), seen |-> delivery[d],
                 result |-> [delivery[d] EXCEPT !.status = "QUEUED"]]
<1>3. Wave(n) \in Rows /\ Wave(n).kind = "WAVE"
  BY DEF Wave, Rows
<1>4. /\ r \in JobRec /\ r.at = "save" /\ r.of = d /\ r.row = Wave(n)
      /\ r.seen = delivery[d] /\ r.result.count = delivery[d].count
  BY <1>1, <1>3 DEF JobRec, Step, Deliv, Status
<1>5. Is(a, r)
  BY <1>2, <1>4 DEF Is
<1> HIDE DEF r
<1>6. /\ outbox[d][Wave(n)] = "NONE"
      /\ \A b \in Admins : job[b].at # "idle" /\ job[b].of = d => job[b].row # Wave(n)
  BY <1>2 DEF UsedWaves, At, Of
<1>7. SaveIsNext(a, r)
  BY <1>1, <1>4 DEF SaveIsNext
<1>8. WaveIsNew(a, r) /\ outbox'[r.of][r.row] = "NONE"
  BY <1>1, <1>3, <1>4, <1>6 DEF WaveIsNew, Writing
<1>9. OnlyInserts(a)
  BY <1>1 DEF OnlyInserts
<1>10. WorkStays
  BY <1>1, <1>4, <1>5, WorkStaysBut
<1>11. QED
  BY <1>1, <1>4, <1>5, <1>7, <1>8, <1>9, <1>10, WorkedStep

LEMMA SaveFailsWorked ==
  ASSUME IInv, TypeOK', Worked, NEW w \in Workers, SaveFails(w)
  PROVE  Worked'
<1>1. /\ w \in Goroutines /\ UNCHANGED <<delivery, outbox>>
      /\ troubled' = troubled \cup {job[w].of} /\ TypeOK
  BY DEF Goroutines, SaveFails, Suffer, Of, IInv
<1> DEFINE r == Went(w)
<1>2. Is(w, r) /\ r.of = job[w].of /\ r.at \in {"insert", "finish"}
  BY <1>1, WentType DEF Is, SaveFails
<1> HIDE DEF r
<1>3. OnlyInserts(w)
  BY <1>1 DEF OnlyInserts
<1>4. WorkStays
  BY <1>1, <1>2, WorkStaysBut
<1>5. QED
  BY <1>1, <1>2, <1>3, <1>4, WorkedStep

LEMMA InsertFailsWorked ==
  ASSUME IInv, TypeOK', Worked, NEW g \in Goroutines, InsertFails(g)
  PROVE  Worked'
<1>1. UNCHANGED <<delivery, outbox>> /\ troubled' = troubled \cup {job[g].of} /\ TypeOK
  BY DEF InsertFails, Suffer, Of, IInv
<1> DEFINE r == Ended(g)
<1>2. Is(g, r) /\ r.at = "finish"
  BY EndedType DEF Is, InsertFails
<1> HIDE DEF r
<1>3. OnlyInserts(g)
  BY <1>1 DEF OnlyInserts
<1>4. WorkStays
  BY <1>1, <1>2, WorkStaysBut
<1>5. QED
  BY <1>1, <1>2, <1>3, <1>4, WorkedStep

LEMMA SaveWorked ==
  ASSUME IInv, TypeOK', Worked, NEW g \in Goroutines, Save(g)
  PROVE  Worked'
<1> DEFINE d == job[g].of
           r == Went(g)
<1>1. /\ job[g] \in JobRec /\ d \in Deliveries /\ job[g].result \in Deliv /\ job[g].at = "save"
      /\ TypeOK /\ delivery[d] \in Deliv /\ g \in Workers \cup Admins
      /\ Workers \subseteq Goroutines /\ Admins \subseteq Goroutines
      /\ job[g].seen \in Deliv
  BY Facts, TypeParts DEF Save, At, IInv, Goroutines
<1>2. /\ delivery' = [delivery EXCEPT ![d] = job[g].result] /\ delivery \in [Deliveries -> Deliv]
      /\ UNCHANGED outbox
      /\ troubled' = IF delivery[d] = job[g].seen THEN troubled ELSE troubled \cup {d}
  BY <1>1, TypeParts DEF IInv, Save, Of, Suffer
<1>3. /\ r \in JobRec /\ r.of = d /\ r.row = job[g].row /\ r.at \in {"insert", "finish"}
      /\ r.at = "insert" <=> job[g].result.status \in Open
      /\ r.at = "insert" => r.result = job[g].result
  BY WentType
<1>4. job' = [job EXCEPT ![g] = r]
  BY WentType DEF Save
<1> HIDE DEF r
<1>5. job'[g] = r /\ \A h \in Goroutines \ {g} : job'[h] = job[h]
  BY <1>1, <1>3, <1>4, Others DEF Is
<1>6. /\ delivery'[d] = job[g].result
      /\ \A e \in Deliveries \ {d} : delivery'[e] = delivery[e]
      /\ troubled \subseteq troubled'
      /\ d \notin troubled' => delivery[d] = job[g].seen /\ d \notin troubled
  BY <1>1, <1>2
<1>7. SaveIsNext(g, job[g])
  BY <1>1 DEF Worked, SavesAreNext, At
<1>8. /\ job[g].result.count \in Nat /\ delivery[d].count \in Nat
      /\ d \notin troubled' => /\ job[g].result.count >= delivery[d].count
                               /\ g \in Workers /\ r.at = "insert" =>
                                    /\ job[g].result.count = delivery[d].count + 1
                                    /\ job[g].result.count < MaxAttempts
  <2>1. job[g].result.count \in Nat /\ delivery[d].count \in Nat /\ job[g].seen.count \in Nat
    BY <1>1 DEF Deliv
  <2>2. QED
    BY <1>1, <1>3, <1>6, <1>7, <2>1 DEF SaveIsNext
<1>9. \A e \in Deliveries \ troubled' : /\ e \notin troubled
                                        /\ delivery[e].count \in Nat /\ delivery'[e].count \in Nat
                                        /\ delivery'[e].count >= delivery[e].count
  <2>1. \A e \in Deliveries : delivery[e].count \in Nat /\ delivery'[e].count \in Nat
    BY <1>1 DEF TypeOK, Deliv
  <2>2. QED
    BY <1>6, <1>8, <2>1
<1>10. RowsKeepUp'
  <2>1. SUFFICES ASSUME NEW e \in Deliveries \ troubled', NEW n \in Attempts, n > delivery'[e].count
                 PROVE  outbox[e][Attempt(n)] = "NONE"
    BY <1>2 DEF RowsKeepUp
  <2>2. n \in Int
    BY WebhookAssumption DEF Attempts
  <2>3. n > delivery[e].count /\ e \in Deliveries \ troubled
    BY <1>9, <2>1, <2>2
  <2>4. QED
    BY <2>3 DEF Worked, RowsKeepUp
<1>11. SavesAreNext'
  <2>1. SUFFICES ASSUME NEW h \in Goroutines, job'[h].at = "save" PROVE SaveIsNext(h, job'[h])
    BY DEF SavesAreNext, At, SaveIsNext
  <2>2. h # g /\ job'[h] = job[h]
    BY <1>3, <1>5, <2>1
  <2>3. QED
    BY <2>1, <2>2 DEF Worked, SavesAreNext, At
<1>12. ASSUME NEW w \in Workers, job[w].at = "insert", job[w].of \notin troubled'
       PROVE  InsertIsNew(w) /\ job[w].of \in Deliveries
  <2>1. job[w].of \in Deliveries
    BY <1>1, Facts
  <2>2. QED
    BY <1>6, <1>12, <2>1 DEF Worked, InsertsAreNew, At, Of
<1>13. ASSUME NEW w \in Workers \ {g}, job[w].at = "insert", job[w].of = d, g \in Workers,
              d \notin troubled', r.at = "insert"
       PROVE  job[w].result.count # job[g].result.count
  <2>1. job[w].result.count \in Attempts /\ job[w].result.count <= delivery[d].count
    BY <1>12, <1>13 DEF InsertIsNew, Of
  <2>2. QED
    BY <1>8, <1>13, <2>1, WebhookAssumption DEF Attempts
<1>14. InsertsAreNew'
  <2>1. SUFFICES ASSUME NEW w \in Workers, job'[w].at = "insert", job'[w].of \notin troubled'
                 PROVE  InsertIsNew(w)'
    BY DEF InsertsAreNew, At, Of
  <2>2. CASE w = g
    <3> DEFINE k == job[g].result.count
    <3>1. job'[w].result.count = k /\ job'[w].of = d /\ d \notin troubled' /\ r.at = "insert"
      BY <1>3, <1>5, <2>1, <2>2
    <3>2. k \in Nat /\ delivery[d].count \in Nat /\ k = delivery[d].count + 1 /\ k < MaxAttempts
      BY <1>8, <2>2, <3>1
    <3>3. k \in Attempts
      BY <3>2, WebhookAssumption DEF Attempts
    <3>4. delivery'[d].count = k
      BY <1>6
    <3>5. outbox[d][Attempt(k)] = "NONE"
      BY <1>1, <1>6, <3>1, <3>2, <3>3 DEF Worked, RowsKeepUp
    <3>6. \A x \in Workers \ {w} :
            job'[x].at = "insert" /\ job'[x].of = d => job'[x].result.count # k
      BY <1>1, <1>5, <1>13, <2>2, <3>1
    <3>7. QED
      BY <1>2, <3>1, <3>2, <3>3, <3>4, <3>5, <3>6 DEF InsertIsNew, At, Of
  <2>3. CASE w # g
    <3>1. job'[w] = job[w]
      BY <1>1, <1>5, <2>3
    <3>2. InsertIsNew(w) /\ job[w].of \in Deliveries /\ job[w].of \notin troubled'
      BY <1>12, <2>1, <3>1
    <3>3. job[w].result.count \in Attempts /\ job[w].result.count <= delivery'[job[w].of].count
      <4>1. job[w].result.count \in Attempts /\ job[w].result.count <= delivery[job[w].of].count
        BY <3>2 DEF InsertIsNew, Of
      <4>2. job[w].result.count \in Int
        BY <4>1, WebhookAssumption DEF Attempts
      <4>3. QED
        BY <1>9, <3>2, <4>1, <4>2
    <3>4. ASSUME NEW x \in Workers \ {w}, job'[x].at = "insert", job'[x].of = job[w].of
          PROVE  job'[x].result.count # job[w].result.count
      <4>1. CASE x = g
        BY <1>3, <1>5, <1>13, <2>1, <2>3, <3>1, <3>2, <3>4, <4>1
      <4>2. CASE x # g
        BY <1>1, <1>5, <3>2, <3>4, <4>2 DEF InsertIsNew, At, Of
      <4>3. QED
        BY <4>1, <4>2
    <3>5. QED
      BY <1>2, <3>1, <3>2, <3>3, <3>4 DEF InsertIsNew, At, Of
  <2>4. QED
    BY <2>2, <2>3
<1>15. WavesAreNew'
  <2>1. SUFFICES ASSUME NEW a \in Admins, job'[a].at \in Writing PROVE WaveIsNew(a, job[a])'
    BY DEF WavesAreNew, Writing
  <2>2. \A b \in Admins : /\ job'[b].of = job[b].of /\ job'[b].row = job[b].row
                          /\ job'[b].at \in Writing => job[b].at \in Writing
    BY <1>1, <1>3, <1>5 DEF Writing
  <2>3. WaveIsNew(a, job[a])
    BY <2>1, <2>2 DEF Worked, WavesAreNew
  <2>4. QED
    BY <1>2, <2>2, <2>3 DEF WaveIsNew, Writing
<1>16. OpenHasWork'
  <2>1. SUFFICES ASSUME NEW e \in Deliveries, delivery'[e].status \in Open, e \notin troubled'
                 PROVE  Pending(e)'
    BY DEF OpenHasWork, Open
  <2>2. CASE e = d
    <3>1. job'[g].at = "insert" /\ job'[g].of = e
      BY <1>3, <1>5, <1>6, <2>1, <2>2
    <3>2. QED
      BY <3>1, PendingBy DEF Step
  <2>3. CASE e # d
    <3>1. Pending(e)
      BY <1>6, <2>1, <2>3 DEF Worked, OpenHasWork
    <3>2. ASSUME NEW x \in Rows, outbox[e][x] \in {"pending", "failed"} PROVE Pending(e)'
      BY <1>2, <3>2, PendingBy
    <3>3. ASSUME NEW h \in Goroutines, job[h].of = e, job[h].at \in Step \ {"idle", "finish"}
          PROVE  Pending(e)'
      BY <1>5, <2>3, <3>3, PendingBy
    <3>4. QED
      BY <3>1, <3>2, <3>3 DEF Pending, Of
  <2>4. QED
    BY <2>2, <2>3
<1>17. QED
  BY <1>10, <1>11, <1>14, <1>15, <1>16 DEF Worked

LEMMA EnqueueWorked ==
  ASSUME IInv, TypeOK', Worked, NEW d \in Deliveries, Enqueue(d)
  PROVE  Worked'
<1>1. /\ delivery[d].status = "NONE" /\ UNCHANGED <<job, troubled>>
      /\ delivery' = [delivery EXCEPT ![d] = [status |-> "QUEUED", count |-> 0]]
      /\ delivery \in [Deliveries -> Deliv] /\ TypeOK
  BY TypeParts DEF Enqueue, IInv
<1>2. Attempt(0) \in Rows /\ Workers \subseteq Goroutines /\ Admins \subseteq Goroutines
  BY WebhookAssumption DEF Attempt, Rows, Attempts, Goroutines
<1>3. /\ outbox'[d][Attempt(0)] = "pending"
      /\ \A e \in Deliveries, y \in Rows : e # d \/ y # Attempt(0) => outbox'[e][y] = outbox[e][y]
      /\ \A e \in Deliveries : e # d => outbox'[e] = outbox[e]
  BY <1>1, <1>2, SetRowIs DEF Enqueue, RowStatus
<1>4. /\ \A x \in Rows : outbox[d][x] = "NONE"
      /\ \A g \in Goroutines : job[g].at # "idle" => job[g].of # d /\ job[g].of \in Deliveries
  BY <1>1, Facts DEF IInv, Rooted
<1>5. delivery'[d].count = 0 /\ \A e \in Deliveries \ {d} : delivery'[e] = delivery[e]
  BY <1>1
<1>6. RowsKeepUp'
  <2>1. SUFFICES ASSUME NEW e \in Deliveries \ troubled, NEW n \in Attempts, n > delivery'[e].count
                 PROVE  outbox'[e][Attempt(n)] = "NONE"
    BY <1>1 DEF RowsKeepUp
  <2>2. CASE e = d
    <3>1. Attempt(n) # Attempt(0) /\ Attempt(n) \in Rows
      BY <1>5, <2>1, <2>2, KindsDiffer
    <3>2. QED
      BY <1>3, <1>4, <2>2, <3>1
  <2>3. CASE e # d
    BY <1>3, <1>5, <2>1, <2>3 DEF Worked, RowsKeepUp
  <2>4. QED
    BY <2>2, <2>3
<1>7. SavesAreNext'
  BY <1>1 DEF Worked, SavesAreNext, At, SaveIsNext
<1>8. InsertsAreNew'
  <2>1. SUFFICES ASSUME NEW w \in Workers, job[w].at = "insert", job[w].of \notin troubled
                 PROVE  InsertIsNew(w)'
    BY <1>1 DEF InsertsAreNew, At, Of
  <2>2. InsertIsNew(w) /\ job[w].of # d /\ job[w].of \in Deliveries
    BY <1>2, <1>4, <2>1 DEF Worked, InsertsAreNew, At, Of
  <2>3. QED
    BY <1>1, <1>3, <1>5, <2>2 DEF InsertIsNew, At, Of
<1>9. WavesAreNew'
  <2>1. SUFFICES ASSUME NEW a \in Admins, job[a].at \in Writing PROVE WaveIsNew(a, job[a])'
    BY <1>1 DEF WavesAreNew, Writing
  <2>2. WaveIsNew(a, job[a]) /\ job[a].of # d /\ job[a].of \in Deliveries
    BY <1>2, <1>4, <2>1 DEF Worked, WavesAreNew, Writing
  <2>3. QED
    BY <1>1, <1>3, <2>2 DEF WaveIsNew, Writing
<1>10. OpenHasWork'
  <2>1. SUFFICES ASSUME NEW e \in Deliveries, delivery'[e].status \in Open, e \notin troubled
                 PROVE  Pending(e)'
    BY <1>1 DEF OpenHasWork, Open
  <2>2. CASE e = d
    BY <1>2, <1>3, <2>2, PendingBy
  <2>3. CASE e # d
    <3>1. Pending(e)
      BY <1>5, <2>1, <2>3 DEF Worked, OpenHasWork
    <3>2. QED
      BY <1>1, <1>3, <2>3, <3>1 DEF Pending, Of
  <2>4. QED
    BY <2>2, <2>3
<1>11. QED
  BY <1>6, <1>7, <1>8, <1>9, <1>10 DEF Worked

LEMMA WorkedInit == Init => Worked
<1>1. SUFFICES ASSUME Init PROVE Worked
  OBVIOUS
<1>2. /\ delivery = [d \in Deliveries |-> NoDeliv] /\ job = [g \in Goroutines |-> Resting]
      /\ outbox = [d \in Deliveries |-> [x \in Rows |-> "NONE"]]
  BY <1>1 DEF Init
<1>3. NoDeliv.status \notin Open /\ Resting.at = "idle"
  BY RestingType DEF NoDeliv, Open
<1>4. RowsKeepUp /\ OpenHasWork
  BY <1>2, <1>3, KindsDiffer DEF RowsKeepUp, OpenHasWork
<1>5. SavesAreNext /\ InsertsAreNew /\ WavesAreNew
  BY <1>2, <1>3 DEF SavesAreNext, InsertsAreNew, WavesAreNew, At, Goroutines, Writing
<1>6. QED
  BY <1>4, <1>5 DEF Worked

LEMMA WorkedNext == IInv /\ Worked /\ [Next]_vars => Worked'
<1>1. SUFFICES ASSUME IInv, Worked, [Next]_vars PROVE Worked'
  OBVIOUS
<1>2. TypeOK'
  BY <1>1, IInvStep DEF IInv
<1>3. CASE UNCHANGED vars
  <2>1. /\ UNCHANGED <<delivery, outbox, job, troubled>>
    BY <1>3 DEF vars
  <2>2. RowsKeepUp' /\ SavesAreNext' /\ WavesAreNew' /\ OpenHasWork'
    BY <1>1, <2>1 DEF Worked, RowsKeepUp, SavesAreNext, SaveIsNext, WavesAreNew, WaveIsNew,
                      OpenHasWork, Pending, At, Of
  <2>3. InsertsAreNew'
    BY <1>1, <2>1 DEF Worked, InsertsAreNew, InsertIsNew, At, Of
  <2>4. QED
    BY <2>2, <2>3 DEF Worked
<1>4. ASSUME NEW g \in Goroutines, Proceed(g) PROVE Worked'
  BY <1>1, <1>2, <1>4, ReadWorked, PostWorked, SaveWorked, InsertWorked, FinishWorked DEF Proceed
<1>5. QED
  BY <1>1, <1>2, <1>3, <1>4, EnqueueWorked, ClaimWorked, ReadFailsWorked, SaveFailsWorked, AdminRetryWorked,
     InsertFailsWorked, DieWorked DEF Next, ClaimAny

(* scheduleRetry, AdminRetry: a delivery to be tried again is left without *)
(* work only if a goroutine died on it, wrote over a row unread, lost one  *)
(* of its writes, or gave its outbox row up as dead: racing workers and    *)
(* administrators alone forget none, for every number of them.             *)
THEOREM OpenAlwaysHasWork == Spec => []OpenHasWork
<1>1. Init => IInv /\ Worked
  BY InitHolds, WorkedInit
<1>2. IInv /\ Worked /\ [Next]_vars => (IInv /\ Worked)'
  BY IInvStep, WorkedNext
<1>3. IInv /\ Worked => OpenHasWork
  BY DEF Worked
<1>4. QED
  BY <1>1, <1>2, <1>3, PTL DEF Spec
=============================================================================
