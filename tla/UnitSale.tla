------------------------------ MODULE UnitSale ------------------------------
(***************************************************************************)
(* What the stock of a code product promises: a unit is held for one       *)
(* checkout at a time, is sold to the checkout it is held for and to no    *)
(* other, and once sold or withdrawn stays so.                             *)
(***************************************************************************)
CONSTANTS Units, Keys

VARIABLES
  phase,    \* FREE, HELD, SOLD or WITHDRAWN
  buyers    \* the checkouts each unit is held for or sold to

vars == <<phase, buyers>>

Init ==
  /\ phase = [u \in Units |-> "FREE"]
  /\ buyers = [u \in Units |-> {}]

Hold(u, k) ==
  /\ phase[u] = "FREE"
  /\ phase' = [phase EXCEPT ![u] = "HELD"]
  /\ buyers' = [buyers EXCEPT ![u] = {k}]

(* Several holds may lapse at once. *)
LetGo(S) ==
  /\ \A u \in S : phase[u] = "HELD"
  /\ phase' = [u \in Units |-> IF u \in S THEN "FREE" ELSE phase[u]]
  /\ buyers' = [u \in Units |-> IF u \in S THEN {} ELSE buyers[u]]

Sell(u) ==
  /\ phase[u] = "HELD"
  /\ phase' = [phase EXCEPT ![u] = "SOLD"]
  /\ UNCHANGED buyers

Withdraw(u) ==
  /\ phase[u] \in {"FREE", "HELD"}
  /\ phase' = [phase EXCEPT ![u] = "WITHDRAWN"]
  /\ buyers' = [buyers EXCEPT ![u] = {}]

Next ==
  \/ \E S \in SUBSET Units : LetGo(S)
  \/ \E u \in Units : Sell(u) \/ Withdraw(u) \/ \E k \in Keys : Hold(u, k)

Spec == Init /\ [][Next]_vars
=============================================================================
