-------------------------- MODULE VerifiedPayment --------------------------
(***************************************************************************)
(* What the payment rows promise, whatever handlers, retries and losses    *)
(* lie behind them: a sale is captured at most once, in one atomic step    *)
(* that marks the intent and its order PAID and writes the settlement,     *)
(* only for money the provider has, late exactly when the sale had been    *)
(* closed unpaid; a captured sale stays captured; journal and delivery     *)
(* follow the capture.                                                     *)
(***************************************************************************)
CONSTANTS Intents

VARIABLES
  received,  \* intents whose money the provider has
  sale       \* [phase, settlement, booked, delivered] of each intent

vars == <<received, sale>>

Phase == {"OPEN", "CLOSED_UNPAID", "CAPTURED"}
Sale  == [phase : Phase, settlement : {"NONE", "ON_TIME", "LATE"},
          booked : BOOLEAN, delivered : BOOLEAN]

Init ==
  /\ received = {}
  /\ sale = [i \in Intents |-> [phase |-> "OPEN", settlement |-> "NONE",
                                booked |-> FALSE, delivered |-> FALSE]]

Receive(i) ==
  /\ received' = received \cup {i}
  /\ UNCHANGED sale

Close(i) ==
  /\ sale[i].phase = "OPEN"
  /\ sale' = [sale EXCEPT ![i].phase = "CLOSED_UNPAID"]
  /\ UNCHANGED received

Capture(i) ==
  /\ i \in received
  /\ sale[i].phase # "CAPTURED"
  /\ sale' = [sale EXCEPT ![i].phase = "CAPTURED",
                          ![i].settlement = IF sale[i].phase = "OPEN" THEN "ON_TIME" ELSE "LATE"]
  /\ UNCHANGED received

Book(i) ==
  /\ sale[i].phase = "CAPTURED"
  /\ sale' = [sale EXCEPT ![i].booked = TRUE]
  /\ UNCHANGED received

Deliver(i) ==
  /\ sale[i].phase = "CAPTURED"
  /\ sale' = [sale EXCEPT ![i].delivered = TRUE]
  /\ UNCHANGED received

Next == \E i \in Intents :
          Receive(i) \/ Close(i) \/ Capture(i) \/ Book(i) \/ Deliver(i)

Spec == Init /\ [][Next]_vars
=============================================================================
