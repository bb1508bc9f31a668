------------------------- MODULE CheckoutOperations -------------------------
(***************************************************************************)
(* application.CheckoutService after the checkout rows exist, and the two  *)
(* jobs that drive it: CreateIntent, ExpireIntent (buyer or the expiry     *)
(* job) and LookupProvider (the reconciliation job).  Each calls the       *)
(* payment provider outside any transaction and then writes the intent     *)
(* with ForceUpdatePaymentIntent and the order with UpdateOrderStatus,     *)
(* neither of which looks at the row it overwrites.  An operation is a     *)
(* goroutine: one step per statement, so that everything else may run in   *)
(* between.                                                                *)
(***************************************************************************)
EXTENDS PaymentRows

CONSTANTS Operations   \* goroutines serving a checkout request or a job batch

VARIABLES op           \* what each operation is doing

OpStep == {"idle", "create_call", "create_ok", "create_unknown", "reject_release",
           "reject_force", "reject_order", "expire_call", "expire_unknown",
           "lookup_read", "lookup_call", "force_pending", "force_paid", "force_expired",
           "expired_order", "expired_release", "force_cancelled", "cancelled_order",
           "cancel_call", "cancel_unknown"}

CheckoutTypeOK ==
  op \in [Operations -> [at : OpStep, for : Intents, seenStatus : Status, seenOp : Operation]]

Resting  == [at |-> "idle", for |-> CHOOSE i \in Intents : TRUE,
             seenStatus |-> "NONE", seenOp |-> "NONE"]
Row(q)   == op[q].for
At(q, s) == op[q].at = s

(* What was read is used by the step that follows and forgotten.           *)
Enter(q, i, s) ==
  op' = [op EXCEPT ![q] = [at |-> s, for |-> i, seenStatus |-> "NONE", seenOp |-> "NONE"]]
Move(q, s) ==
  IF s = "idle" THEN op' = [op EXCEPT ![q] = Resting] ELSE Enter(q, Row(q), s)

----------------------------------------------------------------------------
(* CreateIntent: order, item and intent in one transaction, then the call. *)

CreateIntent(q, i) ==
  /\ At(q, "idle")
  /\ pay[i].status = "NONE"
  /\ pay' = [pay EXCEPT ![i] = [@ EXCEPT !.source = "STOREFRONT",
                                         !.status = "REQUIRES_PAYMENT"]]
  /\ UpdateOrderStatus(i, "PENDING")
  /\ Enter(q, i, "create_call")
  /\ UNCHANGED <<provider, settlement, effects, locked>>

(* A timed out call may or may not have created the payment; neither may   *)
(* one that ended in a 5xx or a broken connection, yet only the timeout is *)
(* an unknown outcome (IsUnknownOutcome), the rest counts as a rejection.  *)
Rejected(i) == IF pay[i].source = "QRIS_API" THEN "reject_force" ELSE "reject_release"

CallCreate(q) ==
  /\ At(q, "create_call")
  /\ \/ /\ provider' = [provider EXCEPT ![Row(q)] = @ \cup {"CREATED"}]
        /\ Move(q, "create_ok") \/ Move(q, "create_unknown") \/ Move(q, Rejected(Row(q)))
     \/ /\ UNCHANGED provider
        /\ Move(q, "create_unknown") \/ Move(q, Rejected(Row(q)))
  /\ UNCHANGED <<rows, locked>>

(* From REQUIRES_PAYMENT by compare-and-set, otherwise by force: either    *)
(* way the row becomes PENDING, and only the force clears the operation.   *)
ActivateIntent(q) ==
  LET i == Row(q) IN
  /\ At(q, "create_ok")
  /\ Unlocked(i)
  /\ pay' = [pay EXCEPT ![i] = [@ EXCEPT !.status = "PENDING", !.hasRef = TRUE,
               !.unknownOp = IF pay[i].status = "REQUIRES_PAYMENT"
                             THEN pay[i].unknownOp ELSE "NONE"]]
  /\ Move(q, "idle")
  /\ UNCHANGED <<provider, order, settlement, effects, locked>>

CreateUnknown(q) ==
  /\ At(q, "create_unknown")
  /\ Unlocked(Row(q))
  /\ ForceStatus(Row(q), "UNKNOWN_OUTCOME", "CREATE")
  /\ Move(q, "idle")
  /\ UNCHANGED <<provider, order, settlement, effects, locked>>

(* Hard reject: release the holds, fail the intent, fail the order. *)
RejectRelease(q) ==
  /\ At(q, "reject_release")
  /\ ReleaseReservations(Row(q))
  /\ Move(q, "reject_force")
  /\ UNCHANGED <<provider, pay, order, settlement, locked>>

RejectForce(q) ==
  /\ At(q, "reject_force")
  /\ Unlocked(Row(q))
  /\ ForceStatus(Row(q), "FAILED", "NONE")
  /\ Move(q, "reject_order")
  /\ UNCHANGED <<provider, order, settlement, effects, locked>>

RejectOrder(q) ==
  /\ At(q, "reject_order")
  /\ UpdateOrderStatus(Row(q), "FAILED")
  /\ Move(q, "idle")
  /\ UNCHANGED <<provider, pay, settlement, effects, locked>>

----------------------------------------------------------------------------
(* ExpireIntent.  The first write is a compare-and-set on the status read; *)
(* the other statuses return the row as it is.                             *)

RequestExpire(q, i) ==
  /\ At(q, "idle")
  /\ pay[i].status \in {"REQUIRES_PAYMENT", "PENDING"}
  /\ Unlocked(i)
  /\ pay' = [pay EXCEPT ![i] = [@ EXCEPT !.status = "EXPIRE_PENDING"]]
  /\ Enter(q, i, IF pay[i].hasRef THEN "expire_call" ELSE "expire_unknown")
  /\ UNCHANGED <<provider, order, settlement, effects, locked>>

(* No reference to ask for, or no answer.                                  *)
ExpireUnknown(q) ==
  /\ At(q, "expire_unknown")
  /\ Unlocked(Row(q))
  /\ ForceStatus(Row(q), "UNKNOWN_OUTCOME", "EXPIRE")
  /\ Move(q, "idle")
  /\ UNCHANGED <<provider, order, settlement, effects, locked>>

BlindTimeout  == "force_expired"         \* faulty: a timeout is taken for an expiry
ExpireTimeout == "expire_unknown"

(* The provider expires an open payment or only reports what it is; a      *)
(* timeout may hide either; any other error leaves EXPIRE_PENDING.         *)
ExpireDecision(answer) ==
  CASE answer = "PAID"      -> "force_paid"
    [] answer = "EXPIRED"   -> "force_expired"
    [] answer = "PENDING"   -> "idle"
    [] answer = "CANCELLED" -> "expire_unknown"

CallExpire(q) ==
  /\ At(q, "expire_call")
  /\ \E facts \in Ended(Row(q), "EXPIRED") :
       /\ provider' = [provider EXCEPT ![Row(q)] = facts]
       /\ \/ Move(q, ExpireTimeout) \/ Move(q, ExpireDecision(AnswerOf(facts)))
          \/ Move(q, "idle")
  /\ UNCHANGED <<rows, locked>>

----------------------------------------------------------------------------
(* Reconciliation: the job selects unresolved rows, LookupProvider reads   *)
(* the row again, asks the provider and acts on what it read.              *)

ClaimLookup(q, i) ==
  /\ At(q, "idle")
  /\ pay[i].status \in {"UNKNOWN_OUTCOME", "EXPIRE_PENDING", "CANCEL_PENDING"}
  /\ Unlocked(i)                                  \* FOR UPDATE SKIP LOCKED
  /\ Enter(q, i, "lookup_read")
  /\ UNCHANGED <<provider, rows, locked>>

(* Without a provider reference there is nothing to ask. *)
ReadForLookup(q) ==
  LET i == Row(q) IN
  /\ At(q, "lookup_read")
  /\ \/ ~pay[i].hasRef /\ Move(q, "idle")
     \/ /\ pay[i].hasRef
        /\ op' = [op EXCEPT ![q] = [at |-> "lookup_call", for |-> i,
                                    seenStatus |-> pay[i].status, seenOp |-> pay[i].unknownOp]]
  /\ UNCHANGED <<provider, rows, locked>>

(* Faulty: every answer but EXPIRED counts as paid. *)
LookupDecisionOptimistic(q) == IF Answer(Row(q)) = "EXPIRED" THEN "idle" ELSE "force_paid"

LookupDecision(q) ==
  LET seen == op[q] IN
  CASE Answer(Row(q)) = "PAID" -> "force_paid"
    [] Answer(Row(q)) = "EXPIRED" /\ (seen.seenOp = "EXPIRE" \/ seen.seenStatus = "EXPIRE_PENDING")
         -> "force_expired"
    [] Answer(Row(q)) = "CANCELLED" /\ seen.seenOp = "CANCEL" -> "force_cancelled"
    [] Answer(Row(q)) = "PENDING" /\ seen.seenStatus = "UNKNOWN_OUTCOME" -> "force_pending"
    [] OTHER -> "idle"

CallLookup(q) ==
  /\ At(q, "lookup_call")
  /\ Move(q, LookupDecision(q)) \/ Move(q, "idle")     \* or the call failed
  /\ UNCHANGED <<provider, rows, locked>>

----------------------------------------------------------------------------
(* What an answer leads to, in ExpireIntent and LookupProvider alike.      *)

ForcePending(q) ==
  /\ At(q, "force_pending")
  /\ Unlocked(Row(q))
  /\ ForceStatus(Row(q), "PENDING", "NONE")
  /\ Move(q, "idle")
  /\ UNCHANGED <<provider, order, settlement, effects, locked>>

(* Faulty: the order is marked as well, still without a settlement. *)
ForcePaidWithOrder(q) ==
  /\ At(q, "force_paid")
  /\ Unlocked(Row(q))
  /\ ForceStatus(Row(q), "PAID", "NONE")
  /\ UpdateOrderStatus(Row(q), "PAID")
  /\ Move(q, "idle")
  /\ UNCHANGED <<provider, settlement, effects, locked>>

(* The status only: no settlement, and the order is left as it is. *)
ForcePaid(q) ==
  /\ At(q, "force_paid")
  /\ Unlocked(Row(q))
  /\ ForceStatus(Row(q), "PAID", "NONE")
  /\ Move(q, "idle")
  /\ UNCHANGED <<provider, order, settlement, effects, locked>>

ForceExpired(q) ==
  /\ At(q, "force_expired")
  /\ Unlocked(Row(q))
  /\ ForceStatus(Row(q), "EXPIRED", "NONE")
  /\ Move(q, "expired_order")
  /\ UNCHANGED <<provider, order, settlement, effects, locked>>

(* Faulty: the order gets the status of the intent, which it does not have. *)
ExpireOrderAsIntent(q) ==
  /\ At(q, "expired_order")
  /\ UpdateOrderStatus(Row(q), "EXPIRE_PENDING")
  /\ Move(q, "expired_release")
  /\ UNCHANGED <<provider, pay, settlement, effects, locked>>

ExpireOrder(q) ==
  /\ At(q, "expired_order")
  /\ UpdateOrderStatus(Row(q), "EXPIRED")
  /\ Move(q, "expired_release")
  /\ UNCHANGED <<provider, pay, settlement, effects, locked>>

ReleaseExpired(q) ==
  /\ At(q, "expired_release")
  /\ ReleaseReservations(Row(q))
  /\ Move(q, "idle")
  /\ UNCHANGED <<provider, pay, order, settlement, locked>>

(* Only an intent of the gateway gets here, and it has nothing to release. *)
ForceCancelled(q) ==
  /\ At(q, "force_cancelled")
  /\ Unlocked(Row(q))
  /\ ForceStatus(Row(q), "CANCELLED", "NONE")
  /\ Move(q, "cancelled_order")
  /\ UNCHANGED <<provider, order, settlement, effects, locked>>

CancelOrder(q) ==
  /\ At(q, "cancelled_order")
  /\ UpdateOrderStatus(Row(q), "CANCELLED")
  /\ Move(q, "idle")
  /\ UNCHANGED <<provider, pay, settlement, effects, locked>>

(* The error of these writes is ignored: what comes after them is done.    *)
WriteFails(q) ==
  /\ \/ At(q, "reject_release") /\ Move(q, "reject_force")
     \/ At(q, "reject_force")   /\ Move(q, "reject_order")
     \/ At(q, "force_expired")  /\ Move(q, "expired_order")
     \/ At(q, "expired_order")  /\ Move(q, "expired_release")
     \/ At(q, "force_cancelled") /\ Move(q, "cancelled_order")
  /\ UNCHANGED <<provider, rows, locked>>

(* The process dies, or its last write fails; nothing it wrote is undone. *)
Abandon(q) ==
  /\ ~At(q, "idle")
  /\ Move(q, "idle")
  /\ UNCHANGED <<provider, rows, locked>>

OperationStep(q) ==
  \/ CallCreate(q) \/ ActivateIntent(q) \/ CreateUnknown(q)
  \/ RejectRelease(q) \/ RejectForce(q) \/ RejectOrder(q)
  \/ ExpireUnknown(q) \/ CallExpire(q)
  \/ ReadForLookup(q) \/ CallLookup(q)
  \/ ForcePending(q) \/ ForcePaid(q) \/ ForceExpired(q)
  \/ ExpireOrder(q) \/ ReleaseExpired(q) \/ ForceCancelled(q) \/ CancelOrder(q)

CheckoutStep ==
  \E q \in Operations :
    \/ \E i \in Intents : CreateIntent(q, i) \/ RequestExpire(q, i) \/ ClaimLookup(q, i)
    \/ OperationStep(q) \/ WriteFails(q)
    \/ Abandon(q)

CheckoutInit ==
  /\ provider = [i \in Intents |-> {}]
  /\ pay = [i \in Intents |-> [source |-> "STOREFRONT", status |-> "NONE", hasRef |-> FALSE,
                               unknownOp |-> "NONE", paidLate |-> FALSE, held |-> FALSE]]
  /\ order = [i \in Intents |-> "NONE"]
  /\ settlement = [i \in Intents |-> "NONE"]
  /\ effects = [i \in Intents |-> {}]
  /\ locked = {}
  /\ op = [q \in Operations |-> Resting]
=============================================================================
