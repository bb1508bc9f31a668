--------------------------- MODULE MerchantLedger ---------------------------
(***************************************************************************)
(* One merchant's wallet: the merchant_balances row, its per source rows   *)
(* and the journals written by post_ledger_transaction, and the settlement *)
(* lots that payment captures create and the settlement job releases.      *)
(* A transaction is one action.                                            *)
(***************************************************************************)
EXTENDS Integers, FiniteSets

CONSTANTS Withdrawals,   \* the withdrawals a journal may be about
          NumLots,       \* lots 1 .. NumLots, in order of available_at
          Original,      \* original_amount_idr of each lot
          Source,        \* source of each lot
          Immediate      \* lots captured with no settlement delay

Lots    == 1 .. NumLots
Sources == {"STOREFRONT", "QRIS_API"}

ASSUME LedgerAssumption ==
  /\ NumLots \in Nat
  /\ Original \in [Lots -> Nat \ {0}]
  /\ Source \in [Lots -> Sources]
  /\ Immediate \subseteq Lots

VARIABLES ledger,   \* balances and the journals posted
          lots      \* settlement_lots

Templates == {"CAPTURE", "SETTLE", "RESERVE", "RELEASE", "COMPLETE", "RECAPTURE"}
Journals  == [template : Templates, of : Withdrawals \cup Lots]
Journal(t, x) == [template |-> t, of |-> x]

Ledgers == [pending : Nat, available : Nat, bySource : [Sources -> Nat],
            posted : SUBSET Journals]
LotRows == [status : {"NONE", "PENDING", "AVAILABLE", "PARTIALLY_CONSUMED", "CONSUMED"},
            remaining : Nat]

LedgerTypeOK ==
  /\ ledger \in Ledgers
  /\ lots \in [Lots -> LotRows]

----------------------------------------------------------------------------
(* post_ledger_transaction: a journal posted before moves nothing; one of  *)
(* source MIXED moves no source row.  The CHECK constraints on both tables *)
(* abort the transaction, so a caller commits only a ledger that Fits.     *)

Post(l, j, dPending, dAvailable, source) ==
  IF j \in l.posted THEN l
  ELSE [pending   |-> l.pending + dPending,
        available |-> l.available + dAvailable,
        bySource  |-> [s \in Sources |-> l.bySource[s] + (IF s = source THEN dAvailable ELSE 0)],
        posted    |-> l.posted \cup {j}]

Fits(l) == /\ l.pending >= 0
           /\ l.available >= 0
           /\ \A s \in Sources : l.bySource[s] >= 0

----------------------------------------------------------------------------
(* PostPaymentCapture: lot and journal in one transaction; with no         *)
(* settlement delay the release journal is posted in it as well.           *)

CaptureLot(n) ==
  LET captured == Post(ledger, Journal("CAPTURE", n), Original[n], 0, Source[n])
      settled  == Post(captured, Journal("SETTLE", n), -Original[n], Original[n], Source[n])
  IN
  /\ lots[n].status = "NONE"
  /\ \/ /\ n \notin Immediate
        /\ ledger' = captured
        /\ lots' = [lots EXCEPT ![n] = [status |-> "PENDING", remaining |-> 0]]
     \/ /\ n \in Immediate
        /\ Fits(settled)
        /\ ledger' = settled
        /\ lots' = [lots EXCEPT ![n] = [status |-> "AVAILABLE", remaining |-> Original[n]]]

(* UpdateLotAfterRelease: no look at the row it overwrites. *)
Refill(n) == lots' = [lots EXCEPT ![n] = [status |-> "AVAILABLE", remaining |-> Original[n]]]

(* ReleaseDueSettlements reads the due lots, then releaseLot opens each in *)
(* a transaction of its own, whatever became of it since.  Ticks overlap,  *)
(* so some tick may hold any lot that was PENDING once.  When the release  *)
(* is posted already, the balance stays and only the lot is written.       *)
ReleaseLot(n) ==
  LET l == Post(ledger, Journal("SETTLE", n), -Original[n], Original[n], Source[n]) IN
  /\ n \notin Immediate
  /\ lots[n].status # "NONE"
  /\ Fits(l)
  /\ ledger' = l
  /\ Refill(n)

----------------------------------------------------------------------------

LedgerInit ==
  /\ ledger = [pending |-> 0, available |-> 0, bySource |-> [s \in Sources |-> 0], posted |-> {}]
  /\ lots = [n \in Lots |-> [status |-> "NONE", remaining |-> 0]]

LedgerNext == \E n \in Lots : CaptureLot(n) \/ ReleaseLot(n)
=============================================================================
