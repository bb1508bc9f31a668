-------------------------- MODULE MCSellerWebhooks --------------------------
(***************************************************************************)
(* One delivery: deliveries share nothing but the workers' time.           *)
(***************************************************************************)
EXTENDS SellerWebhooks
=============================================================================
