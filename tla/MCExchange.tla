----------------------------- MODULE MCExchange -----------------------------
(* Two nodes and three records for TLC: two versions of one source with short
   ids, the newer one permanent, and a record with a content address as its id. *)
EXTENDS Exchange

Sources  == 1 :> "s" @@ 2 :> "s" @@ 3 :> "t"
Created  == 1 :> 1 @@ 2 :> 2 @@ 3 :> 1
Expiries == 1 :> 1 @@ 2 :> 0 @@ 3 :> 2
AnnSizes == 1 :> 100 @@ 2 :> 100 @@ 3 :> 230
=============================================================================
