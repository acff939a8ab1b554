---------------------------- MODULE BundleDelivery ----------------------------
(***************************************************************************)
(* What `bundle import` promises to whoever installs bundles: a target     *)
(* that an import has reported is one that verifies, it is there as a      *)
(* whole from one moment to the next, and it stays what it is.             *)
(* ProfileBundle implements this specification with several processes that *)
(* verify, copy, fail and are killed file by file.                         *)
(***************************************************************************)
CONSTANT Verified(_)   (* the directories that verify                      *)

VARIABLE delivered     (* {}, or the directory that may be installed in {} *)

DeliveryInit == delivered = {}

Deliver ==
  /\ delivered = {}
  /\ \E dir \in delivered' : delivered' = {dir} /\ Verified(dir)

DeliverySpec == DeliveryInit /\ [][Deliver]_delivered
==============================================================================
