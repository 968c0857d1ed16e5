------------------------------ MODULE Lifecycle ------------------------------
(* The durable operation lifecycle of packages/schemas/src/lifecycle.ts: the  *)
(* states an `operations` row can be in and the adjacency table every writer  *)
(* is supposed to stay inside.                                                *)

LIFECYCLE_STATES ==
  {"DRAFT", "VALIDATED", "POLICY_PRECHECKED", "CONSTRUCTED", "DECODED",
   "VERIFIED", "SIMULATED", "POLICY_FINALIZED", "BUDGET_RESERVED",
   "ENVELOPE_FINALIZED", "AWAITING_APPROVAL", "AUTHORIZED", "SIGNING",
   "SIGNED", "BROADCAST", "PENDING_CONFIRMATION", "CONFIRMED", "RECONCILED",
   "REJECTED", "DENIED", "EXPIRED", "SIMULATION_FAILED", "SIGNING_FAILED",
   "BROADCAST_FAILED", "REVERTED", "CANCELLED", "DISPUTED", "REVOKED",
   "REVALIDATION_REQUIRED"}

Refusals == {"REJECTED", "DENIED", "EXPIRED", "REVOKED"}

LIFECYCLE_TRANSITIONS ==
  [ s \in LIFECYCLE_STATES |->
    CASE s = "DRAFT"                 -> {"VALIDATED"} \union Refusals
      [] s = "VALIDATED"             -> {"POLICY_PRECHECKED"} \union Refusals
      [] s = "POLICY_PRECHECKED"     -> {"CONSTRUCTED"} \union Refusals
      [] s = "CONSTRUCTED"           -> {"DECODED"} \union Refusals
      [] s = "DECODED"               -> {"VERIFIED"} \union Refusals
      [] s = "VERIFIED"              -> {"SIMULATED"} \union Refusals
      [] s = "SIMULATED"             -> {"POLICY_FINALIZED",
                                         "SIMULATION_FAILED"} \union Refusals
      [] s = "POLICY_FINALIZED"      -> {"BUDGET_RESERVED",
                                         "REVALIDATION_REQUIRED"} \union Refusals
      [] s = "BUDGET_RESERVED"       -> {"ENVELOPE_FINALIZED", "EXPIRED",
                                         "REVALIDATION_REQUIRED", "REVOKED"}
      [] s = "ENVELOPE_FINALIZED"    -> {"AWAITING_APPROVAL", "AUTHORIZED",
                                         "REVALIDATION_REQUIRED", "EXPIRED",
                                         "REVOKED"}
      [] s = "AWAITING_APPROVAL"     -> {"AUTHORIZED", "REVALIDATION_REQUIRED",
                                         "EXPIRED", "CANCELLED", "REJECTED",
                                         "REVOKED"}
      [] s = "AUTHORIZED"            -> {"SIGNING", "REVALIDATION_REQUIRED",
                                         "EXPIRED", "CANCELLED", "REVOKED"}
      [] s = "SIGNING"               -> {"SIGNED", "SIGNING_FAILED", "REVOKED",
                                         "DISPUTED"}
      [] s = "SIGNED"                -> {"BROADCAST", "BROADCAST_FAILED",
                                         "DISPUTED", "REVOKED"}
      [] s = "BROADCAST"             -> {"PENDING_CONFIRMATION",
                                         "BROADCAST_FAILED", "DISPUTED"}
      [] s = "PENDING_CONFIRMATION"  -> {"CONFIRMED", "REVERTED", "DISPUTED",
                                         "BROADCAST_FAILED"}
      [] s = "CONFIRMED"             -> {"RECONCILED", "DISPUTED"}
      [] s = "BROADCAST_FAILED"      -> {"DISPUTED"}
      [] s = "REVERTED"              -> {"RECONCILED", "DISPUTED"}
      [] s = "DISPUTED"              -> {"RECONCILED"}
      [] s = "REVALIDATION_REQUIRED" -> {"VALIDATED", "EXPIRED", "DENIED",
                                         "REVOKED"}
      [] OTHER                       -> {} ]

=============================================================================
