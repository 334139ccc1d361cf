------------------------------- MODULE MCSentry -------------------------------
EXTENDS Sentry

(* Two armours that are equally important and one that is less so.         *)
MCKinds == {"sentry", "hero", "infantry"}
MCPriority == [kind \in MCKinds |-> IF kind = "infantry" THEN 2 ELSE 1]
=============================================================================
