--------------------------- MODULE MCControlPlane ---------------------------
(* An instance of ControlPlane for TLC: three accounts that want one address, *)
(* one project, and six kinds of traffic.                                  *)
EXTENDS ControlPlane, TLC

CONSTANTS p1, c1, c2, a1, a2, a3

Event(type, plan, status) == [project |-> p1, type |-> type, plan |-> plan, status |-> status]
MCEvents ==
  {Event("subscription.updated", "pro", "active"), Event("subscription.created", "pro", "past_due"),
   Event("subscription.cancelled", None, "active"), Event("payment.failed", None, "active"),
   Event("payment.recovered", None, "active"), Event("payment.recovered", "pro", "active"),
   Event("payment.failed", None, "cancelled"),
   Event("refund.completed", None, "active")}

Setup(operations, policy) ==
  [operations |-> {"createAccount", "createProject"} \cup operations, policy |-> policy]
MCSetups ==
  {Setup({"deleteAccount", "changePlan"}, "restrict"),
   Setup({"bill", "changePlan", "deleteAccount"}, "restrict"), Setup({"bill", "changePlan"}, "grace"),
   Setup({"record", "finalize", "changePlan"}, "restrict"), Setup({"sample", "finalize"}, "restrict"),
   Setup({"act", "deleteAccount"}, "restrict")}
MCSymmetry == Permutations({c1, c2}) \cup Permutations({a1, a2, a3})
=============================================================================
