----------------------------- MODULE ControlPlane -----------------------------
(***************************************************************************)
(* The commercial control plane over one Syncio database: accounts and     *)
(* projects (SyncioControlPlane), billing and payment events               *)
(* (BillingStateProcessor, PaymentOrchestrator.processEvent), payment      *)
(* actions (#action), usage (UsageMeter, RuntimeUsageSampler) and invoices *)
(* (RevenueEngine).  A call reads the collections first and commits one    *)
(* transaction later; transactions run one at a time and are atomic        *)
(* (SyncioDatabase), so what can go wrong lies between the two.            *)
(***************************************************************************)
EXTENDS Integers, FiniteSets, FiniteSetsExt

CONSTANTS
  Accounts, Projects, Emails, Plans, None,
  Free,                  \* the plan of a cancelled or restricted project, one of Plans
  Events,                \* billing events: [project, type, plan, status]
  UsageKeys, ActionKeys, \* idempotency keys of usage and of payment actions
  Callers,               \* calls that may be in flight at once
  Setups,                \* sets of operations and payment policies to explore
  Sizes,                 \* what the sampler may measure
  MaxCalls, MaxTime, Faults, MaxFaults

Status == {"active", "deleted"}
Account == [email : Emails \cup {None}, status : Status]
Project == [account : Accounts, plan : Plans, billing : {"active", "past_due"}, status : Status]
Entitlement == [plan : Plans, source :
  {"plan", "operator", "billing", "payment_failed", "payment_recovered", "other_plan"}]

\* An event that names an unknown plan is refused before anything is written
\* (validatePlan, planEntitlements): it counts as naming none.
ASSUME ControlPlaneAssumption ==
  /\ Free \in Plans /\ None \notin Plans \cup Accounts \cup Projects \cup Emails
  /\ None \notin Account \cup Project \cup Entitlement
  /\ Events \subseteq [project : Projects, type : STRING, plan : Plans \cup {None}, status : STRING]
  /\ Setups \subseteq [operations : SUBSET STRING, policy : {"restrict", "grace"}]
  /\ MaxTime \in Nat /\ MaxCalls \in Nat /\ MaxFaults \in Nat /\ IsFiniteSet(Callers)

VARIABLES
  setup,       \* which operations are called, and failedPaymentPolicy
  accounts, emailKeys, projects, grants, processed,   \* collections
  usage, totals, invoices, actions,                   \* collections
  calls, started, faults,
  now, lastAt,      \* the clock, and the sampler's last reading or -1
  risen,            \* ghost: the time the clock went forward, all in all
  applied,          \* ghost: how often each billing event changed the project
  provided,         \* ghost: how often the provider carried out each action
  unsettled,        \* ghost: reasons to carry out each action again: a call beside another,
                    \* an execution whose success is not on record
  excused,          \* ghost: projects created during the deletion of their account
  lost              \* ghost: time sampled and never recorded

stored == <<accounts, emailKeys, projects, grants, processed>>
metered == <<usage, totals, invoices>>
clock == <<now, risen>>
ghosts == <<applied, provided, unsettled, excused, lost>>
vars == <<setup, stored, metered, actions, calls, started, faults, clock, lastAt, ghosts>>

Idle == [op |-> "idle"]

Init ==
  /\ setup \in Setups
  /\ accounts = [a \in Accounts |-> None] /\ emailKeys = [e \in Emails |-> None]
  /\ projects = [p \in Projects |-> None] /\ grants = [p \in Projects |-> None]
  /\ processed = {} /\ usage = {} /\ totals = [p \in Projects |-> [requests |-> 0, time |-> 0]]
  /\ invoices = [p \in Projects |-> None] /\ actions = [k \in ActionKeys |-> None]
  /\ calls = [c \in Callers |-> Idle] /\ started = 0 /\ faults = 0 /\ now = 0 /\ risen = 0
  /\ lastAt = -1 /\ applied = [e \in Events |-> 0]
  /\ provided = [k \in ActionKeys |-> 0] /\ unsettled = [k \in ActionKeys |-> 0]
  /\ excused = {} /\ lost = 0

Has(record, status) == record # None /\ record.status = status
Active(p) == Has(projects[p], "active")
Pending(op) == {c \in Callers : calls[c].op = op}

\* One more call, that has read what it reads before its transaction.
Start(c, call) ==
  /\ call.op \in setup.operations /\ calls[c] = Idle /\ started < MaxCalls
  /\ calls' = [calls EXCEPT ![c] = call] /\ started' = started + 1
Return(c) == calls' = [calls EXCEPT ![c] = Idle] /\ UNCHANGED <<setup, started, faults, clock>>
Begun == UNCHANGED <<setup, stored, metered, actions, faults, clock, lastAt, ghosts>>

-----------------------------------------------------------------------------
(* Accounts and projects.                                                  *)

\* No transaction of createAccount depends on an earlier read.
CreateAccount(c, a, e) ==
  /\ accounts[a] = None /\ \A d \in Callers : calls[d].op = "createAccount" => calls[d].account # a
  /\ Start(c, [op |-> "createAccount", account |-> a, email |-> e])
  /\ Begun

\* Variant: only the unique key is looked up.
EmailTakenByKey(e) == emailKeys[e] # None

EmailTaken(e) ==
  emailKeys[e] # None \/ \E a \in Accounts : Has(accounts[a], "active") /\ accounts[a].email = e

AccountCreated(c) ==
  LET call == calls[c] IN
  /\ call.op = "createAccount"
  /\ IF EmailTaken(call.email) THEN UNCHANGED stored ELSE
       /\ accounts' = [accounts EXCEPT ![call.account] = [email |-> call.email, status |-> "active"]]
       /\ emailKeys' = [emailKeys EXCEPT ![call.email] = call.account]
       /\ UNCHANGED <<projects, grants, processed>>
  /\ Return(c) /\ UNCHANGED <<metered, actions, lastAt, ghosts>>

CreateProject(c, a, p, plan) ==
  /\ Has(accounts[a], "active")
  /\ projects[p] = None /\ \A d \in Pending("createProject") : calls[d].project # p
  /\ Start(c, [op |-> "createProject", account |-> a, project |-> p, plan |-> plan])
  /\ Begun

Deleting(a) == \E d \in Pending("deleteAccount") : calls[d].account = a

\* Variant: the transaction trusts the read made before it.
OwnedBefore(call) == call.account \in Accounts

\* The account is read again in the transaction.
Owned(call) == Has(accounts[call.account], "active")

ProjectCreated(c) ==
  LET call == calls[c] IN
  /\ call.op = "createProject"
  /\ IF ~Owned(call) THEN UNCHANGED <<stored, excused>> ELSE
       /\ projects' = [projects EXCEPT ![call.project] =
            [account |-> call.account, plan |-> call.plan, billing |-> "active", status |-> "active"]]
       /\ grants' = [grants EXCEPT ![call.project] = [plan |-> call.plan, source |-> "plan"]]
       /\ excused' = IF Deleting(call.account) THEN excused \cup {call.project} ELSE excused
       /\ UNCHANGED <<accounts, emailKeys, processed>>
  /\ Return(c) /\ UNCHANGED <<metered, actions, lastAt, applied, provided, unsettled, lost>>

ChangePlan(c, p, plan) ==
  /\ Active(p)
  /\ Start(c, [op |-> "changePlan", project |-> p, plan |-> plan, seen |-> projects[p]])
  /\ Begun

\* Variant: the project as it was read before the transaction.
CurrentBefore(call) == call.seen

\* The project a plan change writes: what the transaction reads, when it is active.
Current(call) == IF Active(call.project) THEN projects[call.project] ELSE None

PlanChanged(c) ==
  LET call == calls[c]
      current == Current(call)
  IN
  /\ call.op = "changePlan"
  /\ IF current = None THEN UNCHANGED stored ELSE
       /\ projects' = [projects EXCEPT ![call.project] =
            [current EXCEPT !.plan = call.plan, !.billing = "active"]]
       /\ grants' = [grants EXCEPT ![call.project] = [plan |-> call.plan, source |-> "operator"]]
       /\ UNCHANGED <<accounts, emailKeys, processed>>
  /\ Return(c) /\ UNCHANGED <<metered, actions, lastAt, ghosts>>

\* The account and its projects are read before the transaction only.
DeleteAccount(c, a) ==
  /\ accounts[a] # None
  /\ Start(c, [op |-> "deleteAccount", account |-> a, email |-> accounts[a].email, seen |-> projects,
               owned |-> {p \in Projects : projects[p] # None /\ projects[p].account = a}])
  /\ Begun

AccountDeleted(c) ==
  LET call == calls[c] IN
  /\ call.op = "deleteAccount"
  /\ accounts' = [accounts EXCEPT ![call.account] = [email |-> None, status |-> "deleted"]]
  /\ emailKeys' = [e \in Emails |-> IF e = call.email THEN None ELSE emailKeys[e]]
  /\ projects' = [p \in Projects |->
       IF p \in call.owned THEN [call.seen[p] EXCEPT !.status = "deleted"] ELSE projects[p]]
  /\ grants' = [p \in Projects |-> IF p \in call.owned THEN None ELSE grants[p]]
  /\ Return(c) /\ UNCHANGED <<processed, metered, actions, lastAt, ghosts>>

-----------------------------------------------------------------------------
(* Billing and payment events: each is one transaction, delivered any      *)
(* number of times and in any order, to BillingStateProcessor.process      *)
(* ("billing") or to PaymentOrchestrator.processEvent ("payments"), which  *)
(* hands subscriptions on to the other.                                    *)

Deliver(c, e, via) == Start(c, [op |-> "bill", event |-> e, via |-> via]) /\ Begun

\* Variant: a cancellation takes its plan from the event like any other.
TargetPlanNamed(e) == e.plan

\* A creation or an update names its plan; any other event about a subscription is
\* a cancellation.
NamesPlan(e) == e.type \in {"subscription.created", "subscription.updated"}
TargetPlan(e) == IF NamesPlan(e) THEN e.plan ELSE Free

\* The billing processor takes any event whose status is "cancelled" for one.
Subscription(e, via) ==
  \/ NamesPlan(e) \/ e.type = "subscription.cancelled"
  \/ via = "billing" /\ e.status = "cancelled"

\* Any other event throws and changes nothing, as does one without its plan.
Supported(e, via) ==
  \/ Subscription(e, via) /\ (NamesPlan(e) => e.plan # None)
  \/ via = "payments" /\ e.type \in {"payment.failed", "payment.recovered", "refund.completed"}

\* What an event makes of a project, and of its entitlements.
Billed(p, e, via) ==
  CASE Subscription(e, via) ->
         [projects[p] EXCEPT !.plan = TargetPlan(e),
                             !.billing = IF e.status = "past_due" THEN "past_due" ELSE "active"]
    [] ~Subscription(e, via) /\ e.type = "payment.failed" ->
         [projects[p] EXCEPT !.billing = "past_due"]
    [] ~Subscription(e, via) /\ e.type = "payment.recovered" ->
         [projects[p] EXCEPT !.billing = "active"]
    [] OTHER -> projects[p]

\* Variant: a recovered payment leaves the restricted entitlements.
GrantedOnUpdate(p, e, via) ==
  CASE Subscription(e, via) ->
         [plan |-> IF e.status = "past_due" THEN Free ELSE TargetPlan(e), source |-> "billing"]
    [] ~Subscription(e, via) /\ e.type = "payment.failed" /\ setup.policy = "restrict" ->
         [plan |-> Free, source |-> "payment_failed"]
    [] OTHER -> grants[p]

Granted(p, e, via) ==
  CASE Subscription(e, via) ->
         [plan |-> IF e.status = "past_due" THEN Free ELSE TargetPlan(e), source |-> "billing"]
    [] ~Subscription(e, via) /\ e.type = "payment.failed" /\ setup.policy = "restrict" ->
         [plan |-> Free, source |-> "payment_failed"]
    [] ~Subscription(e, via) /\ e.type = "payment.recovered" ->
         [plan |-> IF e.plan = None THEN projects[p].plan ELSE e.plan,
          source |-> IF e.plan \in {None, projects[p].plan} THEN "payment_recovered"
                                                           ELSE "other_plan"]
    [] OTHER -> grants[p]

\* Variant: an event counts as known while the project still has its plan.
KnownByPlan(e) == e \in processed /\ projects[e.project].plan = TargetPlan(e)

Known(e) == e \in processed

EventProcessed(c) ==
  LET call == calls[c]
      e == call.event
      p == e.project
  IN
  /\ call.op = "bill"
  /\ IF Known(e) \/ ~Active(p) \/ ~Supported(e, call.via) THEN UNCHANGED <<stored, applied>> ELSE
       /\ projects' = [projects EXCEPT ![p] = Billed(p, e, call.via)]
       /\ grants' = [grants EXCEPT ![p] = Granted(p, e, call.via)]
       /\ processed' = processed \cup {e}
       /\ applied' = [applied EXCEPT ![e] = @ + 1]
       /\ UNCHANGED <<accounts, emailKeys>>
  /\ Return(c) /\ UNCHANGED <<metered, actions, lastAt, provided, unsettled, excused, lost>>

-----------------------------------------------------------------------------
(* Usage.  A record is [project, metric, key, quantity]; its id is the     *)
(* project, the metric and the key.                                        *)

\* Variant: a repeated key is told from the quantity too.
RecordedAs(u) == u \in usage

Recorded(u) == \E v \in usage : <<v.project, v.metric, v.key>> = <<u.project, u.metric, u.key>>

\* The project is looked up before the transaction only.
RecordUsage(c, p, key, quantity) ==
  /\ Active(p)
  /\ Start(c, [op |-> "record", event |->
                 [project |-> p, metric |-> "requests", key |-> key, quantity |-> quantity,
                  read |-> risen]])
  /\ Begun

UsageRecorded(c) ==
  LET u == calls[c].event IN
  /\ calls[c].op \in {"record", "window"}
  /\ IF Recorded(u) THEN UNCHANGED <<usage, totals>> ELSE
       /\ usage' = usage \cup {u}
       /\ totals' = [totals EXCEPT ![u.project][u.metric] = @ + u.quantity]
  /\ lost' = IF calls[c].op = "window" /\ Recorded(u) THEN lost + u.quantity ELSE lost
  /\ Return(c) /\ UNCHANGED <<stored, invoices, actions, lastAt, applied, provided, unsettled, excused>>

\* Variant: samples are not queued.
SamplerAlways == TRUE

\* sample() runs one at a time on the sampler's queue.
SamplerFree == Pending("sample") \cup Pending("window") = {}

\* The clock is read, then the files are measured.
Sample(c, p) ==
  /\ SamplerFree
  /\ Start(c, [op |-> "sample", project |-> p, at |-> now, read |-> risen]) /\ Begun

\* The window since the last sample is handed to the meter; the next one
\* starts here whether or not it is recorded.  Its key is the clock's reading
\* and the sizes found: one that was there before counts as recorded.
Measured(c) ==
  LET call == calls[c]
      elapsed == IF call.at > lastAt THEN call.at - lastAt ELSE 0
  IN
  /\ call.op = "sample"
  /\ lastAt' = call.at
  /\ IF lastAt = -1 \/ elapsed = 0 THEN calls' = [calls EXCEPT ![c] = Idle] /\ lost' = lost
     ELSE IF ~Active(call.project)
     THEN calls' = [calls EXCEPT ![c] = Idle] /\ lost' = lost + elapsed
     ELSE /\ \E size \in Sizes : calls' = [calls EXCEPT ![c] = [op |-> "window", event |->
               [project |-> call.project, metric |-> "time", key |-> <<call.at, size>>,
                quantity |-> elapsed, read |-> call.read]]]
          /\ lost' = lost
  /\ UNCHANGED <<setup, stored, metered, actions, started, faults, clock, applied, provided,
                 unsettled, excused>>

\* Date.now() may also be set, forward or back.
Tick ==
  /\ "sample" \in setup.operations /\ risen < MaxTime
  /\ now' \in 0..MaxTime /\ now' # now
  /\ now' = now + 1 \/ "clock" \in Faults
  /\ risen' = IF now' > now THEN risen + (now' - now) ELSE risen
  /\ UNCHANGED <<setup, stored, metered, actions, calls, started, faults, lastAt, ghosts>>

-----------------------------------------------------------------------------
(* Invoices and payment actions.                                           *)

\* The estimate is made before the transaction.
FinalizeInvoice(c, p) ==
  /\ Active(p)
  /\ Start(c, [op |-> "finalize", project |-> p, plan |-> projects[p].plan, used |-> totals[p]])
  /\ Begun

\* Variant: the estimate is always stored.
InvoicedNever(p) == FALSE

Invoiced(p) == invoices[p] # None

InvoiceFinalized(c) ==
  LET call == calls[c] IN
  /\ call.op = "finalize"
  /\ invoices' = IF Invoiced(call.project) THEN invoices
                 ELSE [invoices EXCEPT ![call.project] = [plan |-> call.plan, used |-> call.used]]
  /\ Return(c) /\ UNCHANGED <<stored, usage, totals, actions, lastAt, ghosts>>

\* A checkout, portal, cancellation or refund under an idempotency key.
Act(c, p, k) ==
  /\ Active(p) /\ actions[k] # "succeeded"
  /\ unsettled' = IF \E d \in Callers : calls[d].op \in {"act", "answered"} /\ calls[d].key = k
                  THEN [unsettled EXCEPT ![k] = @ + 1] ELSE unsettled
  /\ Start(c, [op |-> "act", key |-> k])
  /\ UNCHANGED <<setup, stored, metered, actions, faults, clock, lastAt, applied, provided,
                 excused, lost>>

\* The provider answers with a result; or run() throws: the provider refused, or
\* its answer was lost; or the result is no object, and nothing is recorded.
\* Whether it acted is not known in the last two cases.
ProviderAnswers(c, answer, acted) ==
  LET call == calls[c]
      k == call.key
  IN
  /\ call.op = "act"
  /\ calls' = [calls EXCEPT ![c] =
       CASE answer = "result" -> [op |-> "answered", key |-> k, status |-> "succeeded"]
         [] answer = "error" -> [op |-> "answered", key |-> k, status |-> "failed"]
         [] answer = "invalid" -> Idle]
  /\ answer = "result" => acted
  /\ provided' = IF acted THEN [provided EXCEPT ![k] = @ + 1] ELSE provided
  /\ unsettled' = IF acted /\ answer # "result" THEN [unsettled EXCEPT ![k] = @ + 1] ELSE unsettled
  /\ UNCHANGED <<setup, stored, metered, actions, started, faults, clock, lastAt, applied, excused,
                 lost>>

\* Variant: what was recorded first is kept: {...action, ...existing}.
MergedFirst(existing, status) == IF existing = None THEN status ELSE existing

\* {...existing, ...action}
Merged(existing, status) == status

ActionRecorded(c) ==
  LET call == calls[c] IN
  /\ call.op = "answered"
  /\ actions' = [actions EXCEPT ![call.key] = Merged(@, call.status)]
  /\ Return(c) /\ UNCHANGED <<stored, metered, lastAt, ghosts>>

-----------------------------------------------------------------------------
(* Faults: a transaction that is refused, and a restart of the process.    *)

Fault(kind) == kind \in Faults /\ faults < MaxFaults /\ faults' = faults + 1

Windows(cs) == MapThenSumSet(LAMBDA c : calls[c].event.quantity, cs \cap Pending("window"))

\* The calls of an action among cs that have a success to record.
Succeeding(cs, k) == {c \in cs \cap Pending("answered") : calls[c].key = k /\ calls[c].status = "succeeded"}

\* The call rejects.  The usage observer and the sampler's timer drop the error.
TransactionFails(c) ==
  /\ calls[c].op \notin {"idle", "act"} /\ Fault("refuse")
  /\ calls' = [calls EXCEPT ![c] = Idle]
  /\ lost' = lost + Windows({c})
  /\ unsettled' = [k \in ActionKeys |-> unsettled[k] + Cardinality(Succeeding({c}, k))]
  /\ UNCHANGED <<setup, stored, metered, actions, started, clock, lastAt, applied, provided, excused>>

\* The provider may have acted for the calls that wait for its answer.
Restart ==
  /\ Fault("restart")
  /\ calls' = [c \in Callers |-> Idle] /\ lastAt' = -1
  /\ lost' = lost + Windows(Callers)
  /\ \E acting \in SUBSET Pending("act") :
       LET done(k) == Cardinality({c \in acting : calls[c].key = k}) IN
       /\ provided' = [k \in ActionKeys |-> provided[k] + done(k)]
       /\ unsettled' = [k \in ActionKeys |->
            unsettled[k] + done(k) + Cardinality(Succeeding(Callers, k))]
  /\ UNCHANGED <<setup, stored, metered, actions, started, clock, applied, excused>>

Call(c) ==
  \/ \E a \in Accounts, e \in Emails : CreateAccount(c, a, e)
  \/ \E a \in Accounts, p \in Projects, plan \in Plans : CreateProject(c, a, p, plan)
  \/ \E p \in Projects, plan \in Plans : ChangePlan(c, p, plan)
  \/ \E a \in Accounts : DeleteAccount(c, a)
  \/ \E e \in Events, via \in {"billing", "payments"} : Deliver(c, e, via)
  \/ \E p \in Projects, key \in UsageKeys, quantity \in {1, 2} : RecordUsage(c, p, key, quantity)
  \/ \E p \in Projects : Sample(c, p) \/ FinalizeInvoice(c, p)
  \/ \E p \in Projects, k \in ActionKeys : Act(c, p, k)

Step(c) ==
  \/ AccountCreated(c) \/ ProjectCreated(c) \/ PlanChanged(c) \/ AccountDeleted(c)
  \/ EventProcessed(c) \/ UsageRecorded(c) \/ Measured(c) \/ InvoiceFinalized(c)
  \/ \E answer \in {"result", "error", "invalid"}, acted \in BOOLEAN : ProviderAnswers(c, answer, acted)
  \/ ActionRecorded(c) \/ TransactionFails(c)

Next == Tick \/ Restart \/ \E c \in Callers : Call(c) \/ Step(c)
Spec == Init /\ [][Next]_vars

-----------------------------------------------------------------------------
\* Every variable has its type.
TypeOK ==
  /\ setup \in Setups
  /\ accounts \in [Accounts -> {None} \cup Account]
  /\ emailKeys \in [Emails -> Accounts \cup {None}]
  /\ projects \in [Projects -> {None} \cup Project]
  /\ grants \in [Projects -> {None} \cup Entitlement] /\ processed \subseteq Events
  /\ \A u \in usage : u.project \in Projects /\ u.metric \in {"requests", "time"} /\ u.quantity > 0
  /\ totals \in [Projects -> [requests : Nat, time : Nat]]
  /\ \A p \in Projects : invoices[p] = None \/ invoices[p].plan \in Plans
  /\ actions \in [ActionKeys -> {None, "succeeded", "failed"}]
  /\ \A c \in Callers : calls[c].op \in {"idle", "window", "answered"} \cup setup.operations
  /\ started \in 0..MaxCalls /\ faults \in 0..MaxFaults
  /\ now \in 0..MaxTime /\ lastAt \in -1..MaxTime /\ risen \in Nat /\ lost \in Nat
  /\ applied \in [Events -> Nat] /\ provided \in [ActionKeys -> Nat]
  /\ unsettled \in [ActionKeys -> Nat] /\ excused \subseteq Projects

\* Two accounts never share an address: createAccount (control-plane.js:32-40)
\* looks it up in its own transaction, by key and by scan, and a deletion
\* that read the account before an earlier one took effect may have removed
\* the key of the account that took the address over.
EmailIsUnique ==
  \A a, b \in Accounts : Has(accounts[a], "active") /\ Has(accounts[b], "active")
                        /\ accounts[a].email = accounts[b].email => a = b

\* A deleted account leaves no active project behind, unless one was created
\* while the deletion was under way: deleteAccount reads the projects before
\* its transaction (control-plane.js:126), createProject reads the account in it.
NoOrphan ==
  \A p \in Projects \ excused : Active(p) => Has(accounts[projects[p].account], "active")

\* Deleted accounts and projects stay deleted, whatever calls were in flight
\* with what they had read before (control-plane.js:33-38, :77-79, :128-135).
DeletedForGood ==
  [][/\ \A a \in Accounts : Has(accounts[a], "deleted") => Has(accounts'[a], "deleted")
     /\ \A p \in Projects : Has(projects[p], "deleted") =>
          Has(projects'[p], "deleted") /\ grants'[p] = None]_vars

\* Plan, billing state and entitlements move together through plan changes,
\* subscription and payment events in any order: an active project in good
\* standing has the grants of its plan, one past due those of the free plan or,
\* under the grace policy, its own.  A recovered payment that names another
\* plan grants it without changing the project's (payments.js:29).
GrantsMatchPlan ==
  \A p \in Projects : Active(p) =>
    /\ grants[p] # None
    /\ grants[p].source # "other_plan" =>
         \/ projects[p].billing = "active" /\ grants[p].plan = projects[p].plan
         \/ projects[p].billing = "past_due"
            /\ (grants[p].plan = Free \/ (setup.policy = "grace" /\ grants[p].plan = projects[p].plan))

\* A billing event delivered twice, with plan changes in between, changes
\* the project once (control-plane.js:156, payments.js:21).
EventAppliedOnce == \A e \in Events : applied[e] <= 1

Quantity(p, metric) ==
  MapThenSumSet(LAMBDA u : u.quantity, {u \in usage : u.project = p /\ u.metric = metric})
KeysOf(p) == {u.key : u \in {v \in usage : v.project = p /\ v.metric = "requests"}}

\* "Duplicate delivery of the same usage event does not create a second
\* charge" (COMMERCIALIZATION.md:40): the totals are the sum of the stored
\* events, one per idempotency key, and an invoice bills no more than them.
ChargedOnce ==
  \A p \in Projects :
    /\ totals[p] = [requests |-> Quantity(p, "requests"), time |-> Quantity(p, "time")]
    /\ totals[p].requests <= 2 * Cardinality(KeysOf(p))
    /\ Invoiced(p) => /\ invoices[p].used.requests <= totals[p].requests
                      /\ invoices[p].used.time <= totals[p].time

\* The windows a sampler meters do not overlap in the time the clock went forward,
\* across timers, closing, restarts and a clock that is set back or forward
\* (usage-sampler.js:14-29): with those in flight or lost to a refused record,
\* they add up to no more than that time.  Set forward, the clock counts what has
\* not passed; set back, windows overlap on its face and a repeated key is lost.
TimeMeteredOnce ==
  LET windows == {u \in usage : u.metric = "time"} IN
  /\ \A u, v \in windows : u # v => u.read <= v.read - v.quantity \/ v.read <= u.read - u.quantity
  /\ MapThenSumSet(LAMBDA u : u.quantity, windows) + Windows(Callers) + lost <= risen

\* An invoice, once made, is the one every later finalization returns
\* (COMMERCIALIZATION.md:65), though each estimates before it looks.
InvoiceIsFinal == [][\A p \in Projects : invoices[p] # None => invoices'[p] = invoices[p]]_vars

\* The provider carries an action out once under its key, and once more at most
\* for each call made beside another one and for each execution whose success is
\* not on record: its answer was lost or no result (payments.js:41-42), its record
\* was refused, the process stopped.  The key goes with every call
\* (payments.js:14-17), so that a provider may know the others for repetitions.
ActionCarriedOutOnce == \A k \in ActionKeys : provided[k] <= 1 + unsettled[k]

\* Accounts, address keys, projects and grants fit together, although calls
\* act on what they read before their transactions.
RecordsAgree == TypeOK /\ EmailIsUnique /\ NoOrphan /\ GrantsMatchPlan

\* Nothing takes effect twice: billing events, usage, metered time, actions.
NothingTwice == EventAppliedOnce /\ ChargedOnce /\ TimeMeteredOnce /\ ActionCarriedOutOnce

\* Deletions and invoices are final.
FinalStays == DeletedForGood /\ InvoiceIsFinal
=============================================================================
