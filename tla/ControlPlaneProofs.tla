--------------------------- MODULE ControlPlaneProofs ---------------------------
(***************************************************************************)
(* Proofs about ControlPlane, for any accounts, projects, plans, billing   *)
(* events, keys, callers and bounds: every property that its run checks.   *)
(*                                                                         *)
(* First the sum of the quantities in a finite set, by induction on its    *)
(* size; then the collections, with what each call in flight may rely on;  *)
(* then what is counted, metered and carried out.                          *)
(***************************************************************************)
EXTENDS ControlPlane, FiniteSetTheorems, WellFoundedInduction, TLAPS

-----------------------------------------------------------------------------
(* Sums.                                                                   *)

Total(S) == MapThenSumSet(LAMBDA u : u.quantity, S)

\* What MapThenSumSet computes on the subsets of S, and what it is to sum them.
IsSum(g, S) ==
  g = [s \in SUBSET S |-> IF s = {} THEN 0
                          ELSE (CHOOSE x \in s : TRUE).quantity + g[s \ {CHOOSE x \in s : TRUE}]]
Adds(g, S) ==
  /\ g \in [SUBSET S -> Nat] /\ g[{}] = 0
  /\ \A s \in SUBSET S : \A x \in s : g[s] = x.quantity + g[s \ {x}]
Quantified(S) == IsFiniteSet(S) /\ \A x \in S : x.quantity \in Nat

LEMMA TotalIs == ASSUME NEW S PROVE Total(S) = (CHOOSE g : IsSum(g, S))[S]
  BY DEF Total, MapThenSumSet, MapThenFoldSet, IsSum

LEMMA Least ==
  ASSUME NEW T \in SUBSET Nat, T # {}
  PROVE  \E n \in T : \A m \in T : ~(m < n)
  <1>1. PICK n \in T : \A m \in T : ~(<<m, n>> \in OpToRel(<, Nat))
    BY NatLessThanWellFounded, WFMin
  <1>2. QED
    BY <1>1 DEF OpToRel

LEMMA SubsetSize ==
  ASSUME NEW S, IsFiniteSet(S), NEW s \in SUBSET S
  PROVE  /\ IsFiniteSet(s) /\ Cardinality(s) \in Nat
         /\ \A x \in s : Cardinality(s \ {x}) < Cardinality(s) /\ Cardinality(s \ {x}) \in Nat
  <1>1. IsFiniteSet(s) /\ Cardinality(s) \in Nat
    BY FS_Subset, FS_CardinalityType
  <1>2. ASSUME NEW x \in s
        PROVE  Cardinality(s \ {x}) < Cardinality(s) /\ Cardinality(s \ {x}) \in Nat
    <2>1. IsFiniteSet(s \ {x}) /\ Cardinality(s \ {x}) = Cardinality(s) - 1
      BY <1>1, FS_RemoveElement
    <2>2. Cardinality(s \ {x}) \in Nat
      BY <2>1, FS_CardinalityType
    <2>3. QED
      BY <1>1, <2>1, <2>2
  <1>3. QED
    BY <1>1, <1>2

LEMMA AddsEmpty == Adds([s \in SUBSET {} |-> 0], {})
  BY DEF Adds

LEMMA AddsOne ==
  ASSUME NEW S, NEW u \in S, \A x \in S : x.quantity \in Nat, NEW g, Adds(g, S \ {u})
  PROVE  Adds([s \in SUBSET S |-> IF u \in s THEN u.quantity + g[s \ {u}] ELSE g[s]], S)
  <1> DEFINE h == [s \in SUBSET S |-> IF u \in s THEN u.quantity + g[s \ {u}] ELSE g[s]]
  <1>1. /\ g \in [SUBSET (S \ {u}) -> Nat] /\ g[{}] = 0
        /\ \A s \in SUBSET (S \ {u}) : \A x \in s : g[s] = x.quantity + g[s \ {x}]
    BY DEF Adds
  <1>2. \A s \in SUBSET S : /\ s \ {u} \in SUBSET (S \ {u})
                            /\ u \notin s => s \in SUBSET (S \ {u})
                            /\ h[s] = IF u \in s THEN u.quantity + g[s \ {u}] ELSE g[s]
    OBVIOUS
  <1>3. h \in [SUBSET S -> Nat]
    BY <1>1, <1>2
  <1>4. h[{}] = 0
    BY <1>1
  <1> HIDE DEF h
  <1>5. ASSUME NEW s \in SUBSET S, NEW x \in s PROVE h[s] = x.quantity + h[s \ {x}]
    <2>1. s \ {x} \in SUBSET S
      OBVIOUS
    <2>2. CASE u \notin s
      <3>1. h[s] = g[s] /\ h[s \ {x}] = g[s \ {x}]
        BY <1>2, <2>1, <2>2
      <3>2. QED
        BY <1>1, <1>2, <2>2, <3>1
    <2>3. CASE x = u
      <3>1. h[s] = u.quantity + g[s \ {u}] /\ h[s \ {u}] = g[s \ {u}]
        BY <1>2, <2>1, <2>3
      <3>2. QED
        BY <2>3, <3>1
    <2>4. CASE u \in s /\ x # u
      <3> DEFINE r == s \ {u}
      <3>1. h[s] = u.quantity + g[r] /\ h[s \ {x}] = u.quantity + g[(s \ {x}) \ {u}]
        BY <1>2, <2>1, <2>4
      <3>2. (s \ {x}) \ {u} = r \ {x} /\ x \in r /\ r \in SUBSET (S \ {u})
        BY <2>4
      <3>3. g[r] = x.quantity + g[r \ {x}] /\ g[r] \in Nat /\ g[r \ {x}] \in Nat
        <4>1. r \ {x} \in SUBSET (S \ {u})
          BY <3>2
        <4>2. QED
          BY <1>1, <3>2, <4>1
      <3>4. u.quantity \in Nat /\ x.quantity \in Nat
        OBVIOUS
      <3> HIDE DEF r
      <3>5. h[s \ {x}] = u.quantity + g[r \ {x}]
        BY <3>1, <3>2
      <3>6. QED
        BY <3>1, <3>3, <3>4, <3>5
    <2>5. QED
      BY <2>2, <2>3, <2>4
  <1>6. Adds(h, S)
    BY <1>3, <1>4, <1>5 DEF Adds
  <1>7. QED
    BY <1>6 DEF h

LEMMA SumsExist == ASSUME NEW S, Quantified(S) PROVE \E g : Adds(g, S)
  <1> DEFINE T == {n \in Nat : \E s \in SUBSET S : Cardinality(s) = n /\ ~\E g : Adds(g, s)}
  <1> SUFFICES ASSUME ~\E g : Adds(g, S) PROVE FALSE
    OBVIOUS
  <1>1. Cardinality(S) \in T
    BY SubsetSize DEF Quantified
  <1>2. PICK n \in T : \A m \in T : ~(m < n)
    BY <1>1, Least
  <1>3. PICK s \in SUBSET S : Cardinality(s) = n /\ ~\E g : Adds(g, s)
    OBVIOUS
  <1>4. s # {}
    BY <1>3, AddsEmpty
  <1>5. PICK u \in s : TRUE
    BY <1>4
  <1>6. Cardinality(s \ {u}) < n /\ Cardinality(s \ {u}) \in Nat /\ s \ {u} \in SUBSET S
    BY <1>3, SubsetSize DEF Quantified
  <1>7. Cardinality(s \ {u}) \notin T
    BY <1>2, <1>6
  <1>8. PICK g : Adds(g, s \ {u})
    BY <1>6, <1>7
  <1>9. \E h : Adds(h, s)
    <2>1. \A x \in s : x.quantity \in Nat
      BY DEF Quantified
    <2>2. QED
      BY <1>8, <2>1, AddsOne
  <1>10. QED
    BY <1>3, <1>9

LEMMA SumIsUnique ==
  ASSUME NEW S, Quantified(S), NEW g, Adds(g, S), NEW h, IsSum(h, S)
  PROVE  h[S] = g[S]
  <1> DEFINE T == {n \in Nat : \E s \in SUBSET S : Cardinality(s) = n /\ h[s] # g[s]}
  <1> SUFFICES ASSUME h[S] # g[S] PROVE FALSE
    OBVIOUS
  <1>1. Cardinality(S) \in T
    BY SubsetSize DEF Quantified
  <1>2. PICK n \in T : \A m \in T : ~(m < n)
    BY <1>1, Least
  <1>3. PICK s \in SUBSET S : Cardinality(s) = n /\ h[s] # g[s]
    OBVIOUS
  <1> DEFINE x == CHOOSE x \in s : TRUE
  <1>4. h[s] = IF s = {} THEN 0 ELSE x.quantity + h[s \ {x}]
    BY DEF IsSum
  <1>5. s # {}
    BY <1>3, <1>4 DEF Adds
  <1>6. x \in s
    BY <1>5
  <1> HIDE DEF x
  <1>7. Cardinality(s \ {x}) < n /\ Cardinality(s \ {x}) \in Nat /\ s \ {x} \in SUBSET S
    BY <1>3, <1>6, SubsetSize DEF Quantified
  <1>8. h[s \ {x}] = g[s \ {x}]
    BY <1>2, <1>7
  <1>9. QED
    BY <1>3, <1>4, <1>5, <1>6, <1>8 DEF Adds

LEMMA AddsIsSum == ASSUME NEW S, NEW g, Adds(g, S) PROVE IsSum(g, S)
  <1>1. ASSUME NEW s \in SUBSET S
        PROVE  g[s] = IF s = {} THEN 0
                      ELSE (CHOOSE x \in s : TRUE).quantity + g[s \ {CHOOSE x \in s : TRUE}]
    <2>1. CASE s = {}
      BY <2>1 DEF Adds
    <2>2. CASE s # {}
      <3>1. (CHOOSE x \in s : TRUE) \in s
        BY <2>2
      <3>2. QED
        BY <2>2, <3>1 DEF Adds
    <2>3. QED
      BY <2>1, <2>2
  <1>2. QED
    BY <1>1 DEF Adds, IsSum

\* The sum does not depend on the order it is taken in.
LEMMA TotalAdds == ASSUME NEW S, Quantified(S), NEW g, Adds(g, S) PROVE Total(S) = g[S]
  <1>1. IsSum(g, S)
    BY AddsIsSum
  <1>2. IsSum(CHOOSE h : IsSum(h, S), S)
    BY <1>1
  <1>3. QED
    BY <1>2, TotalIs, SumIsUnique

\* One element more adds its quantity.
LEMMA TotalGrows ==
  ASSUME NEW S, Quantified(S), NEW u, u \notin S, u.quantity \in Nat
  PROVE  /\ Quantified(S \cup {u})
         /\ Total(S) \in Nat /\ Total(S \cup {u}) = Total(S) + u.quantity
  <1> DEFINE R == S \cup {u}
  <1>1. Quantified(R) /\ R \ {u} = S /\ u \in R
    BY FS_AddElement DEF Quantified
  <1>2. PICK g : Adds(g, S)
    BY SumsExist
  <1> DEFINE h == [s \in SUBSET R |-> IF u \in s THEN u.quantity + g[s \ {u}] ELSE g[s]]
  <1>3. Adds(h, R)
    <2> HIDE DEF R
    <2>1. Adds(g, R \ {u}) /\ u \in R /\ \A x \in R : x.quantity \in Nat
      BY <1>1, <1>2 DEF Quantified
    <2>2. QED
      BY <2>1, AddsOne
  <1>4. h[R] = u.quantity + g[S]
    BY <1>1
  <1> HIDE DEF h, R
  <1>5. Total(S) = g[S] /\ Total(R) = h[R] /\ g[S] \in Nat
    BY <1>1, <1>2, <1>3, TotalAdds DEF Adds
  <1>6. QED
    BY <1>1, <1>4, <1>5 DEF R

LEMMA TotalNone == Total({}) = 0 /\ Quantified({})
  BY AddsEmpty, TotalAdds, FS_EmptySet DEF Quantified

-----------------------------------------------------------------------------
(* The collections and the calls in flight.                                *)

Kept == {None} \cup Project
UsageRecord(u) ==
  /\ u.project \in Projects /\ u.metric \in {"requests", "time"} /\ u.quantity \in Nat \ {0}
  /\ u.metric = "requests" => u.quantity <= 2
  /\ u.read \in Nat
Totals == [requests : Nat, time : Nat]

\* What a call in flight carries.
Carries(call) ==
  /\ call.op \in {"idle", "createAccount", "createProject", "changePlan", "deleteAccount", "bill",
                  "record", "sample", "window", "finalize", "act", "answered"}
  /\ call.op \in {"idle", "window", "answered"} \cup setup.operations
  /\ call.op = "createAccount" => call.account \in Accounts /\ call.email \in Emails
  /\ call.op = "createProject" =>
       call.account \in Accounts /\ call.project \in Projects /\ call.plan \in Plans
  /\ call.op = "changePlan" => call.project \in Projects /\ call.plan \in Plans
  /\ call.op = "deleteAccount" =>
       /\ call.account \in Accounts /\ call.seen \in [Projects -> Kept]
       /\ call.owned \in SUBSET Projects
       /\ \A p \in call.owned : call.seen[p] # None /\ call.seen[p].account = call.account
  /\ call.op = "bill" => call.event \in Events /\ call.via \in {"billing", "payments"}
  /\ call.op = "record" => UsageRecord(call.event) /\ call.event.metric = "requests"
  /\ call.op = "window" => UsageRecord(call.event) /\ call.event.metric = "time"
  /\ call.op = "sample" => call.project \in Projects /\ call.at \in 0..MaxTime /\ call.read \in Nat
  /\ call.op = "finalize" => call.project \in Projects /\ call.plan \in Plans /\ call.used \in Totals
  /\ call.op \in {"act", "answered"} => call.key \in ActionKeys
  /\ call.op = "answered" => call.status \in {"succeeded", "failed"}

\* TypeOK, and what the calls carry.
Typed ==
  /\ setup \in Setups
  /\ accounts \in [Accounts -> {None} \cup Account] /\ emailKeys \in [Emails -> Accounts \cup {None}]
  /\ projects \in [Projects -> Kept] /\ grants \in [Projects -> {None} \cup Entitlement]
  /\ processed \subseteq Events
  /\ \A u \in usage : UsageRecord(u)
  /\ totals \in [Projects -> Totals]
  /\ \A p \in Projects : Invoiced(p) => invoices[p].plan \in Plans /\ invoices[p].used \in Totals
  /\ invoices = [p \in Projects |-> invoices[p]]
  /\ actions \in [ActionKeys -> {None, "succeeded", "failed"}]
  /\ calls = [c \in Callers |-> calls[c]] /\ \A c \in Callers : Carries(calls[c])
  /\ started \in 0..MaxCalls /\ faults \in 0..MaxFaults
  /\ now \in 0..MaxTime /\ lastAt \in -1..MaxTime /\ risen \in Nat /\ lost \in Nat
  /\ applied \in [Events -> Nat] /\ provided \in [ActionKeys -> Nat]
  /\ unsettled \in [ActionKeys -> Nat] /\ excused \subseteq Projects

\* A new call, and a call that returned or went on.
LEMMA CallsAfter ==
  ASSUME calls = [d \in Callers |-> calls[d]], NEW c \in Callers, NEW call,
         calls' = [calls EXCEPT ![c] = call]
  PROVE  /\ calls'[c] = call /\ \A d \in Callers : d # c => calls'[d] = calls[d]
         /\ calls' = [d \in Callers |-> calls'[d]]
  OBVIOUS

\* What every call in flight carries, when one of them begins, goes on or returns.
LEMMA OneCall ==
  ASSUME Typed, NEW c \in Callers, NEW call, calls' = [calls EXCEPT ![c] = call],
         Carries(call)', setup' = setup
  PROVE  calls' = [d \in Callers |-> calls'[d]] /\ \A d \in Callers : Carries(calls[d])'
  <1>2. \A d \in Callers : d # c => Carries(calls[d])' 
    <2> SUFFICES ASSUME NEW d \in Callers, d # c PROVE Carries(calls[d])'
      OBVIOUS
    <2>1. calls'[d] = calls[d] /\ Carries(calls[d])
      BY CallsAfter DEF Typed
    <2>2. QED
      BY <2>1 DEF Carries, UsageRecord
  <1>3. QED
    BY <1>2, CallsAfter DEF Typed

\* The first step of a call changes little but the call.
LEMMA StartTyped ==
  ASSUME Typed, NEW c \in Callers, NEW call, Carries(call), Start(c, call),
         UNCHANGED <<setup, stored, metered, actions, faults, clock, lastAt, applied, provided, excused,
                     lost>>,
         unsettled' \in [ActionKeys -> Nat]
  PROVE  Typed'
  <1>1. calls' = [calls EXCEPT ![c] = call] /\ started' \in 0..MaxCalls
    BY ControlPlaneAssumption DEF Start, Typed
  <1>2. Carries(call)'
    BY DEF Carries, UsageRecord
  <1>3. calls' = [d \in Callers |-> calls'[d]] /\ \A d \in Callers : Carries(calls[d])'
    BY <1>1, <1>2, OneCall
  <1>4. /\ \A u \in usage' : UsageRecord(u)'
        /\ \A p \in Projects : Invoiced(p)' => invoices'[p].plan \in Plans /\ invoices'[p].used \in Totals
    BY DEF Typed, UsageRecord, metered, Invoiced
  <1>5. QED
    BY <1>1, <1>3, <1>4 DEF Typed, stored, metered, clock

LEMMA CallTyped == ASSUME Typed, NEW c \in Callers, Call(c) PROVE Typed'
  <1> USE DEF Begun, ghosts
  <1>1. ASSUME NEW a \in Accounts, NEW e \in Emails, CreateAccount(c, a, e) PROVE Typed'
    <2> DEFINE call == [op |-> "createAccount", account |-> a, email |-> e]
    <2>1. Start(c, call) /\ call.op \in setup.operations
      BY <1>1 DEF CreateAccount, Start
    <2>2. Carries(call)
      BY <2>1 DEF Carries
    <2> HIDE DEF call
    <2>3. QED
      BY <1>1, <2>1, <2>2, StartTyped DEF CreateAccount, Typed
  <1>2. ASSUME NEW a \in Accounts, NEW p \in Projects, NEW plan \in Plans,
               CreateProject(c, a, p, plan) PROVE Typed'
    <2> DEFINE call == [op |-> "createProject", account |-> a, project |-> p, plan |-> plan]
    <2>1. Start(c, call) /\ call.op \in setup.operations
      BY <1>2 DEF CreateProject, Start
    <2>2. Carries(call)
      BY <2>1 DEF Carries
    <2> HIDE DEF call
    <2>3. QED
      BY <1>2, <2>1, <2>2, StartTyped DEF CreateProject, Typed
  <1>3. ASSUME NEW p \in Projects, NEW plan \in Plans, ChangePlan(c, p, plan) PROVE Typed'
    <2> DEFINE call == [op |-> "changePlan", project |-> p, plan |-> plan, seen |-> projects[p]]
    <2>1. Start(c, call) /\ call.op \in setup.operations
      BY <1>3 DEF ChangePlan, Start
    <2>2. Carries(call)
      BY <2>1 DEF Carries
    <2> HIDE DEF call
    <2>3. QED
      BY <1>3, <2>1, <2>2, StartTyped DEF ChangePlan, Typed
  <1>4. ASSUME NEW a \in Accounts, DeleteAccount(c, a) PROVE Typed'
    <2> DEFINE call == [op |-> "deleteAccount", account |-> a, email |-> accounts[a].email,
               seen |-> projects,
               owned |-> {p \in Projects : projects[p] # None /\ projects[p].account = a}]
    <2>1. Start(c, call) /\ call.op \in setup.operations
      BY <1>4 DEF DeleteAccount, Start
    <2>2. Carries(call)
      BY <2>1 DEF Carries, Typed
    <2> HIDE DEF call
    <2>3. QED
      BY <1>4, <2>1, <2>2, StartTyped DEF DeleteAccount, Typed
  <1>5. ASSUME NEW e \in Events, NEW via \in {"billing", "payments"}, Deliver(c, e, via) PROVE Typed'
    <2> DEFINE call == [op |-> "bill", event |-> e, via |-> via]
    <2>1. Start(c, call) /\ call.op \in setup.operations
      BY <1>5 DEF Deliver, Start
    <2>2. Carries(call)
      BY <2>1 DEF Carries
    <2> HIDE DEF call
    <2>3. QED
      BY <1>5, <2>1, <2>2, StartTyped DEF Deliver, Typed
  <1>6. ASSUME NEW p \in Projects, NEW key \in UsageKeys, NEW quantity \in {1, 2},
               RecordUsage(c, p, key, quantity) PROVE Typed'
    <2> DEFINE u == [project |-> p, metric |-> "requests", key |-> key, quantity |-> quantity,
                     read |-> risen]
               call == [op |-> "record", event |-> u]
    <2>1. Start(c, call) /\ call.op \in setup.operations
      BY <1>6 DEF RecordUsage, Start
    <2>2. UsageRecord(u) /\ u.metric = "requests"
      BY DEF UsageRecord, Typed
    <2> HIDE DEF u
    <2>3. Carries(call)
      BY <2>1, <2>2 DEF Carries
    <2> HIDE DEF call
    <2>4. QED
      BY <1>6, <2>1, <2>3, StartTyped DEF RecordUsage, Typed
  <1>7. ASSUME NEW p \in Projects, Sample(c, p) PROVE Typed'
    <2> DEFINE call == [op |-> "sample", project |-> p, at |-> now, read |-> risen]
    <2>1. Start(c, call) /\ call.op \in setup.operations
      BY <1>7 DEF Sample, Start
    <2>2. Carries(call)
      BY <2>1, ControlPlaneAssumption DEF Carries, Typed
    <2> HIDE DEF call
    <2>3. QED
      BY <1>7, <2>1, <2>2, StartTyped DEF Sample, Typed
  <1>8. ASSUME NEW p \in Projects, FinalizeInvoice(c, p) PROVE Typed'
    <2> DEFINE call == [op |-> "finalize", project |-> p, plan |-> projects[p].plan, used |-> totals[p]]
    <2>1. Start(c, call) /\ call.op \in setup.operations
      BY <1>8 DEF FinalizeInvoice, Start
    <2>2. projects[p].plan \in Plans /\ totals[p] \in Totals
      BY <1>8 DEF FinalizeInvoice, Active, Has, Typed, Kept, Project
    <2>3. Carries(call)
      BY <2>1, <2>2 DEF Carries
    <2> HIDE DEF call
    <2>4. QED
      BY <1>8, <2>1, <2>3, StartTyped DEF FinalizeInvoice, Typed
  <1>9. ASSUME NEW p \in Projects, NEW k \in ActionKeys, Act(c, p, k) PROVE Typed'
    <2> DEFINE call == [op |-> "act", key |-> k]
    <2>1. Start(c, call) /\ call.op \in setup.operations
      BY <1>9 DEF Act, Start
    <2>2. Carries(call)
      BY <2>1 DEF Carries
    <2> HIDE DEF call
    <2>3. unsettled' \in [ActionKeys -> Nat]
      BY <1>9 DEF Act, Typed
    <2>4. UNCHANGED <<setup, stored, metered, actions, faults, clock, lastAt, applied, provided,
                      excused, lost>>
      BY <1>9 DEF Act
    <2>5. QED
      BY <2>1, <2>2, <2>3, <2>4, StartTyped
  <1>10. QED
    BY <1>1, <1>2, <1>3, <1>4, <1>5, <1>6, <1>7, <1>8, <1>9 DEF Call

LEMMA ReturnTyped ==
  ASSUME Typed, NEW c \in Callers, Return(c)
  PROVE  /\ calls' = [d \in Callers |-> calls'[d]] /\ \A d \in Callers : Carries(calls[d])'
         /\ setup' \in Setups /\ started' \in 0..MaxCalls /\ faults' \in 0..MaxFaults
         /\ now' \in 0..MaxTime /\ risen' \in Nat
  <1>1. Carries(Idle)'
    BY DEF Carries, Idle
  <1>2. QED
    BY <1>1, OneCall DEF Return, Typed, clock

\* What a transaction leaves alone keeps its type.
LEMMA RestTyped ==
  ASSUME Typed
  PROVE  /\ UNCHANGED stored => /\ accounts' \in [Accounts -> {None} \cup Account]
                                /\ emailKeys' \in [Emails -> Accounts \cup {None}]
                                /\ projects' \in [Projects -> Kept]
                                /\ grants' \in [Projects -> {None} \cup Entitlement]
                                /\ processed' \subseteq Events
         /\ usage' = usage => \A u \in usage' : UsageRecord(u)'
         /\ totals' = totals => totals' \in [Projects -> Totals]
         /\ invoices' = invoices =>
              /\ \A p \in Projects :
                   Invoiced(p)' => invoices'[p].plan \in Plans /\ invoices'[p].used \in Totals
              /\ invoices' = [p \in Projects |-> invoices'[p]]
         /\ actions' = actions => actions' \in [ActionKeys -> {None, "succeeded", "failed"}]
         /\ applied' = applied => applied' \in [Events -> Nat]
         /\ UNCHANGED <<provided, unsettled>> =>
              provided' \in [ActionKeys -> Nat] /\ unsettled' \in [ActionKeys -> Nat]
         /\ excused' = excused => excused' \subseteq Projects
         /\ lost' = lost => lost' \in Nat
         /\ lastAt' = lastAt => lastAt' \in -1..MaxTime
         /\ UNCHANGED clock => now' \in 0..MaxTime /\ risen' \in Nat
  BY DEF Typed, clock, stored, UsageRecord, Invoiced

LEMMA CreatedTyped ==
  ASSUME Typed, NEW c \in Callers, AccountCreated(c) \/ ProjectCreated(c) PROVE Typed'
  <1>1. Return(c) /\ Carries(calls[c]) /\ UNCHANGED <<metered, actions, lastAt, applied,
               provided, unsettled, lost>>
    BY DEF AccountCreated, ProjectCreated, Return, Typed, ghosts
  <1>2. CASE AccountCreated(c)
    <2>1. calls[c].account \in Accounts /\ calls[c].email \in Emails
      BY <1>1, <1>2 DEF AccountCreated, Carries
    <2>2. [email |-> calls[c].email, status |-> "active"] \in Account
      BY <2>1 DEF Account, Status
    <2>3. /\ accounts' \in [Accounts -> {None} \cup Account]
          /\ emailKeys' \in [Emails -> Accounts \cup {None}]
          /\ UNCHANGED <<projects, grants, processed, excused>>
      BY <1>2, <2>1, <2>2 DEF AccountCreated, Typed, stored, ghosts
    <2>4. QED
      BY <1>1, <2>3, ReturnTyped, RestTyped DEF Typed, metered
  <1>3. CASE ProjectCreated(c)
    <2>1. calls[c].account \in Accounts /\ calls[c].project \in Projects /\ calls[c].plan \in Plans
      BY <1>1, <1>3 DEF ProjectCreated, Carries
    <2>2. /\ [account |-> calls[c].account, plan |-> calls[c].plan, billing |-> "active",
              status |-> "active"] \in Project
          /\ [plan |-> calls[c].plan, source |-> "plan"] \in Entitlement
      BY <2>1 DEF Project, Status, Entitlement
    <2>3. /\ projects' \in [Projects -> Kept] /\ grants' \in [Projects -> {None} \cup Entitlement]
          /\ UNCHANGED <<accounts, emailKeys, processed>>
          /\ excused' \subseteq Projects
      BY <1>3, <2>1, <2>2 DEF ProjectCreated, Typed, stored, Kept
    <2>4. QED
      BY <1>1, <2>3, ReturnTyped, RestTyped DEF Typed, metered
  <1>4. QED
    BY <1>2, <1>3

LEMMA PlanTyped == ASSUME Typed, NEW c \in Callers, PlanChanged(c) PROVE Typed'
  <1>1. Return(c) /\ Carries(calls[c]) /\ UNCHANGED <<metered, actions, lastAt, ghosts>>
    BY DEF PlanChanged, Return, Typed
  <1>2. calls[c].project \in Projects /\ calls[c].plan \in Plans
    BY <1>1 DEF PlanChanged, Carries
  <1> DEFINE current == Current(calls[c])
  <1>3. current # None => current \in Project
    BY <1>2 DEF Current, Active, Has, Typed, Kept
  <1>4. current # None => [current EXCEPT !.plan = calls[c].plan, !.billing = "active"] \in Project
    BY <1>2, <1>3 DEF Project
  <1>5. [plan |-> calls[c].plan, source |-> "operator"] \in Entitlement
    BY <1>2 DEF Entitlement
  <1>6. /\ projects' \in [Projects -> Kept] /\ grants' \in [Projects -> {None} \cup Entitlement]
        /\ UNCHANGED <<accounts, emailKeys, processed>>
    BY <1>2, <1>4, <1>5 DEF PlanChanged, Typed, stored, Kept
  <1>7. QED
    BY <1>1, <1>6, ReturnTyped, RestTyped DEF Typed, metered, ghosts

LEMMA DeletedTyped == ASSUME Typed, NEW c \in Callers, AccountDeleted(c) PROVE Typed'
  <1>1. Return(c) /\ Carries(calls[c])
        /\ UNCHANGED <<processed, metered, actions, lastAt, ghosts>>
    BY DEF AccountDeleted, Return, Typed
  <1> DEFINE call == calls[c]
  <1>2. /\ call.account \in Accounts /\ call.seen \in [Projects -> Kept]
        /\ \A p \in call.owned : call.seen[p] # None
    BY <1>1 DEF AccountDeleted, Carries
  <1>3. projects' \in [Projects -> Kept]
    <2>1. ASSUME NEW p \in Projects, p \in call.owned
          PROVE  [call.seen[p] EXCEPT !.status = "deleted"] \in Project
      <3>1. call.seen[p] \in Project
        BY <1>2, <2>1 DEF Kept
      <3>2. QED
        BY <3>1 DEF Project, Status
    <2>2. QED
      BY <2>1 DEF AccountDeleted, Typed, Kept
  <1>4. accounts' \in [Accounts -> {None} \cup Account]
    <2>1. [email |-> None, status |-> "deleted"] \in Account
      BY DEF Account, Status
    <2>2. QED
      BY <2>1 DEF AccountDeleted, Typed
  <1>5. emailKeys' \in [Emails -> Accounts \cup {None}] /\ grants' \in [Projects -> {None} \cup Entitlement]
    BY DEF AccountDeleted, Typed
  <1>6. QED
    BY <1>1, <1>3, <1>4, <1>5, ReturnTyped, RestTyped DEF Typed, metered, ghosts

LEMMA BilledType ==
  ASSUME Typed, NEW e \in Events, NEW via, Supported(e, via), NEW p \in Projects, projects[p] # None
  PROVE  Billed(p, e, via) \in Project /\ Granted(p, e, via) \in {None} \cup Entitlement
  <1>1. projects[p] \in Project /\ grants[p] \in {None} \cup Entitlement
    BY DEF Typed, Kept
  <1>2. e.plan \in Plans \cup {None}
    BY ControlPlaneAssumption
  <1>3. Subscription(e, via) => TargetPlan(e) \in Plans
    <2> SUFFICES ASSUME Subscription(e, via) PROVE TargetPlan(e) \in Plans
      OBVIOUS
    <2>1. CASE NamesPlan(e)
      <3>1. e.plan # None
        BY <2>1 DEF Supported, Subscription, NamesPlan
      <3>2. QED
        BY <1>2, <2>1, <3>1 DEF TargetPlan
    <2>2. CASE ~NamesPlan(e)
      BY <2>2, ControlPlaneAssumption DEF TargetPlan
    <2>3. QED
      BY <2>1, <2>2
  <1>4. Billed(p, e, via) \in Project
    BY <1>1, <1>3 DEF Billed, Project
  <1>5. projects[p].plan \in Plans
    BY <1>1 DEF Project
  <1>6. Granted(p, e, via) \in {None} \cup Entitlement
    BY <1>1, <1>2, <1>3, <1>5, ControlPlaneAssumption DEF Granted, Entitlement
  <1>7. QED
    BY <1>4, <1>6

LEMMA EventTyped == ASSUME Typed, NEW c \in Callers, EventProcessed(c) PROVE Typed'
  <1> DEFINE e == calls[c].event
             p == e.project
             via == calls[c].via
  <1>1. Return(c) /\ Carries(calls[c])
        /\ UNCHANGED <<metered, actions, lastAt, provided, unsettled, excused, lost>>
    BY DEF EventProcessed, Return, Typed
  <1>2. e \in Events /\ p \in Projects
    BY <1>1, ControlPlaneAssumption DEF EventProcessed, Carries
  <1>3. CASE Known(e) \/ ~Active(p) \/ ~Supported(e, via)
    BY <1>1, <1>3, ReturnTyped, RestTyped DEF EventProcessed, Typed, metered, stored
  <1>4. CASE ~(Known(e) \/ ~Active(p) \/ ~Supported(e, via))
    <2>1. Billed(p, e, via) \in Project /\ Granted(p, e, via) \in {None} \cup Entitlement
      BY <1>2, <1>4, BilledType DEF Active, Has
    <2> HIDE DEF e, p, via
    <2>2. /\ projects' = [projects EXCEPT ![p] = Billed(p, e, via)]
          /\ grants' = [grants EXCEPT ![p] = Granted(p, e, via)]
          /\ processed' = processed \cup {e} /\ applied' = [applied EXCEPT ![e] = @ + 1]
          /\ UNCHANGED <<accounts, emailKeys>>
      BY <1>4 DEF EventProcessed, e, p, via
    <2>3. /\ projects' \in [Projects -> Kept] /\ grants' \in [Projects -> {None} \cup Entitlement]
          /\ processed' \subseteq Events /\ applied' \in [Events -> Nat]
          /\ UNCHANGED <<accounts, emailKeys>>
      BY <1>2, <2>1, <2>2 DEF Typed, Kept
    <2>4. QED
      BY <1>1, <2>3, ReturnTyped, RestTyped DEF Typed, metered
  <1>5. QED
    BY <1>3, <1>4

LEMMA UsageTyped == ASSUME Typed, NEW c \in Callers, UsageRecorded(c) PROVE Typed'
  <1>0. PICK u : u = calls[c].event
    OBVIOUS
  <1>1. Return(c) /\ Carries(calls[c])
        /\ UNCHANGED <<stored, invoices, actions, lastAt, applied, provided, unsettled, excused>>
    BY DEF UsageRecorded, Return, Typed
  <1>2. UsageRecord(u)
    BY <1>0, <1>1 DEF UsageRecorded, Carries
  <1>3. usage' = usage \/ usage' = usage \cup {u}
    BY <1>0 DEF UsageRecorded
  <1>4. totals' = totals \/ totals' = [totals EXCEPT ![u.project][u.metric] = @ + u.quantity]
    BY <1>0 DEF UsageRecorded
  <1>5. lost' = lost \/ lost' = lost + u.quantity
    BY <1>0 DEF UsageRecorded
  <1>6. lost \in Nat /\ u.quantity \in Nat /\ u.project \in Projects /\ u.metric \in {"requests", "time"}
    BY <1>2 DEF Typed, UsageRecord
  <1>7. \A v \in usage' : UsageRecord(v)'
    <2> SUFFICES ASSUME NEW v \in usage' PROVE UsageRecord(v)'
      OBVIOUS
    <2>1. CASE v \in usage
      <3>1. UsageRecord(v)
        BY <2>1 DEF Typed
      <3>2. QED
        BY <1>1, <3>1 DEF UsageRecord
    <2>2. CASE v = u
      <3>1. UsageRecord(u)
        BY <1>2
      <3>2. QED
        BY <2>2, <3>1 DEF UsageRecord
    <2>3. QED
      BY <1>3, <2>1, <2>2
  <1>8. totals' \in [Projects -> Totals]
    <2>1. totals \in [Projects -> Totals] /\ totals[u.project] \in Totals
      BY <1>6 DEF Typed
    <2>2. [totals[u.project] EXCEPT ![u.metric] = @ + u.quantity] \in Totals
      BY <1>6, <2>1 DEF Totals
    <2>3. QED
      BY <1>4, <1>6, <2>1, <2>2
  <1>9. lost' \in Nat
    BY <1>5, <1>6
  <1>10. QED
    BY <1>1, <1>7, <1>8, <1>9, ReturnTyped, RestTyped DEF Typed, stored

LEMMA MeasuredTyped == ASSUME Typed, NEW c \in Callers, Measured(c) PROVE Typed'
  <1> DEFINE call == calls[c]
             record(size, elapsed) == [project |-> call.project, metric |-> "time",
               key |-> <<call.at, size>>, quantity |-> elapsed, read |-> call.read]
  <1>10. PICK elapsed : elapsed = IF call.at > lastAt THEN call.at - lastAt ELSE 0
    OBVIOUS
  <1>1. /\ call.op = "sample" /\ Carries(call) /\ call.project \in Projects
        /\ call.at \in 0..MaxTime /\ call.at \in Nat /\ call.read \in Nat
        /\ lastAt' = call.at /\ setup' = setup
        /\ lastAt \in Int /\ lost \in Nat /\ started' = started /\ faults' = faults
        /\ UNCHANGED <<stored, metered, actions, clock, applied, provided, unsettled, excused>>
    BY ControlPlaneAssumption DEF Measured, Typed, Carries
  <1>2. elapsed \in Nat
    BY <1>1, <1>10
  <1>3. \/ calls' = [calls EXCEPT ![c] = Idle]
        \/ \E size \in Sizes : calls' = [calls EXCEPT ![c] = [op |-> "window", event |-> record(size, elapsed)]]
           /\ elapsed # 0
    BY <1>10 DEF Measured
  <1>4. lost' = lost \/ lost' = lost + elapsed
    BY <1>10 DEF Measured
  <1>5. ASSUME NEW u, u \in {record(size, elapsed) : size \in Sizes}, elapsed # 0
        PROVE  Carries([op |-> "window", event |-> u])'
    <2>1. UsageRecord(u) /\ u.metric = "time"
      BY <1>1, <1>2, <1>5 DEF UsageRecord
    <2> HIDE DEF record
    <2>2. QED
      BY <2>1 DEF Carries, UsageRecord
  <1>6. Carries(Idle)'
    BY DEF Carries, Idle
  <1> HIDE DEF record
  <1>7. PICK next : calls' = [calls EXCEPT ![c] = next] /\ Carries(next)'
    <2>1. CASE calls' = [calls EXCEPT ![c] = Idle]
      <3>1. PICK next : next = Idle
        OBVIOUS
      <3>2. Carries(next)'
        BY <3>1 DEF Carries, Idle
      <3>3. QED
        BY <2>1, <3>1, <3>2
    <2>2. ASSUME NEW size \in Sizes, elapsed # 0,
                 calls' = [calls EXCEPT ![c] = [op |-> "window", event |-> record(size, elapsed)]]
          PROVE  \E next : calls' = [calls EXCEPT ![c] = next] /\ Carries(next)'
      <3>1. PICK u : u = record(size, elapsed)
        OBVIOUS
      <3>2. Carries([op |-> "window", event |-> u])'
        BY <1>5, <2>2, <3>1
      <3>3. QED
        BY <2>2, <3>1, <3>2
    <2>3. QED
      BY <1>3, <2>1, <2>2
  <1>70. calls' = [d \in Callers |-> calls'[d]] /\ \A d \in Callers : Carries(calls[d])'
    BY <1>1, <1>7, OneCall
  <1>8. lost' \in Nat /\ lastAt' \in -1..MaxTime
    BY <1>1, <1>2, <1>4
  <1>9. QED
    BY <1>1, <1>70, <1>8, RestTyped DEF Typed, stored, metered

LEMMA InvoiceTyped == ASSUME Typed, NEW c \in Callers, InvoiceFinalized(c) PROVE Typed'
  <1> DEFINE call == calls[c]
  <1>1. Return(c) /\ Carries(calls[c])
        /\ UNCHANGED <<stored, usage, totals, actions, lastAt, ghosts>>
    BY DEF InvoiceFinalized, Return, Typed
  <1>2. call.plan \in Plans /\ call.used \in Totals
    BY <1>1 DEF InvoiceFinalized, Carries
  <1>3. invoices' = invoices
        \/ invoices' = [invoices EXCEPT ![call.project] = [plan |-> call.plan, used |-> call.used]]
    BY DEF InvoiceFinalized
  <1> HIDE DEF call
  <1>4. /\ invoices' = [p \in Projects |-> invoices'[p]]
        /\ \A p \in Projects :
             \/ invoices'[p] = invoices[p]
             \/ invoices'[p] = [plan |-> call.plan, used |-> call.used]
    BY <1>3 DEF Typed
  <1>5. \A p \in Projects :
          Invoiced(p)' => invoices'[p].plan \in Plans /\ invoices'[p].used \in Totals
    BY <1>2, <1>4 DEF Typed, Invoiced
  <1>6. QED
    BY <1>1, <1>4, <1>5, ReturnTyped, RestTyped DEF Typed, stored, ghosts

LEMMA ActionTyped ==
  ASSUME Typed, NEW c \in Callers,
         \/ ActionRecorded(c)
         \/ \E answer \in {"result", "error", "invalid"}, acted \in BOOLEAN : ProviderAnswers(c, answer, acted)
  PROVE  Typed'
  <1>1. Carries(calls[c])
    BY DEF Typed
  <1>2. CASE ActionRecorded(c)
    <2>1. Return(c) /\ UNCHANGED <<stored, metered, lastAt, ghosts>>
      BY <1>2 DEF ActionRecorded, Return
    <2>2. calls[c].key \in ActionKeys /\ calls[c].status \in {"succeeded", "failed"}
      BY <1>1, <1>2 DEF ActionRecorded, Carries
    <2>3. actions' \in [ActionKeys -> {None, "succeeded", "failed"}]
      BY <1>2, <2>2 DEF ActionRecorded, Merged, Typed
    <2>4. QED
      BY <2>1, <2>3, ReturnTyped, RestTyped DEF Typed, stored, metered, ghosts
  <1>3. ASSUME NEW answer \in {"result", "error", "invalid"}, NEW acted \in BOOLEAN,
               ProviderAnswers(c, answer, acted)
        PROVE  Typed'
    <2>1. /\ calls[c].key \in ActionKeys
          /\ UNCHANGED <<setup, stored, metered, actions, started, faults, clock, lastAt, applied, excused,
                         lost>>
      BY <1>1, <1>3 DEF ProviderAnswers, Carries
    <2>2. PICK call : calls' = [calls EXCEPT ![c] = call] /\ Carries(call)'
      <3>0. PICK k : k = calls[c].key
        OBVIOUS
      <3>1. \/ calls' = [calls EXCEPT ![c] = [op |-> "answered", key |-> k, status |-> "succeeded"]]
            \/ calls' = [calls EXCEPT ![c] = [op |-> "answered", key |-> k, status |-> "failed"]]
            \/ calls' = [calls EXCEPT ![c] = Idle]
        BY <1>3, <3>0 DEF ProviderAnswers
      <3>2. /\ Carries([op |-> "answered", key |-> k, status |-> "succeeded"])'
            /\ Carries([op |-> "answered", key |-> k, status |-> "failed"])'
            /\ Carries([op |-> "idle"])'
        BY <2>1, <3>0 DEF Carries
      <3>3. QED
        BY <3>1, <3>2 DEF Idle
    <2>3. calls' = [d \in Callers |-> calls'[d]] /\ \A d \in Callers : Carries(calls[d])'
      BY <2>1, <2>2, OneCall
    <2>4. provided' \in [ActionKeys -> Nat] /\ unsettled' \in [ActionKeys -> Nat]
      BY <1>3, <2>1 DEF ProviderAnswers, Typed
    <2>5. QED
      BY <2>1, <2>3, <2>4, RestTyped DEF Typed, stored, metered
  <1>4. QED
    BY <1>2, <1>3

-----------------------------------------------------------------------------
(* The sampler works on one sample at a time, so there is one window at    *)
(* most to sum.                                                            *)

Sampling(c) == calls[c].op \in {"sample", "window"}
Serial == \A c, d \in Callers : Sampling(c) /\ Sampling(d) => c = d

LEMMA NoWindow == ASSUME NEW cs, cs \cap Pending("window") = {} PROVE Windows(cs) = 0
  <1> DEFINE Is(g) == g = [s \in SUBSET {} |-> IF s = {} THEN 0 ELSE
               calls[CHOOSE x \in s : TRUE].event.quantity + g[s \ {CHOOSE x \in s : TRUE}]]
  <1>1. Windows(cs) = (CHOOSE g : Is(g))[{}]
    BY DEF Windows, MapThenSumSet, MapThenFoldSet
  <1>2. Is([s \in SUBSET {} |-> 0])
    OBVIOUS
  <1>3. Is(CHOOSE g : Is(g))
    BY <1>2
  <1>4. QED
    BY <1>1, <1>3

LEMMA OneWindow ==
  ASSUME NEW cs, NEW c, cs \cap Pending("window") = {c}, calls[c].event.quantity \in Nat
  PROVE  Windows(cs) = calls[c].event.quantity
  <1> DEFINE q == calls[c].event.quantity
             Is(g) == g = [s \in SUBSET {c} |-> IF s = {} THEN 0 ELSE
               calls[CHOOSE x \in s : TRUE].event.quantity + g[s \ {CHOOSE x \in s : TRUE}]]
             sum == [s \in SUBSET {c} |-> IF s = {} THEN 0 ELSE q]
  <1>1. Windows(cs) = (CHOOSE g : Is(g))[{c}]
    BY DEF Windows, MapThenSumSet, MapThenFoldSet
  <1>2. \A s \in SUBSET {c} : s = {} \/ (s = {c} /\ (CHOOSE x \in s : TRUE) = c)
    OBVIOUS
  <1>3. Is(sum)
    <2>1. sum[{}] = 0
      OBVIOUS
    <2>2. ASSUME NEW s \in SUBSET {c}
          PROVE  sum[s] = IF s = {} THEN 0 ELSE
                   calls[CHOOSE x \in s : TRUE].event.quantity + sum[s \ {CHOOSE x \in s : TRUE}]
      BY <1>2, <2>1
    <2>3. QED
      BY <2>2
  <1>4. Is(CHOOSE g : Is(g))
    <2> HIDE DEF Is, sum
    <2>1. QED
      BY <1>3
  <1> DEFINE g == CHOOSE g : Is(g)
  <1>5. g[{}] = 0
    BY <1>4
  <1>6. g[{c}] = q + g[{}]
    <2>1. g[{c}] = IF {c} = {} THEN 0 ELSE
             calls[CHOOSE x \in {c} : TRUE].event.quantity + g[{c} \ {CHOOSE x \in {c} : TRUE}]
      BY <1>4
    <2>2. (CHOOSE x \in {c} : TRUE) = c /\ {c} \ {c} = {} /\ {c} # {}
      BY <1>2
    <2> HIDE DEF g
    <2>3. QED
      BY <2>1, <2>2
  <1> HIDE DEF g
  <1>7. QED
    BY <1>1, <1>5, <1>6 DEF g

LEMMA WindowsAre ==
  ASSUME Typed, Serial, NEW cs \in SUBSET Callers
  PROVE  /\ Windows(cs) \in Nat
         /\ (\A c \in cs : calls[c].op # "window") => Windows(cs) = 0
         /\ \A c \in cs : calls[c].op = "window" =>
              /\ Windows(cs) = calls[c].event.quantity
              /\ UsageRecord(calls[c].event) /\ calls[c].event.metric = "time"
  <1>1. CASE \A c \in cs : calls[c].op # "window"
    <2>1. cs \cap Pending("window") = {}
      BY <1>1 DEF Pending
    <2>2. QED
      BY <1>1, <2>1, NoWindow
  <1>2. ASSUME NEW c \in cs, calls[c].op = "window"
        PROVE  /\ Windows(cs) = calls[c].event.quantity
               /\ UsageRecord(calls[c].event) /\ calls[c].event.metric = "time"
               /\ calls[c].event.quantity \in Nat
    <2>1. cs \cap Pending("window") = {c}
      BY <1>2 DEF Pending, Serial, Sampling
    <2>2. UsageRecord(calls[c].event) /\ calls[c].event.metric = "time"
      BY <1>2 DEF Typed, Carries
    <2>3. calls[c].event.quantity \in Nat
      BY <2>2 DEF UsageRecord
    <2>4. QED
      BY <2>1, <2>2, <2>3, OneWindow
  <1>3. QED
    BY <1>1, <1>2

\* How many calls of a key the provider may have acted for, or succeeded at.
LEMMA FewCalls == ASSUME NEW S \in SUBSET Callers PROVE IsFiniteSet(S) /\ Cardinality(S) \in Nat
  BY FS_Subset, FS_CardinalityType, ControlPlaneAssumption

LEMMA FaultTyped ==
  ASSUME Typed, Serial, Restart \/ \E c \in Callers : TransactionFails(c) PROVE Typed'
  <1>1. Carries(Idle)'
    BY DEF Carries, Idle
  <1>2. \A k : Fault(k) => faults' \in 0..MaxFaults
    BY ControlPlaneAssumption DEF Fault, Typed
  <1>3. \A cs \in SUBSET Callers : \A k : Cardinality(Succeeding(cs, k)) \in Nat
    BY FewCalls DEF Succeeding, Pending
  <1>4. CASE Restart
    <2>1. Windows(Callers) \in Nat
      BY WindowsAre
    <2>2. /\ faults' \in 0..MaxFaults /\ lastAt' = -1 /\ lost' = lost + Windows(Callers)
          /\ calls' = [c \in Callers |-> Idle]
          /\ UNCHANGED <<setup, stored, metered, actions, started, clock, applied, excused>>
      BY <1>2, <1>4 DEF Restart
    <2>3. PICK acting \in SUBSET Pending("act") :
            /\ provided' = [k \in ActionKeys |->
                 provided[k] + Cardinality({c \in acting : calls[c].key = k})]
            /\ unsettled' = [k \in ActionKeys |-> unsettled[k]
                 + Cardinality({c \in acting : calls[c].key = k}) + Cardinality(Succeeding(Callers, k))]
      BY <1>4 DEF Restart
    <2>4. \A k : Cardinality({c \in acting : calls[c].key = k}) \in Nat
      BY FewCalls DEF Pending
    <2>5. provided' \in [ActionKeys -> Nat] /\ unsettled' \in [ActionKeys -> Nat]
      <3>1. \A k : Cardinality(Succeeding(Callers, k)) \in Nat
        BY <1>3
      <3>2. \A k \in ActionKeys :
              /\ provided[k] + Cardinality({c \in acting : calls[c].key = k}) \in Nat
              /\ unsettled[k] + Cardinality({c \in acting : calls[c].key = k})
                   + Cardinality(Succeeding(Callers, k)) \in Nat
        <4> SUFFICES ASSUME NEW k \in ActionKeys
                     PROVE  /\ provided[k] + Cardinality({c \in acting : calls[c].key = k}) \in Nat
                            /\ unsettled[k] + Cardinality({c \in acting : calls[c].key = k})
                                 + Cardinality(Succeeding(Callers, k)) \in Nat
          OBVIOUS
        <4>1. PICK done, wins : /\ done = Cardinality({c \in acting : calls[c].key = k})
                                /\ wins = Cardinality(Succeeding(Callers, k))
          OBVIOUS
        <4>2. done \in Nat /\ wins \in Nat /\ provided[k] \in Nat /\ unsettled[k] \in Nat
          BY <2>4, <3>1, <4>1 DEF Typed
        <4>3. provided[k] + done \in Nat /\ unsettled[k] + done + wins \in Nat
          BY <4>2
        <4>4. QED
          BY <4>1, <4>3
      <3>3. QED
        BY <2>3, <3>2
    <2>6. lost' \in Nat /\ lastAt' \in -1..MaxTime
      BY <2>1, <2>2, ControlPlaneAssumption DEF Typed
    <2>7. calls' = [c \in Callers |-> calls'[c]] /\ \A c \in Callers : Carries(calls[c])'
      BY <1>1, <2>2
    <2>8. QED
      BY <2>2, <2>5, <2>6, <2>7, RestTyped DEF Typed, stored, metered
  <1>5. ASSUME NEW c \in Callers, TransactionFails(c) PROVE Typed'
    <2>1. Windows({c}) \in Nat
      BY WindowsAre
    <2>2. /\ faults' \in 0..MaxFaults /\ lost' = lost + Windows({c})
          /\ calls' = [calls EXCEPT ![c] = Idle]
          /\ unsettled' = [k \in ActionKeys |-> unsettled[k] + Cardinality(Succeeding({c}, k))]
          /\ UNCHANGED <<setup, stored, metered, actions, started, clock, lastAt, applied, provided, excused>>
      BY <1>2, <1>5 DEF TransactionFails
    <2>3. unsettled' \in [ActionKeys -> Nat] /\ provided' \in [ActionKeys -> Nat]
      BY <1>3, <2>2 DEF Typed
    <2>4. lost' \in Nat
      BY <2>1, <2>2 DEF Typed
    <2>5. calls' = [d \in Callers |-> calls'[d]] /\ \A d \in Callers : Carries(calls[d])'
      BY <1>1, <2>2, OneCall
    <2>6. QED
      BY <2>2, <2>3, <2>4, <2>5, RestTyped DEF Typed, stored, metered
  <1>6. QED
    BY <1>4, <1>5

LEMMA TickTyped == ASSUME Typed, Tick PROVE Typed'
  <1>1. /\ now \in Nat /\ now' \in 0..MaxTime /\ now' \in Nat /\ risen \in Nat
        /\ now' > now => risen' = risen + (now' - now)
        /\ ~(now' > now) => risen' = risen
        /\ UNCHANGED <<setup, stored, metered, actions, calls, started, faults, lastAt, ghosts>>
    BY ControlPlaneAssumption DEF Tick, Typed
  <1>2. risen' \in Nat
    BY <1>1
  <1>3. QED
    BY <1>1, <1>2 DEF Typed, stored, metered, ghosts, Invoiced, Carries, UsageRecord

LEMMA InitTyped == Init => Typed /\ Serial
  <1> SUFFICES ASSUME Init PROVE Typed /\ Serial
    OBVIOUS
  <1>1. \A c \in Callers : Carries(calls[c]) /\ ~Sampling(c)
    BY DEF Init, Carries, Idle, Sampling
  <1>2. QED
    BY <1>1, ControlPlaneAssumption DEF Init, Typed, Serial, Kept, Totals, Invoiced

LEMMA NextTyped == Typed /\ Serial /\ [Next]_vars => Typed'
  <1> SUFFICES ASSUME Typed, Serial, [Next]_vars PROVE Typed'
    OBVIOUS
  <1>1. CASE UNCHANGED vars
    BY <1>1 DEF vars, stored, metered, clock, ghosts, Typed, Carries, UsageRecord, Invoiced
  <1>2. QED
    BY <1>1, CallTyped, CreatedTyped, PlanTyped, DeletedTyped, EventTyped, UsageTyped, MeasuredTyped,
       InvoiceTyped, ActionTyped, FaultTyped, TickTyped DEF Next, Step

\* A call begins only when the caller is idle, and a sample when no other is
\* taken or recorded; every other step leaves a call or ends it.
LEMMA NextSerial == Typed /\ Serial /\ [Next]_vars => Serial'
  <1> SUFFICES ASSUME Typed, Serial, [Next]_vars PROVE Serial'
    OBVIOUS
  <1>1. ASSUME NEW c \in Callers, NEW call, calls' = [calls EXCEPT ![c] = call],
               call.op \in {"sample", "window"} =>
                 Sampling(c) \/ Pending("sample") \cup Pending("window") = {}
        PROVE  Serial'
    <2>1. calls'[c] = call /\ \A d \in Callers : d # c => calls'[d] = calls[d]
      BY <1>1, CallsAfter DEF Typed
    <2>2. QED
      BY <1>1, <2>1 DEF Serial, Sampling, Pending
  <1>2. ASSUME NEW c \in Callers, Call(c) PROVE Serial'
    <2>1. ASSUME NEW call, Start(c, call), call.op \in {"sample", "window"} => SamplerFree
          PROVE  Serial'
      BY <1>1, <2>1 DEF Start, SamplerFree
    <2>2. CASE \E a \in Accounts, e \in Emails : CreateAccount(c, a, e)
      BY <2>1, <2>2 DEF CreateAccount
    <2>3. CASE \E a \in Accounts, p \in Projects, plan \in Plans : CreateProject(c, a, p, plan)
      BY <2>1, <2>3 DEF CreateProject
    <2>4. CASE \E p \in Projects, plan \in Plans : ChangePlan(c, p, plan)
      BY <2>1, <2>4 DEF ChangePlan
    <2>5. CASE \E a \in Accounts : DeleteAccount(c, a)
      BY <2>1, <2>5 DEF DeleteAccount
    <2>6. CASE \E e \in Events, via \in {"billing", "payments"} : Deliver(c, e, via)
      BY <2>1, <2>6 DEF Deliver
    <2>7. CASE \E p \in Projects, key \in UsageKeys, quantity \in {1, 2} :
                 RecordUsage(c, p, key, quantity)
      BY <2>1, <2>7 DEF RecordUsage
    <2>8. CASE \E p \in Projects : Sample(c, p) \/ FinalizeInvoice(c, p)
      BY <2>1, <2>8 DEF Sample, FinalizeInvoice
    <2>9. CASE \E p \in Projects, k \in ActionKeys : Act(c, p, k)
      BY <2>1, <2>9 DEF Act
    <2>10. QED
      BY <1>2, <2>2, <2>3, <2>4, <2>5, <2>6, <2>7, <2>8, <2>9 DEF Call
  <1>3. ASSUME NEW c \in Callers, Step(c) PROVE Serial'
    <2>1. CASE Measured(c)
      <3>1. Sampling(c) /\ \E call : calls' = [calls EXCEPT ![c] = call]
        BY <2>1 DEF Measured, Sampling
      <3>2. QED
        BY <1>1, <3>1
    <2>2. CASE ~Measured(c)
      <3>1. CASE calls' = [calls EXCEPT ![c] = Idle]
        BY <1>1, <3>1 DEF Idle
      <3>2. ASSUME NEW answer \in {"result", "error", "invalid"}, NEW acted, ProviderAnswers(c, answer, acted)
            PROVE  Serial'
        <4>1. \/ calls' = [calls EXCEPT ![c] = [op |-> "answered", key |-> calls[c].key, status |-> "succeeded"]]
              \/ calls' = [calls EXCEPT ![c] = [op |-> "answered", key |-> calls[c].key, status |-> "failed"]]
              \/ calls' = [calls EXCEPT ![c] = Idle]
          BY <3>2 DEF ProviderAnswers
        <4>2. QED
          BY <1>1, <4>1 DEF Idle
      <3>3. QED
        BY <1>3, <2>2, <3>1, <3>2
        DEF Step, AccountCreated, ProjectCreated, PlanChanged, AccountDeleted, EventProcessed,
            UsageRecorded, InvoiceFinalized, ActionRecorded, TransactionFails, Return
    <2>3. QED
      BY <2>1, <2>2
  <1>4. CASE Restart
    BY <1>4 DEF Restart, Serial, Sampling, Idle
  <1>5. CASE Tick \/ UNCHANGED vars
    BY <1>5 DEF Tick, vars, Serial, Sampling
  <1>6. QED
    BY <1>2, <1>3, <1>4, <1>5 DEF Next

-----------------------------------------------------------------------------
(* Accounts, projects and grants.                                          *)

\* An identifier is new when its creation is called, and still is when the
\* transaction runs.
FreshOK ==
  \A c \in Callers :
    /\ calls[c].op = "createAccount" =>
         /\ accounts[calls[c].account] = None
         /\ \A d \in Callers \ {c} :
              calls[d].op = "createAccount" => calls[d].account # calls[c].account
    /\ calls[c].op = "createProject" =>
         /\ projects[calls[c].project] = None
         /\ \A d \in Callers \ {c} :
              calls[d].op = "createProject" => calls[d].project # calls[c].project

\* What a deletion read is what there still is, but for projects created since.
DeletionOK ==
  \A c \in Callers : calls[c].op = "deleteAccount" =>
    /\ accounts[calls[c].account] # None
    /\ \A p \in calls[c].owned : projects[p] # None /\ projects[p].account = calls[c].account
    /\ \A p \in Projects \ excused :
         projects[p] # None /\ projects[p].account = calls[c].account => p \in calls[c].owned

DeletedOK == \A p \in Projects : Has(projects[p], "deleted") => grants[p] = None

Registry == FreshOK /\ DeletionOK /\ EmailIsUnique /\ NoOrphan /\ GrantsMatchPlan /\ DeletedOK

\* A step that leaves the collections alone and begins no creation or deletion.
LEMMA RegistryStays ==
  ASSUME Registry, UNCHANGED <<setup, accounts, projects, grants>>, excused \subseteq excused',
         \A c \in Callers :
           calls'[c] = calls[c] \/ calls'[c].op \notin {"createAccount", "createProject", "deleteAccount"}
  PROVE  Registry'
  <1> USE DEF Registry
  <1>1. FreshOK'
    BY DEF FreshOK
  <1>2. DeletionOK'
    BY DEF DeletionOK
  <1>3. EmailIsUnique' /\ DeletedOK'
    BY DEF EmailIsUnique, DeletedOK, Has
  <1>4. NoOrphan'
    BY DEF NoOrphan, Active, Has
  <1>5. GrantsMatchPlan'
    BY DEF GrantsMatchPlan, Active, Has
  <1>6. QED
    BY <1>1, <1>2, <1>3, <1>4, <1>5

LEMMA CallRegistry == ASSUME Typed, Registry, NEW c \in Callers, Call(c) PROVE Registry'
  <1> USE DEF Begun, stored, ghosts
  <1>1. ASSUME NEW call, Start(c, call)
        PROVE  calls'[c] = call /\ \A d \in Callers : d # c => calls'[d] = calls[d]
    BY <1>1, CallsAfter DEF Start, Typed
  <1>2. ASSUME NEW call, Start(c, call), UNCHANGED <<setup, accounts, projects, grants>>,
               excused \subseteq excused', call.op \notin {"createAccount", "createProject", "deleteAccount"}
        PROVE  Registry'
    BY <1>1, <1>2, RegistryStays
  <1>3. ASSUME UNCHANGED <<setup, accounts, projects, grants, excused>>
        PROVE  /\ EmailIsUnique' /\ NoOrphan' /\ GrantsMatchPlan' /\ DeletedOK'
    BY <1>3 DEF Registry, EmailIsUnique, NoOrphan, GrantsMatchPlan, DeletedOK, Active, Has
  <1>4. ASSUME NEW a \in Accounts, NEW e \in Emails, CreateAccount(c, a, e) PROVE Registry'
    <2> DEFINE call == [op |-> "createAccount", account |-> a, email |-> e]
    <2>1. /\ calls'[c] = call /\ \A d \in Callers : d # c => calls'[d] = calls[d]
          /\ UNCHANGED <<setup, accounts, projects, grants, excused>>
          /\ accounts[a] = None
          /\ \A d \in Callers : calls[d].op = "createAccount" => calls[d].account # a
      BY <1>1, <1>4 DEF CreateAccount
    <2>2. FreshOK'
      BY <2>1 DEF Registry, FreshOK
    <2>3. DeletionOK'
      BY <2>1 DEF Registry, DeletionOK
    <2>4. QED
      BY <1>3, <2>1, <2>2, <2>3 DEF Registry
  <1>5. ASSUME NEW a \in Accounts, NEW p \in Projects, NEW plan \in Plans, CreateProject(c, a, p, plan)
        PROVE  Registry'
    <2> DEFINE call == [op |-> "createProject", account |-> a, project |-> p, plan |-> plan]
    <2>1. /\ calls'[c] = call /\ \A d \in Callers : d # c => calls'[d] = calls[d]
          /\ UNCHANGED <<setup, accounts, projects, grants, excused>>
          /\ projects[p] = None
          /\ \A d \in Callers : calls[d].op = "createProject" => calls[d].project # p
      BY <1>1, <1>5 DEF CreateProject, Pending
    <2>2. FreshOK'
      BY <2>1 DEF Registry, FreshOK
    <2>3. DeletionOK'
      BY <2>1 DEF Registry, DeletionOK
    <2>4. QED
      BY <1>3, <2>1, <2>2, <2>3 DEF Registry
  <1>6. ASSUME NEW a \in Accounts, DeleteAccount(c, a) PROVE Registry'
    <2> DEFINE call == [op |-> "deleteAccount", account |-> a, email |-> accounts[a].email,
               seen |-> projects,
               owned |-> {p \in Projects : projects[p] # None /\ projects[p].account = a}]
    <2>1. /\ calls'[c] = call /\ \A d \in Callers : d # c => calls'[d] = calls[d]
          /\ UNCHANGED <<setup, accounts, projects, grants, excused>>
          /\ accounts[a] # None
      BY <1>1, <1>6 DEF DeleteAccount
    <2>2. FreshOK'
      BY <2>1 DEF Registry, FreshOK
    <2>3. DeletionOK'
      BY <2>1 DEF Registry, DeletionOK
    <2>4. QED
      BY <1>3, <2>1, <2>2, <2>3 DEF Registry
  <1>7. CASE \/ \E p \in Projects, plan \in Plans : ChangePlan(c, p, plan)
             \/ \E e \in Events, via \in {"billing", "payments"} : Deliver(c, e, via)
    BY <1>2, <1>7 DEF ChangePlan, Deliver
  <1>8. CASE \E p \in Projects, key \in UsageKeys, quantity \in {1, 2} : RecordUsage(c, p, key, quantity)
    BY <1>2, <1>8 DEF RecordUsage
  <1>9. CASE \/ \E p \in Projects : Sample(c, p) \/ FinalizeInvoice(c, p)
             \/ \E p \in Projects, k \in ActionKeys : Act(c, p, k)
    BY <1>2, <1>9 DEF Sample, FinalizeInvoice, Act
  <1>10. QED
    BY <1>4, <1>5, <1>6, <1>7, <1>8, <1>9 DEF Call

LEMMA AccountRegistry == ASSUME Typed, Registry, NEW c \in Callers, AccountCreated(c) PROVE Registry'
  <1> DEFINE call == calls[c]
             a == call.account
  <1>1. /\ call.op = "createAccount" /\ a \in Accounts /\ call.email \in Emails
        /\ accounts[a] = None
        /\ calls'[c] = Idle /\ \A d \in Callers : d # c => calls'[d] = calls[d]
        /\ setup' = setup /\ excused' = excused
    BY CallsAfter DEF AccountCreated, Return, Typed, Carries, Registry, FreshOK, ghosts
  <1>2. CASE EmailTaken(call.email)
    BY <1>1, <1>2, RegistryStays DEF AccountCreated, stored, Idle
  <1>3. CASE ~EmailTaken(call.email)
    <2>1. /\ accounts' = [accounts EXCEPT ![a] = [email |-> call.email, status |-> "active"]]
          /\ UNCHANGED <<projects, grants>>
      BY <1>3 DEF AccountCreated
    <2>2. \A b \in Accounts : accounts'[b] = IF b = a THEN [email |-> call.email, status |-> "active"]
                                                       ELSE accounts[b]
      BY <1>1, <2>1 DEF Typed
    <2>3. [email |-> call.email, status |-> "active"] # None
      BY <1>1, ControlPlaneAssumption DEF Account, Status
    <2>4. FreshOK'
      BY <1>1, <2>1, <2>2 DEF Registry, FreshOK, Idle, Typed, Carries
    <2>5. DeletionOK'
      <3>1. \A d \in Callers : calls[d].op = "deleteAccount" => calls[d].account \in Accounts
        BY DEF Typed, Carries
      <3>2. QED
        BY <1>1, <2>1, <2>2, <2>3, <3>1 DEF Registry, DeletionOK, Idle
    <2>6. EmailIsUnique'
      BY <1>3, <2>2, <2>3 DEF Registry, EmailIsUnique, EmailTaken, Has
    <2>7. NoOrphan'
      <3>1. \A p \in Projects : projects[p] # None => projects[p].account \in Accounts
        BY DEF Typed, Kept, Project
      <3>2. QED
        BY <1>1, <2>1, <2>2, <2>3, <3>1 DEF Registry, NoOrphan, Active, Has
    <2>8. GrantsMatchPlan' /\ DeletedOK'
      BY <1>1, <2>1 DEF Registry, GrantsMatchPlan, DeletedOK, Active, Has
    <2>9. QED
      BY <2>4, <2>5, <2>6, <2>7, <2>8 DEF Registry
  <1>4. QED
    BY <1>2, <1>3

LEMMA ProjectRegistry == ASSUME Typed, Registry, NEW c \in Callers, ProjectCreated(c) PROVE Registry'
  <1> DEFINE call == calls[c]
             a == call.account
             p == call.project
             new == [account |-> a, plan |-> call.plan, billing |-> "active", status |-> "active"]
             grant == [plan |-> call.plan, source |-> "plan"]
  <1>1. /\ call.op = "createProject" /\ a \in Accounts /\ p \in Projects /\ call.plan \in Plans
        /\ projects[p] = None
        /\ \A d \in Callers \ {c} : calls[d].op = "createProject" => calls[d].project # p
        /\ calls'[c] = Idle /\ \A d \in Callers : d # c => calls'[d] = calls[d]
        /\ setup' = setup
    BY CallsAfter DEF ProjectCreated, Return, Typed, Carries, Registry, FreshOK
  <1>2. CASE ~Owned(call)
    BY <1>1, <1>2, RegistryStays DEF ProjectCreated, stored, Idle
  <1>3. CASE Owned(call)
    <2>1. /\ projects' = [projects EXCEPT ![p] = new] /\ grants' = [grants EXCEPT ![p] = grant]
          /\ excused' = IF Deleting(a) THEN excused \cup {p} ELSE excused
          /\ accounts' = accounts
      BY <1>3 DEF ProjectCreated
    <2>2. /\ \A q \in Projects : projects'[q] = IF q = p THEN new ELSE projects[q]
          /\ \A q \in Projects : grants'[q] = IF q = p THEN grant ELSE grants[q]
      BY <1>1, <2>1 DEF Typed
    <2>3. new # None /\ grant # None /\ new.account = a /\ new.status = "active"
          /\ new.billing = "active" /\ new.plan = grant.plan /\ grant.source = "plan"
      <3>1. new \in Project /\ grant \in Entitlement
        BY <1>1 DEF Project, Status, Entitlement
      <3>2. QED
        BY <3>1, ControlPlaneAssumption
    <2> HIDE DEF new, grant
    <2>4. FreshOK'
      BY <1>1, <2>1, <2>2 DEF Registry, FreshOK, Idle, Typed, Carries
    <2>5. DeletionOK'
      <3> SUFFICES ASSUME NEW d \in Callers, calls'[d].op = "deleteAccount"
                   PROVE  /\ accounts[calls[d].account] # None /\ calls'[d] = calls[d]
                          /\ \A q \in calls[d].owned :
                               projects'[q] # None /\ projects'[q].account = calls[d].account
                          /\ \A q \in Projects \ excused' :
                               projects'[q] # None /\ projects'[q].account = calls[d].account
                                 => q \in calls[d].owned
        BY <2>1 DEF DeletionOK
      <3>1. d # c /\ calls'[d] = calls[d] /\ calls[d].op = "deleteAccount"
        BY <1>1 DEF Idle
      <3>2. calls[d].owned \in SUBSET Projects
        BY <3>1 DEF Typed, Carries
      <3>3. p \notin calls[d].owned
        BY <1>1, <3>1 DEF Registry, DeletionOK
      <3>4. calls[d].account = a => p \in excused'
        BY <2>1, <3>1 DEF Deleting, Pending
      <3>5. excused \subseteq excused'
        BY <2>1
      <3>6. QED
        BY <2>2, <2>3, <3>1, <3>2, <3>3, <3>4, <3>5 DEF Registry, DeletionOK
    <2>6. EmailIsUnique'
      BY <2>1 DEF Registry, EmailIsUnique, Has
    <2>7. NoOrphan'
      BY <1>3, <2>1, <2>2, <2>3 DEF Registry, NoOrphan, Active, Has, Owned
    <2>8. GrantsMatchPlan'
      BY <1>1, <2>2, <2>3 DEF Registry, GrantsMatchPlan, Active, Has
    <2>9. DeletedOK'
      BY <2>2, <2>3 DEF Registry, DeletedOK, Has
    <2>10. QED
      BY <2>4, <2>5, <2>6, <2>7, <2>8, <2>9 DEF Registry
  <1>4. QED
    BY <1>2, <1>3

\* A step that changes the plan, the billing state or the grants of one active
\* project, and leaves it active and with its account.
LEMMA ProjectChanges ==
  ASSUME Typed, Registry, NEW p \in Projects, Active(p), NEW new \in Project, NEW grant,
         projects' = [projects EXCEPT ![p] = new], grants' = [grants EXCEPT ![p] = grant],
         new.account = projects[p].account, new.status = "active", grant # None,
         UNCHANGED <<setup, accounts, excused>>,
         \A d \in Callers :
           calls'[d] = calls[d] \/ calls'[d].op \notin {"createAccount", "createProject", "deleteAccount"},
         grant.source # "other_plan" =>
           \/ new.billing = "active" /\ grant.plan = new.plan
           \/ new.billing = "past_due"
              /\ (grant.plan = Free \/ (setup.policy = "grace" /\ grant.plan = new.plan))
  PROVE  Registry'
  <1>1. /\ \A q \in Projects : projects'[q] = IF q = p THEN new ELSE projects[q]
        /\ \A q \in Projects : grants'[q] = IF q = p THEN grant ELSE grants[q]
        /\ new # None
    BY ControlPlaneAssumption DEF Typed
  <1>2. projects[p] # None /\ projects[p].status = "active"
    BY DEF Active, Has
  <1>3. FreshOK'
    BY <1>1, <1>2 DEF Registry, FreshOK, Typed, Carries
  <1>4. DeletionOK'
    <2> SUFFICES ASSUME NEW d \in Callers, calls'[d].op = "deleteAccount"
                 PROVE  /\ accounts[calls[d].account] # None /\ calls'[d] = calls[d]
                        /\ \A q \in calls[d].owned :
                             projects'[q] # None /\ projects'[q].account = calls[d].account
                        /\ \A q \in Projects \ excused :
                             projects'[q] # None /\ projects'[q].account = calls[d].account
                               => q \in calls[d].owned
      BY DEF DeletionOK
    <2>1. calls'[d] = calls[d] /\ calls[d].op = "deleteAccount"
      OBVIOUS
    <2>2. calls[d].owned \in SUBSET Projects
      BY <2>1 DEF Typed, Carries
    <2>3. QED
      BY <1>1, <1>2, <2>1, <2>2 DEF Registry, DeletionOK
  <1>5. EmailIsUnique'
    BY DEF Registry, EmailIsUnique, Has
  <1>6. NoOrphan'
    BY <1>1, <1>2 DEF Registry, NoOrphan, Active, Has
  <1>7. GrantsMatchPlan'
    BY <1>1 DEF Registry, GrantsMatchPlan, Active, Has
  <1>8. DeletedOK'
    BY <1>1 DEF Registry, DeletedOK, Has
  <1>9. QED
    BY <1>3, <1>4, <1>5, <1>6, <1>7, <1>8 DEF Registry

LEMMA PlanRegistry == ASSUME Typed, Registry, NEW c \in Callers, PlanChanged(c) PROVE Registry'
  <1> DEFINE call == calls[c]
             p == call.project
             new == [projects[p] EXCEPT !.plan = call.plan, !.billing = "active"]
             grant == [plan |-> call.plan, source |-> "operator"]
  <1>1. /\ p \in Projects /\ call.plan \in Plans
        /\ calls'[c] = Idle /\ \A d \in Callers : d # c => calls'[d] = calls[d]
        /\ UNCHANGED <<setup, excused>>
    BY CallsAfter DEF PlanChanged, Return, Typed, Carries, ghosts
  <1>2. CASE ~Active(p)
    <2>1. UNCHANGED stored
      BY <1>2 DEF PlanChanged, Current
    <2>2. QED
      BY <1>1, <2>1, RegistryStays DEF stored, Idle
  <1>3. CASE Active(p)
    <2>1. projects[p] \in Project /\ projects[p] # None /\ projects[p].status = "active"
      BY <1>1, <1>3 DEF Active, Has, Typed, Kept
    <2>2. /\ projects' = [projects EXCEPT ![p] = new] /\ grants' = [grants EXCEPT ![p] = grant]
          /\ accounts' = accounts
      BY <1>3, <2>1 DEF PlanChanged, Current
    <2>3. /\ new \in Project /\ new.account = projects[p].account /\ new.status = "active"
          /\ new.billing = "active" /\ new.plan = call.plan
      BY <1>1, <2>1 DEF Project
    <2>4. grant # None /\ grant.plan = call.plan
      <3>1. grant \in Entitlement
        BY <1>1 DEF Entitlement
      <3>2. QED
        BY <3>1, ControlPlaneAssumption
    <2> HIDE DEF new, grant
    <2>5. \A d \in Callers :
           calls'[d] = calls[d] \/ calls'[d].op \notin {"createAccount", "createProject", "deleteAccount"}
      BY <1>1 DEF Idle
    <2> HIDE DEF p, call
    <2>6. QED
      BY <1>1, <1>3, <2>2, <2>3, <2>4, <2>5, ProjectChanges
  <1>4. QED
    BY <1>2, <1>3

\* What an event grants fits what it makes of the project.
LEMMA EventFits ==
  ASSUME Typed, Registry, NEW e \in Events, NEW via, Supported(e, via), NEW p \in Projects,
         Active(p)
  PROVE  LET new == Billed(p, e, via)  grant == Granted(p, e, via) IN
         /\ new \in Project /\ new.account = projects[p].account /\ new.status = "active"
         /\ grant # None
         /\ grant.source # "other_plan" =>
              \/ new.billing = "active" /\ grant.plan = new.plan
              \/ new.billing = "past_due"
                 /\ (grant.plan = Free \/ (setup.policy = "grace" /\ grant.plan = new.plan))
  <1> DEFINE new == Billed(p, e, via)
             grant == Granted(p, e, via)
             old == projects[p]
  <1>1. /\ old \in Project /\ old # None /\ old.status = "active"
        /\ grants[p] \in Entitlement /\ grants[p] # None
        /\ grants[p].source # "other_plan" =>
              \/ old.billing = "active" /\ grants[p].plan = old.plan
              \/ old.billing = "past_due"
                 /\ (grants[p].plan = Free \/ (setup.policy = "grace" /\ grants[p].plan = old.plan))
    BY DEF Active, Has, Registry, GrantsMatchPlan, Typed, Kept
  <1>2. new \in Project /\ grant \in {None} \cup Entitlement
    BY <1>1, BilledType
  <1>3. setup.policy \in {"restrict", "grace"}
    BY ControlPlaneAssumption DEF Typed
  <1>4. old.billing \in {"active", "past_due"}
    BY <1>1 DEF Project
  <1>5. CASE Subscription(e, via)
    <2>1. /\ new = [old EXCEPT !.plan = TargetPlan(e),
                               !.billing = IF e.status = "past_due" THEN "past_due" ELSE "active"]
          /\ grant = [plan |-> IF e.status = "past_due" THEN Free ELSE TargetPlan(e), source |-> "billing"]
      BY <1>5 DEF Billed, Granted
    <2>2. TargetPlan(e) \in Plans /\ Free \in Plans
      <3>1. e.plan \in Plans \cup {None} /\ (NamesPlan(e) => e.plan # None)
        BY ControlPlaneAssumption DEF Supported, Subscription, NamesPlan
      <3>2. QED
        BY <3>1, ControlPlaneAssumption DEF TargetPlan
    <2>3. grant # None
      <3>1. grant \in Entitlement
        BY <2>1, <2>2 DEF Entitlement
      <3>2. QED
        BY <3>1, ControlPlaneAssumption
    <2>4. /\ new.account = old.account /\ new.status = "active" /\ new.plan = TargetPlan(e)
          /\ new.billing = IF e.status = "past_due" THEN "past_due" ELSE "active"
      BY <1>1, <2>1 DEF Project
    <2>5. grant.plan = IF e.status = "past_due" THEN Free ELSE TargetPlan(e)
      BY <2>1
    <2> HIDE DEF new, grant, old
    <2>6. QED
      BY <1>2, <2>3, <2>4, <2>5 DEF new, grant, old
  <1>6. CASE ~Subscription(e, via) /\ e.type = "payment.failed"
    <2>1. new = [old EXCEPT !.billing = "past_due"]
      BY <1>6 DEF Billed
    <2>2. /\ new.account = old.account /\ new.status = "active" /\ new.plan = old.plan
          /\ new.billing = "past_due"
      BY <1>1, <2>1 DEF Project
    <2>3. CASE setup.policy = "restrict"
      <3>1. grant = [plan |-> Free, source |-> "payment_failed"]
        BY <1>6, <2>3 DEF Granted
      <3>2. grant \in Entitlement
        BY <3>1, ControlPlaneAssumption DEF Entitlement
      <3>3. grant # None /\ grant.plan = Free
        BY <3>1, <3>2, ControlPlaneAssumption
      <3>4. QED
        BY <1>2, <2>2, <3>3
    <2>4. CASE setup.policy = "grace"
      <3>1. grant = grants[p]
        BY <1>6, <2>4 DEF Granted
      <3>2. QED
        BY <1>1, <1>2, <2>2, <2>4, <3>1
    <2>5. QED
      BY <1>3, <2>3, <2>4
  <1>7. CASE ~Subscription(e, via) /\ e.type = "payment.recovered"
    <2>1. /\ new = [old EXCEPT !.billing = "active"]
          /\ grant = [plan |-> IF e.plan = None THEN old.plan ELSE e.plan,
                      source |-> IF e.plan \in {None, old.plan} THEN "payment_recovered"
                                                                  ELSE "other_plan"]
      BY <1>7 DEF Billed, Granted
    <2>2. /\ new.account = old.account /\ new.status = "active" /\ new.plan = old.plan
          /\ new.billing = "active"
      BY <1>1, <2>1 DEF Project
    <2>3. grant # None
      <3>1. old.plan \in Plans /\ e.plan \in Plans \cup {None}
        BY <1>1, ControlPlaneAssumption DEF Project
      <3>2. grant \in Entitlement
        BY <2>1, <3>1 DEF Entitlement
      <3>3. QED
        BY <3>2, ControlPlaneAssumption
    <2>4. grant.source # "other_plan" => grant.plan = old.plan
      BY <2>1
    <2>5. QED
      BY <1>2, <2>2, <2>3, <2>4
  <1>8. CASE ~Subscription(e, via) /\ e.type \notin {"payment.failed", "payment.recovered"}
    <2>1. new = old /\ grant = grants[p]
      BY <1>8 DEF Billed, Granted
    <2>2. QED
      BY <1>1, <2>1
  <1>9. QED
    BY <1>5, <1>6, <1>7, <1>8

LEMMA EventRegistry == ASSUME Typed, Registry, NEW c \in Callers, EventProcessed(c) PROVE Registry'
  <1> DEFINE e == calls[c].event
             p == e.project
             via == calls[c].via
  <1>1. /\ e \in Events /\ p \in Projects
        /\ calls'[c] = Idle /\ \A d \in Callers : d # c => calls'[d] = calls[d]
        /\ UNCHANGED <<setup, excused>>
    BY CallsAfter, ControlPlaneAssumption DEF EventProcessed, Return, Typed, Carries
  <1>2. \A d \in Callers :
           calls'[d] = calls[d] \/ calls'[d].op \notin {"createAccount", "createProject", "deleteAccount"}
    BY <1>1 DEF Idle
  <1>3. CASE Known(e) \/ ~Active(p) \/ ~Supported(e, via)
    <2>1. UNCHANGED stored
      BY <1>3 DEF EventProcessed
    <2>2. QED
      BY <1>1, <1>2, <2>1, RegistryStays DEF stored
  <1>4. CASE ~(Known(e) \/ ~Active(p) \/ ~Supported(e, via))
    <2>1. /\ projects' = [projects EXCEPT ![p] = Billed(p, e, via)]
          /\ grants' = [grants EXCEPT ![p] = Granted(p, e, via)] /\ accounts' = accounts
      BY <1>4 DEF EventProcessed
    <2> HIDE DEF p, e, via
    <2>2. PICK new, grant : new = Billed(p, e, via) /\ grant = Granted(p, e, via)
      OBVIOUS
    <2>3. /\ new \in Project /\ new.account = projects[p].account /\ new.status = "active"
          /\ grant # None
          /\ grant.source # "other_plan" =>
              \/ new.billing = "active" /\ grant.plan = new.plan
              \/ new.billing = "past_due"
                 /\ (grant.plan = Free \/ (setup.policy = "grace" /\ grant.plan = new.plan))
      BY <1>1, <1>4, <2>2, EventFits
    <2>4. QED
      BY <1>1, <1>2, <1>4, <2>1, <2>2, <2>3, ProjectChanges
  <1>5. QED
    BY <1>3, <1>4

LEMMA DeleteRegistry == ASSUME Typed, Registry, NEW c \in Callers, AccountDeleted(c) PROVE Registry'
  <1> DEFINE call == calls[c]
             a == call.account
             Gone(p) == [call.seen[p] EXCEPT !.status = "deleted"]
  <1>1. /\ call.op = "deleteAccount" /\ a \in Accounts
        /\ call.seen \in [Projects -> Kept] /\ call.owned \in SUBSET Projects
        /\ \A p \in call.owned : call.seen[p] # None /\ call.seen[p].account = a
        /\ calls'[c] = Idle /\ \A d \in Callers : d # c => calls'[d] = calls[d]
        /\ UNCHANGED <<setup, excused>>
    BY CallsAfter DEF AccountDeleted, Return, Typed, Carries, ghosts
  <1>2. /\ accounts[a] # None
        /\ \A p \in call.owned : projects[p] # None /\ projects[p].account = a
        /\ \A p \in Projects \ excused : projects[p] # None /\ projects[p].account = a => p \in call.owned
    BY <1>1 DEF Registry, DeletionOK
  <1>3. \A p \in call.owned : Gone(p) # None /\ Gone(p).account = a /\ Gone(p).status = "deleted"
    <2> SUFFICES ASSUME NEW p \in call.owned
                 PROVE  Gone(p) # None /\ Gone(p).account = a /\ Gone(p).status = "deleted"
      OBVIOUS
    <2>1. call.seen[p] \in Project
      BY <1>1 DEF Kept
    <2>2. Gone(p) \in Project /\ Gone(p).account = call.seen[p].account /\ Gone(p).status = "deleted"
      BY <2>1 DEF Project, Status
    <2>3. QED
      BY <1>1, <2>2, ControlPlaneAssumption
  <1>4. /\ \A p \in Projects : projects'[p] = IF p \in call.owned THEN Gone(p) ELSE projects[p]
        /\ \A p \in Projects : grants'[p] = IF p \in call.owned THEN None ELSE grants[p]
    BY DEF AccountDeleted
  <1>5. \A b \in Accounts :
          accounts'[b] = IF b = a THEN [email |-> None, status |-> "deleted"] ELSE accounts[b]
    BY <1>1 DEF AccountDeleted, Typed
  <1>6. [email |-> None, status |-> "deleted"] # None
    <2>1. [email |-> None, status |-> "deleted"] \in Account
      BY DEF Account, Status
    <2>2. QED
      BY <2>1, ControlPlaneAssumption
  <1> HIDE DEF Gone
  <1>7. FreshOK'
    <2>1. \A d \in Callers : /\ calls[d].op = "createAccount" => calls[d].account \in Accounts
                             /\ calls[d].op = "createProject" => calls[d].project \in Projects
      BY DEF Typed, Carries
    <2>2. QED
      BY <1>1, <1>2, <1>4, <1>5, <2>1 DEF Registry, FreshOK, Idle
  <1>8. DeletionOK'
    <2> SUFFICES ASSUME NEW d \in Callers, calls'[d].op = "deleteAccount"
                 PROVE  /\ accounts'[calls[d].account] # None /\ calls'[d] = calls[d]
                        /\ \A q \in calls[d].owned :
                             projects'[q] # None /\ projects'[q].account = calls[d].account
                        /\ \A q \in Projects \ excused :
                             projects'[q] # None /\ projects'[q].account = calls[d].account
                               => q \in calls[d].owned
      BY <1>1 DEF DeletionOK
    <2>1. calls'[d] = calls[d] /\ calls[d].op = "deleteAccount"
      BY <1>1 DEF Idle
    <2>2. calls[d].account \in Accounts /\ calls[d].owned \in SUBSET Projects
      BY <2>1 DEF Typed, Carries
    <2>3. accounts'[calls[d].account] # None
      BY <1>5, <1>6, <2>1, <2>2 DEF Registry, DeletionOK
    <2>4. \A q \in Projects : projects'[q] # None <=> projects[q] # None
      BY <1>2, <1>3, <1>4
    <2>5. \A q \in Projects : projects[q] # None => projects'[q].account = projects[q].account
      BY <1>2, <1>3, <1>4
    <2>6. QED
      BY <2>1, <2>2, <2>3, <2>4, <2>5 DEF Registry, DeletionOK
  <1>9. EmailIsUnique'
    <2>1. [email |-> None, status |-> "deleted"].status # "active"
      OBVIOUS
    <2>2. \A b \in Accounts : Has(accounts'[b], "active") => accounts'[b] = accounts[b]
      BY <1>5, <2>1 DEF Has
    <2>3. QED
      BY <2>2 DEF Registry, EmailIsUnique
  <1>10. \A p \in Projects : Active(p)' => p \notin call.owned /\ projects'[p] = projects[p]
                                          /\ grants'[p] = grants[p] /\ Active(p)
    BY <1>3, <1>4 DEF Active, Has
  <1>11. NoOrphan'
    <2> SUFFICES ASSUME NEW p \in Projects \ excused, Active(p)'
                 PROVE  Has(accounts[projects[p].account], "active")'
      BY <1>1 DEF NoOrphan
    <2>1. projects'[p] = projects[p] /\ Active(p) /\ projects[p].account # a
      BY <1>2, <1>10 DEF Active, Has
    <2>2. projects[p].account \in Accounts
      BY <2>1 DEF Active, Has, Typed, Kept, Project
    <2>3. accounts'[projects[p].account] = accounts[projects[p].account]
      BY <1>5, <2>1, <2>2
    <2>4. QED
      BY <2>1, <2>3 DEF Registry, NoOrphan
  <1>12. GrantsMatchPlan'
    BY <1>1, <1>10 DEF Registry, GrantsMatchPlan
  <1>13. DeletedOK'
    BY <1>4 DEF Registry, DeletedOK, Has
  <1>14. QED
    BY <1>7, <1>8, <1>9, <1>11, <1>12, <1>13 DEF Registry

LEMMA OtherRegistry ==
  ASSUME Typed, Registry,
         \/ \E c \in Callers :
              \/ UsageRecorded(c) \/ Measured(c) \/ InvoiceFinalized(c) \/ ActionRecorded(c)
              \/ TransactionFails(c)
              \/ \E answer \in {"result", "error", "invalid"}, acted \in BOOLEAN :
                   ProviderAnswers(c, answer, acted)
         \/ Restart \/ Tick \/ UNCHANGED vars
  PROVE  Registry'
  <1>1. UNCHANGED <<setup, stored>>
    BY DEF UsageRecorded, Measured, InvoiceFinalized, ActionRecorded, TransactionFails, ProviderAnswers,
       Restart, Tick, Return, vars
  <1>2. excused \subseteq excused'
    BY DEF UsageRecorded, Measured, InvoiceFinalized, ActionRecorded, TransactionFails, ProviderAnswers,
       Restart, Tick, Return, vars, ghosts
  <1>3. \A d \in Callers :
          calls'[d] = calls[d] \/ calls'[d].op \notin {"createAccount", "createProject", "deleteAccount"}
    <2>1. ASSUME NEW c \in Callers, NEW call, calls' = [calls EXCEPT ![c] = call],
                 call.op \notin {"createAccount", "createProject", "deleteAccount"}, NEW d \in Callers
          PROVE  calls'[d] = calls[d]
                 \/ calls'[d].op \notin {"createAccount", "createProject", "deleteAccount"}
      BY <2>1, CallsAfter DEF Typed
    <2>2. ASSUME NEW c \in Callers, Measured(c), NEW d \in Callers
          PROVE  calls'[d] = calls[d]
                 \/ calls'[d].op \notin {"createAccount", "createProject", "deleteAccount"}
      BY <2>1, <2>2 DEF Measured, Idle
    <2>3. ASSUME NEW c \in Callers, NEW answer \in {"result", "error", "invalid"}, NEW acted,
                 ProviderAnswers(c, answer, acted), NEW d \in Callers
          PROVE  calls'[d] = calls[d]
                 \/ calls'[d].op \notin {"createAccount", "createProject", "deleteAccount"}
      <3>1. \/ calls' = [calls EXCEPT ![c] = [op |-> "answered", key |-> calls[c].key, status |-> "succeeded"]]
            \/ calls' = [calls EXCEPT ![c] = [op |-> "answered", key |-> calls[c].key, status |-> "failed"]]
            \/ calls' = [calls EXCEPT ![c] = Idle]
        BY <2>3 DEF ProviderAnswers
      <3>2. QED
        BY <2>1, <3>1 DEF Idle
    <2>4. ASSUME NEW c \in Callers, calls' = [calls EXCEPT ![c] = Idle], NEW d \in Callers
          PROVE  calls'[d] = calls[d]
                 \/ calls'[d].op \notin {"createAccount", "createProject", "deleteAccount"}
      BY <2>1, <2>4 DEF Idle
    <2>5. CASE Restart \/ Tick \/ UNCHANGED vars
      BY <2>5 DEF Restart, Tick, vars, Idle
    <2>6. QED
      BY <2>2, <2>3, <2>4, <2>5
      DEF UsageRecorded, InvoiceFinalized, ActionRecorded, TransactionFails, Return
  <1>4. QED
    BY <1>1, <1>2, <1>3, RegistryStays DEF stored

LEMMA InitRegistry == Init => Registry
  <1> SUFFICES ASSUME Init PROVE Registry
    OBVIOUS
  <1>1. /\ \A c \in Callers : calls[c].op = "idle"
        /\ \A a \in Accounts : accounts[a] = None
        /\ \A p \in Projects : projects[p] = None /\ grants[p] = None
    BY DEF Init, Idle
  <1>2. QED
    BY <1>1
    DEF Registry, FreshOK, DeletionOK, EmailIsUnique, NoOrphan, GrantsMatchPlan, DeletedOK, Active, Has

LEMMA NextRegistry == Typed /\ Registry /\ [Next]_vars => Registry'
  BY CallRegistry, AccountRegistry, ProjectRegistry, PlanRegistry, EventRegistry, DeleteRegistry,
     OtherRegistry DEF Next, Step

-----------------------------------------------------------------------------
(* What is final.                                                          *)

\* A deleted account or project stays deleted through every step.
LEMMA NextDeleted ==
  ASSUME Typed, Registry, [Next]_vars
  PROVE  /\ \A a \in Accounts : Has(accounts[a], "deleted") => Has(accounts'[a], "deleted")
         /\ \A p \in Projects : Has(projects[p], "deleted") =>
              Has(projects'[p], "deleted") /\ grants'[p] = None
  <1> DEFINE Goal == /\ \A a \in Accounts : Has(accounts[a], "deleted") => Has(accounts'[a], "deleted")
                     /\ \A p \in Projects : Has(projects[p], "deleted") =>
                          Has(projects'[p], "deleted") /\ grants'[p] = None
  <1>1. CASE UNCHANGED <<accounts, projects, grants>>
    BY <1>1 DEF Registry, DeletedOK, Has
  <1>2. ASSUME NEW c \in Callers, AccountCreated(c) PROVE Goal
    <2>1. /\ calls[c].account \in Accounts /\ accounts[calls[c].account] = None
          /\ UNCHANGED <<projects, grants>>
      BY <1>2 DEF AccountCreated, Typed, Carries, Registry, FreshOK, stored
    <2>2. \A a \in Accounts : accounts[a] # None => accounts'[a] = accounts[a]
      BY <1>2, <2>1 DEF AccountCreated, Typed, stored
    <2>3. QED
      BY <2>1, <2>2 DEF Registry, DeletedOK, Has
  <1>3. ASSUME NEW c \in Callers, ProjectCreated(c) PROVE Goal
    <2>1. /\ calls[c].project \in Projects /\ projects[calls[c].project] = None
          /\ accounts' = accounts
      BY <1>3 DEF ProjectCreated, Typed, Carries, Registry, FreshOK, stored
    <2>2. \A p \in Projects : projects[p] # None => projects'[p] = projects[p] /\ grants'[p] = grants[p]
      BY <1>3, <2>1 DEF ProjectCreated, Typed, stored
    <2>3. QED
      BY <2>1, <2>2 DEF Registry, DeletedOK, Has
  <1>4. ASSUME NEW c \in Callers, PlanChanged(c) PROVE Goal
    <2>1. accounts' = accounts
      BY <1>4 DEF PlanChanged, stored
    <2>2. \A p \in Projects : ~Active(p) => projects'[p] = projects[p] /\ grants'[p] = grants[p]
      BY <1>4 DEF PlanChanged, Current, Typed, stored
    <2>3. QED
      BY <2>1, <2>2 DEF Registry, DeletedOK, Has, Active
  <1>5. ASSUME NEW c \in Callers, EventProcessed(c) PROVE Goal
    <2>1. accounts' = accounts
      BY <1>5 DEF EventProcessed, stored
    <2>2. \A p \in Projects : ~Active(p) => projects'[p] = projects[p] /\ grants'[p] = grants[p]
      BY <1>5 DEF EventProcessed, Typed, stored
    <2>3. QED
      BY <2>1, <2>2 DEF Registry, DeletedOK, Has, Active
  <1>6. ASSUME NEW c \in Callers, AccountDeleted(c) PROVE Goal
    <2> DEFINE call == calls[c]
               gone == [email |-> None, status |-> "deleted"]
    <2>1. /\ call.seen \in [Projects -> Kept] /\ \A p \in call.owned : call.seen[p] # None
      BY <1>6 DEF AccountDeleted, Typed, Carries
    <2>2. \A a \in Accounts : accounts'[a] = accounts[a] \/ accounts'[a] = gone
      BY <1>6 DEF AccountDeleted, Typed
    <2>3. gone \in Account /\ gone.status = "deleted"
      BY DEF Account, Status
    <2>4. ASSUME NEW p \in Projects, p \in call.owned
          PROVE  Has([call.seen[p] EXCEPT !.status = "deleted"], "deleted")
      <3>1. call.seen[p] \in Project
        BY <2>1, <2>4 DEF Kept
      <3>2. [call.seen[p] EXCEPT !.status = "deleted"] \in Project
        BY <3>1 DEF Project, Status
      <3>3. [call.seen[p] EXCEPT !.status = "deleted"].status = "deleted"
        BY <3>1 DEF Project
      <3>4. QED
        BY <3>2, <3>3, ControlPlaneAssumption DEF Has
    <2>5. QED
      BY <1>6, <2>2, <2>3, <2>4, ControlPlaneAssumption DEF AccountDeleted, Registry, DeletedOK, Has
  <1>7. CASE ~\E c \in Callers : \/ AccountCreated(c) \/ ProjectCreated(c) \/ PlanChanged(c)
                                 \/ EventProcessed(c) \/ AccountDeleted(c)
    <2>1. UNCHANGED stored
      <3>1. ASSUME NEW c \in Callers, Call(c) PROVE UNCHANGED stored
        BY <3>1 DEF Call, CreateAccount, CreateProject, ChangePlan, DeleteAccount, Deliver, RecordUsage,
           Sample, FinalizeInvoice, Act, Begun
      <3>2. QED
        BY <1>7, <3>1 DEF Next, Step, UsageRecorded, Measured, InvoiceFinalized, ActionRecorded,
           TransactionFails, ProviderAnswers, Restart, Tick, vars
    <2>2. QED
      BY <1>1, <2>1 DEF stored
  <1>8. QED
    BY <1>2, <1>3, <1>4, <1>5, <1>6, <1>7

\* An invoice that is made is not made again.
LEMMA NextInvoice ==
  ASSUME Typed, [Next]_vars
  PROVE  \A p \in Projects : invoices[p] # None => invoices'[p] = invoices[p]
  <1>1. ASSUME NEW c \in Callers, InvoiceFinalized(c)
        PROVE  \A p \in Projects : invoices[p] # None => invoices'[p] = invoices[p]
    BY <1>1 DEF InvoiceFinalized, Invoiced, Typed
  <1>2. CASE ~\E c \in Callers : InvoiceFinalized(c)
    <2>1. ASSUME NEW c \in Callers, Call(c) PROVE invoices' = invoices
      BY <2>1 DEF Call, CreateAccount, CreateProject, ChangePlan, DeleteAccount, Deliver, RecordUsage,
         Sample, FinalizeInvoice, Act, Begun, metered
    <2>2. ASSUME NEW c \in Callers, Step(c) PROVE invoices' = invoices
      BY <1>2, <2>2 DEF Step, AccountCreated, ProjectCreated, PlanChanged, AccountDeleted,
         EventProcessed, UsageRecorded, Measured, ActionRecorded, TransactionFails, ProviderAnswers, metered
    <2>3. invoices' = invoices
      BY <2>1, <2>2 DEF Next, Restart, Tick, vars, metered
    <2>4. QED
      BY <2>3
  <1>3. QED
    BY <1>1, <1>2

-----------------------------------------------------------------------------
(* What is counted, metered and carried out.                               *)

TimeRecords == {u \in usage : u.metric = "time"}
Metered == Total(TimeRecords) + Windows(Callers) + lost

\* The time the clock had gone forward when the sampler last read it is r: what is
\* metered lies before, and what a sample or a window in flight will add lies
\* after what is recorded.  The clock can only have gained on itself what it
\* went forward.
MeteredUntil(r) ==
  /\ r <= risen /\ Metered <= r
  /\ \A u \in TimeRecords : u.read <= r
  /\ \A u, v \in TimeRecords : u # v => u.read <= v.read - v.quantity \/ v.read <= u.read - u.quantity
  /\ lastAt # -1 => now - lastAt <= risen - r
  /\ \A c \in Callers :
       /\ calls[c].op = "sample" =>
            /\ r <= calls[c].read /\ calls[c].read <= risen
            /\ now - calls[c].at <= risen - calls[c].read
            /\ lastAt # -1 => calls[c].at - lastAt <= calls[c].read - r
       /\ calls[c].op = "window" =>
            /\ calls[c].event.read = r
            /\ \A u \in TimeRecords : u.read <= calls[c].event.read - calls[c].event.quantity
TimeOK == \E r \in Nat : MeteredUntil(r)

RecordsOf(p, metric) == {u \in usage : u.project = p /\ u.metric = metric}
AtMost(used, total) == used.requests <= total.requests /\ used.time <= total.time

\* The totals are the sums of what is stored, and bound what is invoiced.
UsageOK ==
  /\ IsFiniteSet(usage)
  /\ \A p \in Projects :
       /\ totals[p] = [requests |-> Total(RecordsOf(p, "requests")), time |-> Total(RecordsOf(p, "time"))]
       /\ IsFiniteSet(KeysOf(p)) /\ totals[p].requests <= 2 * Cardinality(KeysOf(p))
       /\ Invoiced(p) => AtMost(invoices[p].used, totals[p])
  /\ \A c \in Callers :
       calls[c].op = "finalize" => AtMost(calls[c].used, totals[calls[c].project])

\* An event not yet processed has changed nothing.
BillOK == \A e \in Events : applied[e] <= 1 /\ (e \notin processed => applied[e] = 0)

InFlight(k) == {c \in Callers : calls[c].op \in {"act", "answered"} /\ calls[c].key = k}
Acting(k) == {c \in InFlight(k) : calls[c].op = "act"}
FailedIn(k) == \E c \in InFlight(k) : calls[c].op = "answered" /\ calls[c].status = "failed"

\* What was carried out and what may still be comes to one time more at most than
\* there are reasons for it; and to none more when a failure is about to be
\* recorded, or nothing is in flight and no success is on record, which is when
\* another call may take its place.
KeyOK(k) ==
  /\ provided[k] + Cardinality(Acting(k)) <= 1 + unsettled[k]
  /\ FailedIn(k) \/ (InFlight(k) = {} /\ actions[k] # "succeeded") =>
       provided[k] + Cardinality(Acting(k)) <= unsettled[k]
ActionOK == \A k \in ActionKeys : KeyOK(k)

LEMMA TotalIsNat == ASSUME NEW S, Quantified(S) PROVE Total(S) \in Nat
  <1>1. PICK g : Adds(g, S)
    BY SumsExist
  <1>2. g[S] \in Nat
    BY <1>1 DEF Adds
  <1>3. QED
    BY <1>1, <1>2, TotalAdds

\* The first step of a call changes only the calls, and what is unsettled.
LEMMA CallQuiet ==
  ASSUME NEW c \in Callers, Call(c)
  PROVE  UNCHANGED <<setup, stored, metered, actions, faults, clock, lastAt, applied, provided, excused,
                     lost>>
  BY DEF Call, CreateAccount, CreateProject, ChangePlan, DeleteAccount, Deliver, RecordUsage, Sample,
         FinalizeInvoice, Act, Begun, ghosts

\* A call begins where there was none.
LEMMA CallBegins ==
  ASSUME Typed, NEW c \in Callers, Call(c)
  PROVE  calls[c] = Idle /\ \A d \in Callers : d # c => calls'[d] = calls[d]
  <1>1. \E call : Start(c, call)
    BY DEF Call, CreateAccount, CreateProject, ChangePlan, DeleteAccount, Deliver, RecordUsage, Sample,
           FinalizeInvoice, Act
  <1>2. QED
    BY <1>1, CallsAfter DEF Start, Typed

\* Steps that touch neither the billing events nor what they changed.
LEMMA NextBill == Typed /\ BillOK /\ [Next]_vars => BillOK'
  <1> SUFFICES ASSUME Typed, BillOK, [Next]_vars PROVE BillOK'
    OBVIOUS
  <1>1. ASSUME NEW c \in Callers, EventProcessed(c) PROVE BillOK'
    <2> DEFINE e == calls[c].event
    <2>1. e \in Events
      BY <1>1 DEF EventProcessed, Typed, Carries
    <2>2. CASE UNCHANGED <<processed, applied>>
      BY <2>2 DEF BillOK
    <2>3. CASE /\ e \notin processed /\ processed' = processed \cup {e}
               /\ applied' = [applied EXCEPT ![e] = @ + 1]
      <3>1. applied[e] = 0 /\ applied'[e] = 1
        BY <2>1, <2>3 DEF BillOK, Typed
      <3>2. \A f \in Events : f # e => applied'[f] = applied[f]
        BY <2>3 DEF Typed
      <3> HIDE DEF e
      <3>3. QED
        BY <2>3, <3>1, <3>2 DEF BillOK
    <2>4. QED
      BY <1>1, <2>2, <2>3 DEF EventProcessed, Known, stored
  <1>2. CASE ~\E c \in Callers : EventProcessed(c)
    <2>1. UNCHANGED applied /\ processed' = processed
      <3>1. ASSUME NEW c \in Callers, Call(c) PROVE UNCHANGED applied /\ processed' = processed
        BY <3>1, CallQuiet DEF stored
      <3>2. ASSUME NEW c \in Callers, Step(c) PROVE UNCHANGED applied /\ processed' = processed
        BY <1>2, <3>2 DEF Step, AccountCreated, ProjectCreated, PlanChanged, AccountDeleted, UsageRecorded,
           Measured, InvoiceFinalized, ActionRecorded, TransactionFails, ProviderAnswers, stored, ghosts
      <3>3. QED
        BY <3>1, <3>2 DEF Next, Restart, Tick, vars, stored, ghosts
    <2>2. QED
      BY <2>1 DEF BillOK
  <1>3. QED
    BY <1>1, <1>2

LEMMA KeyTypes ==
  ASSUME Typed, NEW k \in ActionKeys
  PROVE  /\ provided[k] \in Nat /\ unsettled[k] \in Nat
         /\ IsFiniteSet(Acting(k)) /\ Cardinality(Acting(k)) \in Nat
  BY FewCalls DEF Typed, Acting, InFlight

LEMMA KeyTypesThen ==
  ASSUME Typed', NEW k \in ActionKeys
  PROVE  provided'[k] \in Nat /\ unsettled'[k] \in Nat /\ Cardinality(Acting(k))' \in Nat
  <1>1. Acting(k)' \subseteq Callers
    BY DEF Acting, InFlight
  <1>2. QED
    BY <1>1, FewCalls DEF Typed

\* The calls of a key stay as they are, with no reason taken back.
LEMMA KeyStays ==
  ASSUME Typed, Typed', NEW k \in ActionKeys, KeyOK(k), actions'[k] = actions[k], provided'[k] = provided[k],
         unsettled'[k] >= unsettled[k],
         \A d \in Callers : calls'[d] = calls[d] \/ (d \notin InFlight(k) /\ d \notin InFlight(k)')
  PROVE  KeyOK(k)'
  <1>1. InFlight(k)' = InFlight(k) /\ \A d \in InFlight(k) : calls'[d] = calls[d]
    BY DEF InFlight
  <1>2. Acting(k)' = Acting(k) /\ (FailedIn(k)' => FailedIn(k))
    BY <1>1 DEF Acting, FailedIn
  <1>3. /\ provided[k] \in Nat /\ unsettled[k] \in Nat /\ Cardinality(Acting(k)) \in Nat
        /\ unsettled'[k] \in Nat
    BY KeyTypes, KeyTypesThen
  <1>4. QED
    BY <1>1, <1>2, <1>3 DEF KeyOK

\* A call begins: the first one, or beside another.
LEMMA ActKey ==
  ASSUME Typed, Typed', NEW k \in ActionKeys, KeyOK(k), NEW c \in Callers, NEW p \in Projects, Act(c, p, k)
  PROVE  KeyOK(k)'
  <1>1. /\ calls' = [calls EXCEPT ![c] = [op |-> "act", key |-> k]] /\ calls[c] = Idle
        /\ UNCHANGED <<actions, provided>> /\ actions[k] # "succeeded"
    BY DEF Act, Start
  <1>2. calls'[c] = [op |-> "act", key |-> k] /\ \A d \in Callers : d # c => calls'[d] = calls[d]
    BY <1>1, CallsAfter DEF Typed
  <1>3. unsettled' = IF InFlight(k) # {} THEN [unsettled EXCEPT ![k] = @ + 1] ELSE unsettled
    BY DEF Act, InFlight
  <1>4. unsettled'[k] = IF InFlight(k) # {} THEN unsettled[k] + 1 ELSE unsettled[k]
    BY <1>3 DEF Typed
  <1>5. c \notin InFlight(k) /\ c \notin Acting(k) /\ InFlight(k)' = InFlight(k) \cup {c}
        /\ calls'[c].op = "act"
    BY <1>1, <1>2 DEF InFlight, Acting, Idle
  <1>6. Acting(k)' = Acting(k) \cup {c} /\ (FailedIn(k)' => FailedIn(k))
    <2>1. \A d \in InFlight(k) : d \in Callers /\ d # c /\ calls'[d] = calls[d]
      BY <1>2, <1>5 DEF InFlight
    <2>2. Acting(k)' = Acting(k) \cup {c}
      BY <1>5, <2>1 DEF Acting
    <2>3. FailedIn(k)' => FailedIn(k)
      BY <1>5, <2>1 DEF FailedIn
    <2>4. QED
      BY <2>2, <2>3
  <1>7. Cardinality(Acting(k) \cup {c}) = Cardinality(Acting(k)) + 1
    BY <1>5, KeyTypes, FS_AddElement
  <1>8. Cardinality(Acting(k))' = Cardinality(Acting(k)) + 1
    BY <1>6, <1>7
  <1>9. provided[k] \in Nat /\ unsettled[k] \in Nat /\ Cardinality(Acting(k)) \in Nat
    BY KeyTypes
  <1>10. CASE InFlight(k) = {}
    <2>1. ~FailedIn(k)' /\ InFlight(k)' # {}
      BY <1>5, <1>6, <1>10 DEF FailedIn
    <2>2. QED
      BY <1>1, <1>4, <1>8, <1>9, <1>10, <2>1 DEF KeyOK
  <1>11. CASE InFlight(k) # {}
    BY <1>1, <1>4, <1>5, <1>6, <1>8, <1>9, <1>11 DEF KeyOK
  <1>12. QED
    BY <1>10, <1>11

\* The provider answers, or does not: a call fewer, and one time more at most.
LEMMA ProviderKey ==
  ASSUME Typed, Typed', NEW c \in Callers, NEW answer \in {"result", "error", "invalid"},
         NEW acted \in BOOLEAN, ProviderAnswers(c, answer, acted),
         NEW k \in ActionKeys, k = calls[c].key, KeyOK(k)
  PROVE  KeyOK(k)'
  <1>1. calls[c].op = "act" /\ actions' = actions /\ (answer = "result" => acted)
    BY DEF ProviderAnswers
  <1>2. /\ provided'[k] = IF acted THEN provided[k] + 1 ELSE provided[k]
        /\ unsettled'[k] = IF acted /\ answer # "result" THEN unsettled[k] + 1 ELSE unsettled[k]
    BY DEF ProviderAnswers, Typed
  <1>3. PICK call : calls' = [calls EXCEPT ![c] = call] /\ call.op # "act"
                    /\ (answer = "result" => call.op = "answered" /\ call.status = "succeeded" /\ call.key = k)
    <2>1. CASE answer = "result"
      <3>1. PICK call : call = [op |-> "answered", key |-> k, status |-> "succeeded"]
        OBVIOUS
      <3>2. calls' = [calls EXCEPT ![c] = call]
        BY <2>1, <3>1 DEF ProviderAnswers
      <3>3. call.op # "act" /\ call.op = "answered" /\ call.status = "succeeded" /\ call.key = k
        BY <3>1
      <3>4. QED
        BY <3>2, <3>3
    <2>2. CASE answer = "error"
      <3>1. PICK call : call = [op |-> "answered", key |-> k, status |-> "failed"]
        OBVIOUS
      <3>2. calls' = [calls EXCEPT ![c] = call]
        BY <2>2, <3>1 DEF ProviderAnswers
      <3>3. call.op # "act" /\ answer # "result"
        BY <2>2, <3>1
      <3>4. QED
        BY <3>2, <3>3
    <2>3. CASE answer = "invalid"
      <3>1. PICK call : call = Idle
        OBVIOUS
      <3>2. calls' = [calls EXCEPT ![c] = call]
        BY <2>3, <3>1 DEF ProviderAnswers
      <3>3. call.op # "act" /\ answer # "result"
        BY <2>3, <3>1 DEF Idle
      <3>4. QED
        BY <3>2, <3>3
    <2>4. QED
      BY <2>1, <2>2, <2>3
  <1>4. calls'[c] = call /\ \A d \in Callers : d # c => calls'[d] = calls[d]
    BY <1>3, CallsAfter DEF Typed
  <1>5. Acting(k)' = Acting(k) \ {c} /\ c \in Acting(k)
    BY <1>1, <1>3, <1>4 DEF Acting, InFlight
  <1>6. Cardinality(Acting(k) \ {c}) = Cardinality(Acting(k)) - 1
    BY <1>5, KeyTypes, FS_RemoveElement
  <1>7. Cardinality(Acting(k))' = Cardinality(Acting(k)) - 1
    BY <1>5, <1>6
  <1>8. /\ provided[k] \in Nat /\ unsettled[k] \in Nat /\ Cardinality(Acting(k)) \in Nat
        /\ provided'[k] \in Nat /\ unsettled'[k] \in Nat /\ Cardinality(Acting(k))' \in Nat
    BY KeyTypes, KeyTypesThen
  <1>9. CASE answer = "result"
    <2>1. (FailedIn(k)' => FailedIn(k)) /\ InFlight(k)' # {}
      BY <1>3, <1>4, <1>9 DEF FailedIn, InFlight
    <2>2. QED
      BY <1>1, <1>2, <1>7, <1>8, <1>9, <2>1 DEF KeyOK
  <1>10. CASE answer # "result"
    <2>1. provided'[k] + Cardinality(Acting(k))' <= unsettled'[k]
      BY <1>2, <1>7, <1>8, <1>10 DEF KeyOK
    <2>2. QED
      BY <1>8, <2>1 DEF KeyOK
  <1>11. QED
    BY <1>9, <1>10

\* An answer is recorded: a failure only when the count is settled.
LEMMA RecordedKey ==
  ASSUME Typed, Typed', NEW c \in Callers, ActionRecorded(c),
         NEW k \in ActionKeys, k = calls[c].key, KeyOK(k)
  PROVE  KeyOK(k)'
  <1>1. /\ calls[c].op = "answered" /\ UNCHANGED <<provided, unsettled>>
        /\ calls' = [calls EXCEPT ![c] = Idle] /\ actions' = [actions EXCEPT ![k] = calls[c].status]
        /\ calls[c].status \in {"succeeded", "failed"}
    BY DEF ActionRecorded, Typed, Carries, Merged, Return, ghosts
  <1>2. calls'[c].op = "idle" /\ \A d \in Callers : d # c => calls'[d] = calls[d]
    BY <1>1, CallsAfter DEF Typed, Idle
  <1>3. Acting(k)' = Acting(k) /\ c \in InFlight(k) /\ (FailedIn(k)' => FailedIn(k))
    BY <1>1, <1>2 DEF Acting, InFlight, FailedIn
  <1>4. actions'[k] = calls[c].status
    BY <1>1 DEF Typed
  <1>5. calls[c].status = "failed" => FailedIn(k)
    BY <1>1, <1>3 DEF FailedIn
  <1>6. QED
    BY <1>1, <1>3, <1>4, <1>5 DEF KeyOK

\* A record is refused: a reason more if it was a success.
LEMMA RefusedKey ==
  ASSUME Typed, Typed', NEW c \in Callers, TransactionFails(c), calls[c].op = "answered",
         NEW k \in ActionKeys, k = calls[c].key, KeyOK(k)
  PROVE  KeyOK(k)'
  <1>1. /\ calls' = [calls EXCEPT ![c] = Idle] /\ UNCHANGED <<actions, provided>>
        /\ unsettled'[k] = unsettled[k] + Cardinality(Succeeding({c}, k))
        /\ calls[c].status \in {"succeeded", "failed"}
    BY DEF TransactionFails, Typed, Carries
  <1>2. calls'[c].op = "idle" /\ \A d \in Callers : d # c => calls'[d] = calls[d]
    BY <1>1, CallsAfter DEF Typed, Idle
  <1>3. Acting(k)' = Acting(k) /\ c \in InFlight(k) /\ (FailedIn(k)' => FailedIn(k))
    BY <1>2 DEF Acting, InFlight, FailedIn
  <1>4. /\ provided[k] \in Nat /\ unsettled[k] \in Nat /\ Cardinality(Acting(k)) \in Nat
        /\ unsettled'[k] \in Nat
    BY KeyTypes, KeyTypesThen
  <1>5. CASE calls[c].status = "succeeded"
    <2>1. Succeeding({c}, k) = {c}
      BY <1>5 DEF Succeeding, Pending
    <2>2. unsettled'[k] = unsettled[k] + 1
      BY <1>1, <2>1, FS_Singleton
    <2>3. QED
      BY <1>1, <1>3, <1>4, <2>2 DEF KeyOK
  <1>6. CASE calls[c].status = "failed"
    <2>1. Succeeding({c}, k) = {}
      BY <1>6 DEF Succeeding
    <2>2. unsettled'[k] = unsettled[k]
      <3>1. Cardinality(Succeeding({c}, k)) = 0
        BY <2>1, FS_EmptySet
      <3>2. QED
        BY <1>1, <1>4, <3>1
    <2>3. FailedIn(k)
      BY <1>3, <1>6 DEF FailedIn
    <2>4. QED
      BY <1>1, <1>3, <1>4, <2>2, <2>3 DEF KeyOK
  <1>7. QED
    BY <1>1, <1>5, <1>6

\* The process stops: the provider acts for some of the calls that wait for it.
LEMMA RestartKey ==
  ASSUME Typed, Typed', Restart, NEW k \in ActionKeys, KeyOK(k)
  PROVE  KeyOK(k)'
  <1> DEFINE Done(acting) == {c \in acting : calls[c].key = k}
             succeeded == Succeeding(Callers, k)
  <1>1. PICK acting \in SUBSET Pending("act") :
          /\ provided'[k] = provided[k] + Cardinality(Done(acting))
          /\ unsettled'[k] = unsettled[k] + Cardinality(Done(acting)) + Cardinality(succeeded)
    BY DEF Restart
  <1>2. \A c \in Callers : calls'[c].op = "idle"
    BY DEF Restart, Idle
  <1>3. InFlight(k)' = {} /\ Acting(k)' = {} /\ ~FailedIn(k)' /\ actions' = actions
    BY <1>2 DEF InFlight, Acting, FailedIn, Restart
  <1>4. Cardinality(Acting(k))' = 0
    BY <1>3, FS_EmptySet
  <1>5. Done(acting) \subseteq Acting(k)
    BY DEF Pending, Acting, InFlight
  <1>6. Cardinality(Done(acting)) \in Nat /\ Cardinality(Done(acting)) <= Cardinality(Acting(k))
    BY <1>5, KeyTypes, FS_Subset, FS_CardinalityType
  <1>7. succeeded \subseteq Callers
    BY DEF Succeeding
  <1>8. IsFiniteSet(succeeded) /\ Cardinality(succeeded) \in Nat
    BY <1>7, FewCalls
  <1>9. provided[k] \in Nat /\ unsettled[k] \in Nat /\ Cardinality(Acting(k)) \in Nat
    BY KeyTypes
  <1> DEFINE done == Cardinality(Done(acting))
             wins == Cardinality(succeeded)
             waiting == Cardinality(Acting(k))
  <1>10. provided[k] + done <= unsettled[k] + done + wins \/ actions[k] = "succeeded"
    <2>1. CASE wins >= 1 \/ done >= 1
      <3> HIDE DEF succeeded, Done
      <3>1. provided[k] + waiting <= 1 + unsettled[k] /\ done <= waiting
        BY <1>6 DEF KeyOK
      <3> HIDE DEF done, wins, waiting
      <3>2. done \in Nat /\ wins \in Nat /\ waiting \in Nat
        BY <1>6, <1>8, <1>9 DEF done, wins, waiting
      <3>3. QED
        BY <1>9, <2>1, <3>1, <3>2
    <2>2. CASE wins = 0 /\ done = 0
      <3>1. succeeded = {}
        BY <1>8, <2>2, FS_EmptySet
      <3>2. CASE InFlight(k) = {}
        BY <1>9, <2>2, <3>2 DEF KeyOK
      <3>3. CASE Acting(k) # {}
        <4>1. waiting # 0
          BY <3>3, KeyTypes, FS_EmptySet
        <4> HIDE DEF succeeded, Done
        <4>2. provided[k] + waiting <= 1 + unsettled[k] /\ waiting \in Nat
          BY <1>9 DEF KeyOK
        <4> HIDE DEF waiting
        <4>3. provided[k] <= unsettled[k]
          BY <1>9, <4>1, <4>2
        <4>4. QED
          BY <1>9, <2>2, <4>3
      <3>4. CASE InFlight(k) # {} /\ Acting(k) = {}
        <4>1. PICK c \in InFlight(k) : calls[c].op = "answered"
          BY <3>4 DEF InFlight, Acting
        <4>2. calls[c].status \in {"succeeded", "failed"} /\ c \in Callers
          BY <4>1 DEF Typed, Carries, InFlight
        <4>3. calls[c].status # "succeeded"
          BY <3>1, <4>1, <4>2 DEF Succeeding, Pending, InFlight
        <4>4. FailedIn(k)
          BY <4>1, <4>2, <4>3 DEF FailedIn
        <4> HIDE DEF succeeded, Done
        <4>5. provided[k] + waiting <= unsettled[k] /\ waiting \in Nat
          BY <1>9, <4>4 DEF KeyOK
        <4> HIDE DEF waiting
        <4>6. provided[k] <= unsettled[k]
          BY <1>9, <4>5
        <4>7. QED
          BY <1>9, <2>2, <4>6
      <3>5. QED
        BY <3>2, <3>3, <3>4
    <2>3. QED
      BY <1>6, <1>8, <2>1, <2>2
  <1>11. provided[k] + done <= 1 + (unsettled[k] + done + wins)
    <2> HIDE DEF succeeded, Done
    <2>1. provided[k] + waiting <= 1 + unsettled[k] /\ waiting \in Nat
      BY <1>9 DEF KeyOK
    <2> HIDE DEF done, wins, waiting
    <2>2. done \in Nat /\ wins \in Nat
      BY <1>6, <1>8 DEF done, wins
    <2>3. QED
      BY <1>9, <2>1, <2>2
  <1> HIDE DEF Done, succeeded
  <1>12. /\ provided'[k] + Cardinality(Acting(k))' = provided[k] + done
         /\ unsettled'[k] = unsettled[k] + done + wins
    BY <1>1, <1>4, <1>6, <1>9
  <1> HIDE DEF done, wins, waiting
  <1>13. QED
    BY <1>3, <1>10, <1>11, <1>12 DEF KeyOK

LEMMA NextAction == Typed /\ Typed' /\ ActionOK /\ [Next]_vars => ActionOK'
  <1> SUFFICES ASSUME Typed, Typed', [Next]_vars, NEW k \in ActionKeys, KeyOK(k) PROVE KeyOK(k)'
    BY DEF ActionOK
  <1>0. provided[k] \in Nat /\ unsettled[k] \in Nat
    BY KeyTypes
  <1>1. ASSUME NEW c \in Callers, NEW call, calls' = [calls EXCEPT ![c] = call], c \notin InFlight(k),
               call.op \in {"act", "answered"} => call.key # k, UNCHANGED <<actions, provided>>,
               unsettled'[k] >= unsettled[k]
        PROVE  KeyOK(k)'
    <2>1. calls'[c] = call /\ \A d \in Callers : d # c => calls'[d] = calls[d]
      BY <1>1, CallsAfter DEF Typed
    <2>2. c \notin InFlight(k)'
      BY <1>1, <2>1 DEF InFlight
    <2>3. QED
      BY <1>1, <2>1, <2>2, KeyStays
  <1>2. ASSUME NEW c \in Callers, NEW p \in Projects, NEW l \in ActionKeys, Act(c, p, l) PROVE KeyOK(k)'
    <2>1. CASE l = k
      BY <1>2, <2>1, ActKey
    <2>2. CASE l # k
      <3>1. PICK call : call = [op |-> "act", key |-> l]
        OBVIOUS
      <3>2. /\ calls' = [calls EXCEPT ![c] = call] /\ calls[c] = Idle /\ UNCHANGED <<actions, provided>>
            /\ call.key # k
        BY <1>2, <2>2, <3>1 DEF Act, Start
      <3>3. unsettled'[k] = unsettled[k]
        BY <1>2, <2>2 DEF Act, Typed
      <3>4. unsettled'[k] >= unsettled[k] /\ c \notin InFlight(k)
        BY <1>0, <3>2, <3>3 DEF InFlight, Idle
      <3>5. QED
        BY <1>1, <3>2, <3>4
    <2>3. QED
      BY <2>1, <2>2
  <1>3. ASSUME NEW c \in Callers, Call(c), ~\E p \in Projects, l \in ActionKeys : Act(c, p, l)
        PROVE  KeyOK(k)'
    <2>1. UNCHANGED <<actions, provided>> /\ c \notin InFlight(k)
      BY <1>3, CallQuiet, CallBegins DEF InFlight, Idle
    <2>2. unsettled' = unsettled /\ \E call : calls' = [calls EXCEPT ![c] = call] /\ call.op \notin {"act", "answered"}
      <3>1. ASSUME NEW call, Start(c, call), call.op \notin {"act", "answered"}
            PROVE  \E x : calls' = [calls EXCEPT ![c] = x] /\ x.op \notin {"act", "answered"}
        BY <3>1 DEF Start
      <3>2. CASE \E a \in Accounts, e \in Emails : CreateAccount(c, a, e)
        BY <3>1, <3>2 DEF CreateAccount, Begun, ghosts
      <3>3. CASE \E a \in Accounts, p \in Projects, plan \in Plans : CreateProject(c, a, p, plan)
        BY <3>1, <3>3 DEF CreateProject, Begun, ghosts
      <3>4. CASE \E p \in Projects, plan \in Plans : ChangePlan(c, p, plan)
        BY <3>1, <3>4 DEF ChangePlan, Begun, ghosts
      <3>5. CASE \E a \in Accounts : DeleteAccount(c, a)
        BY <3>1, <3>5 DEF DeleteAccount, Begun, ghosts
      <3>6. CASE \E e \in Events, via \in {"billing", "payments"} : Deliver(c, e, via)
        BY <3>1, <3>6 DEF Deliver, Begun, ghosts
      <3>7. CASE \E p \in Projects, key \in UsageKeys, quantity \in {1, 2} :
                   RecordUsage(c, p, key, quantity)
        BY <3>1, <3>7 DEF RecordUsage, Begun, ghosts
      <3>8. CASE \E p \in Projects : Sample(c, p) \/ FinalizeInvoice(c, p)
        BY <3>1, <3>8 DEF Sample, FinalizeInvoice, Begun, ghosts
      <3>9. QED
        BY <1>3, <3>2, <3>3, <3>4, <3>5, <3>6, <3>7, <3>8 DEF Call
    <2>3. unsettled'[k] >= unsettled[k]
      BY <1>0, <2>2
    <2>4. QED
      BY <1>1, <2>1, <2>2, <2>3
  <1>4. ASSUME NEW c \in Callers, NEW answer \in {"result", "error", "invalid"}, NEW acted \in BOOLEAN,
               ProviderAnswers(c, answer, acted)
        PROVE  KeyOK(k)'
    <2>1. CASE calls[c].key = k
      BY <1>4, <2>1, ProviderKey
    <2>2. CASE calls[c].key # k
      <3>1. /\ calls[c].op = "act" /\ actions' = actions /\ provided'[k] = provided[k]
            /\ unsettled'[k] = unsettled[k]
        BY <1>4, <2>2 DEF ProviderAnswers, Typed
      <3>2. PICK call : calls' = [calls EXCEPT ![c] = call]
                        /\ (call.op \in {"act", "answered"} => call.key # k)
        <4>1. \/ calls' = [calls EXCEPT ![c] = [op |-> "answered", key |-> calls[c].key, status |-> "succeeded"]]
              \/ calls' = [calls EXCEPT ![c] = [op |-> "answered", key |-> calls[c].key, status |-> "failed"]]
              \/ calls' = [calls EXCEPT ![c] = Idle]
          BY <1>4 DEF ProviderAnswers
        <4>2. QED
          BY <2>2, <4>1 DEF Idle
      <3>3. calls'[c] = call /\ \A d \in Callers : d # c => calls'[d] = calls[d]
        BY <3>2, CallsAfter DEF Typed
      <3>4. c \notin InFlight(k) /\ c \notin InFlight(k)'
        BY <2>2, <3>2, <3>3 DEF InFlight
      <3>5. QED
        BY <1>0, <3>1, <3>3, <3>4, KeyStays
    <2>3. QED
      BY <2>1, <2>2
  <1>5. ASSUME NEW c \in Callers, ActionRecorded(c) PROVE KeyOK(k)'
    <2>1. CASE calls[c].key = k
      BY <1>5, <2>1, RecordedKey
    <2>2. CASE calls[c].key # k
      <3>1. /\ calls' = [calls EXCEPT ![c] = Idle] /\ actions'[k] = actions[k]
            /\ UNCHANGED <<provided, unsettled>>
        BY <1>5, <2>2 DEF ActionRecorded, Return, Typed, ghosts
      <3>2. calls'[c].op = "idle" /\ \A d \in Callers : d # c => calls'[d] = calls[d]
        BY <3>1, CallsAfter DEF Typed, Idle
      <3>3. c \notin InFlight(k) /\ c \notin InFlight(k)'
        BY <2>2, <3>2 DEF InFlight
      <3>4. QED
        BY <1>0, <3>1, <3>2, <3>3, KeyStays
    <2>3. QED
      BY <2>1, <2>2
  <1>6. ASSUME NEW c \in Callers, TransactionFails(c) PROVE KeyOK(k)'
    <2>1. CASE c \in InFlight(k)
      <3>1. calls[c].op = "answered" /\ k = calls[c].key
        BY <1>6, <2>1 DEF TransactionFails, InFlight
      <3>2. QED
        BY <1>6, <3>1, RefusedKey
    <2>2. CASE c \notin InFlight(k)
      <3>1. /\ calls' = [calls EXCEPT ![c] = Idle] /\ UNCHANGED <<actions, provided>>
            /\ unsettled'[k] = unsettled[k] + Cardinality(Succeeding({c}, k))
        BY <1>6 DEF TransactionFails
      <3>2. Succeeding({c}, k) \in SUBSET Callers
        BY DEF Succeeding
      <3>3. unsettled'[k] >= unsettled[k] /\ Idle.op \notin {"act", "answered"}
        BY <1>0, <3>1, <3>2, FewCalls DEF Idle
      <3>4. QED
        BY <1>1, <2>2, <3>1, <3>3
    <2>3. QED
      BY <2>1, <2>2
  <1>7. ASSUME NEW c \in Callers,
               \/ AccountCreated(c) \/ ProjectCreated(c) \/ PlanChanged(c) \/ AccountDeleted(c)
               \/ EventProcessed(c) \/ UsageRecorded(c) \/ Measured(c) \/ InvoiceFinalized(c)
        PROVE  KeyOK(k)'
    <2>1. UNCHANGED <<actions, provided, unsettled>> /\ calls[c].op \notin {"act", "answered"}
      BY <1>7 DEF AccountCreated, ProjectCreated, PlanChanged, AccountDeleted, EventProcessed,
         UsageRecorded, Measured, InvoiceFinalized, ghosts
    <2>2. \E call : calls' = [calls EXCEPT ![c] = call] /\ call.op \notin {"act", "answered"}
      BY <1>7 DEF AccountCreated, ProjectCreated, PlanChanged, AccountDeleted, EventProcessed,
         UsageRecorded, Measured, InvoiceFinalized, Return, Idle
    <2>3. unsettled'[k] >= unsettled[k] /\ c \notin InFlight(k)
      BY <1>0, <2>1 DEF InFlight
    <2>4. QED
      BY <1>1, <2>1, <2>2, <2>3
  <1>8. CASE Tick \/ UNCHANGED vars
    BY <1>0, <1>8, KeyStays DEF Tick, vars, ghosts
  <1>9. CASE Restart
    BY <1>9, RestartKey
  <1>10. QED
    BY <1>2, <1>3, <1>4, <1>5, <1>6, <1>7, <1>8, <1>9 DEF Next, Step

LEMMA SomeQuantified ==
  ASSUME Typed, UsageOK, NEW S \in SUBSET usage
  PROVE  Quantified(S)
  <1>1. IsFiniteSet(S)
    BY FS_Subset DEF UsageOK
  <1>2. \A u \in S : u.quantity \in Nat
    BY DEF Typed, UsageRecord
  <1>3. QED
    BY <1>1, <1>2 DEF Quantified

\* One record more: what becomes of the sums and of the keys.
LEMMA RecordAdds ==
  ASSUME Typed, UsageOK, NEW u, UsageRecord(u), ~Recorded(u), usage' = usage \cup {u},
         totals' = [totals EXCEPT ![u.project][u.metric] = @ + u.quantity], NEW p \in Projects
  PROVE  /\ totals'[p] = [requests |-> Total(RecordsOf(p, "requests"))', time |-> Total(RecordsOf(p, "time"))']
         /\ AtMost(totals[p], totals'[p])
         /\ IsFiniteSet(KeysOf(p))' /\ totals'[p].requests <= 2 * Cardinality(KeysOf(p))'
  <1>1. /\ u.project \in Projects /\ u.metric \in {"requests", "time"} /\ u.quantity \in Nat \ {0}
        /\ u.metric = "requests" => u.quantity <= 2
    BY DEF UsageRecord
  <1>2. \A q \in Projects : /\ totals[q] \in Totals
                            /\ totals[q] = [requests |-> Total(RecordsOf(q, "requests")),
                                            time |-> Total(RecordsOf(q, "time"))]
    BY DEF Typed, UsageOK
  <1>3. totals[p].requests \in Nat /\ totals[p].time \in Nat
    BY <1>2 DEF Totals
  <1>4. /\ IsFiniteSet(KeysOf(p)) /\ totals[p].requests <= 2 * Cardinality(KeysOf(p))
        /\ Cardinality(KeysOf(p)) \in Nat
    BY FS_CardinalityType DEF UsageOK
  <1>5. u \notin usage
    BY DEF Recorded
  <1>6. ASSUME NEW m \in {"requests", "time"}
        PROVE  Total(RecordsOf(p, m))' =
                 IF u.project = p /\ u.metric = m THEN Total(RecordsOf(p, m)) + u.quantity
                                                  ELSE Total(RecordsOf(p, m))
    <2>1. RecordsOf(p, m)' =
            IF u.project = p /\ u.metric = m THEN RecordsOf(p, m) \cup {u} ELSE RecordsOf(p, m)
      BY DEF RecordsOf
    <2>2. Quantified(RecordsOf(p, m)) /\ u \notin RecordsOf(p, m)
      <3>1. RecordsOf(p, m) \in SUBSET usage
        BY DEF RecordsOf
      <3>2. QED
        BY <1>5, <3>1, SomeQuantified
    <2>3. Total(RecordsOf(p, m) \cup {u}) = Total(RecordsOf(p, m)) + u.quantity
      BY <1>1, <2>2, TotalGrows
    <2>4. QED
      BY <2>1, <2>3
  <1>7. \A q \in Projects :
          totals'[q] = IF u.project = q THEN [totals[q] EXCEPT ![u.metric] = @ + u.quantity] ELSE totals[q]
    BY DEF Typed
  <1>8. PICK r \in Nat, t \in Nat : totals[p] = [requests |-> r, time |-> t]
    BY <1>2 DEF Totals
  <1>9. r = Total(RecordsOf(p, "requests")) /\ t = Total(RecordsOf(p, "time"))
    <2>1. totals[p] = [requests |-> Total(RecordsOf(p, "requests")), time |-> Total(RecordsOf(p, "time"))]
      BY <1>2
    <2>2. /\ totals[p].requests = Total(RecordsOf(p, "requests"))
          /\ totals[p].time = Total(RecordsOf(p, "time"))
      BY <2>1
    <2>3. QED
      BY <1>8, <2>2
  <1>10. totals'[p] = [requests |-> IF u.project = p /\ u.metric = "requests" THEN r + u.quantity ELSE r,
                       time |-> IF u.project = p /\ u.metric = "time" THEN t + u.quantity ELSE t]
    <2>1. CASE u.project # p
      BY <1>7, <1>8, <2>1
    <2>2. CASE u.project = p /\ u.metric = "requests"
      BY <1>7, <1>8, <2>2
    <2>3. CASE u.project = p /\ u.metric = "time"
      BY <1>7, <1>8, <2>3
    <2>4. QED
      BY <1>1, <2>1, <2>2, <2>3
  <1>11. totals'[p] = [requests |-> Total(RecordsOf(p, "requests"))', time |-> Total(RecordsOf(p, "time"))']
    BY <1>6, <1>9, <1>10
  <1>12. /\ totals'[p].requests = IF u.project = p /\ u.metric = "requests" THEN totals[p].requests + u.quantity
                                                                           ELSE totals[p].requests
        /\ totals'[p].time = IF u.project = p /\ u.metric = "time" THEN totals[p].time + u.quantity
                                                                   ELSE totals[p].time
    BY <1>8, <1>10
  <1>13. AtMost(totals[p], totals'[p])
    BY <1>1, <1>3, <1>12 DEF AtMost
  <1>14. CASE u.project = p /\ u.metric = "requests"
    <2>1. KeysOf(p)' = KeysOf(p) \cup {u.key} /\ u.key \notin KeysOf(p)
      BY <1>14 DEF KeysOf, Recorded
    <2>2. /\ IsFiniteSet(KeysOf(p) \cup {u.key})
          /\ Cardinality(KeysOf(p) \cup {u.key}) = Cardinality(KeysOf(p)) + 1
      BY <1>4, <2>1, FS_AddElement
    <2>3. u.quantity \in Nat /\ u.quantity <= 2 /\ totals'[p].requests = totals[p].requests + u.quantity
      BY <1>1, <1>12, <1>14
    <2>4. totals'[p].requests <= 2 * (Cardinality(KeysOf(p)) + 1)
      BY <1>3, <1>4, <2>3
    <2>5. QED
      BY <1>11, <1>13, <2>1, <2>2, <2>4
  <1>15. CASE ~(u.project = p /\ u.metric = "requests")
    <2>1. KeysOf(p)' = KeysOf(p)
      BY <1>15 DEF KeysOf
    <2>2. QED
      BY <1>4, <1>11, <1>12, <1>13, <1>15, <2>1
  <1>16. QED
    BY <1>14, <1>15

\* Nothing is recorded, and what is invoiced or will be is what the totals were.
LEMMA UsageStays ==
  ASSUME Typed, UsageOK, UNCHANGED <<usage, totals>>,
         \A p \in Projects : Invoiced(p)' => \/ invoices'[p] = invoices[p] /\ Invoiced(p)
                                             \/ AtMost(invoices'[p].used, totals[p]),
         \A d \in Callers : calls'[d].op = "finalize" =>
           calls'[d] = calls[d] \/ AtMost(calls'[d].used, totals[calls'[d].project])
  PROVE  UsageOK'
  <1>1. \A p \in Projects : /\ KeysOf(p)' = KeysOf(p)
                            /\ RecordsOf(p, "requests")' = RecordsOf(p, "requests")
                            /\ RecordsOf(p, "time")' = RecordsOf(p, "time")
    BY DEF KeysOf, RecordsOf
  <1>2. \A p \in Projects :
          totals'[p] = [requests |-> Total(RecordsOf(p, "requests"))', time |-> Total(RecordsOf(p, "time"))']
    BY <1>1 DEF UsageOK
  <1>3. QED
    BY <1>1, <1>2 DEF UsageOK

LEMMA NextUsage == Typed /\ UsageOK /\ [Next]_vars => UsageOK'
  <1> SUFFICES ASSUME Typed, UsageOK, [Next]_vars PROVE UsageOK'
    OBVIOUS
  <1>1. ASSUME NEW c \in Callers, Call(c) PROVE UsageOK'
    <2>1. UNCHANGED <<usage, totals, invoices>>
      BY <1>1, CallQuiet DEF metered
    <2>2. \A d \in Callers : d # c => calls'[d] = calls[d]
      BY <1>1, CallBegins
    <2>3. \E call : /\ calls' = [calls EXCEPT ![c] = call]
                    /\ call.op = "finalize" => AtMost(call.used, totals[call.project])
      <3>1. ASSUME NEW call, Start(c, call), call.op # "finalize"
            PROVE  \E x : /\ calls' = [calls EXCEPT ![c] = x]
                          /\ x.op = "finalize" => AtMost(x.used, totals[x.project])
        BY <3>1 DEF Start
      <3>2. CASE \E a \in Accounts, e \in Emails : CreateAccount(c, a, e)
        BY <3>1, <3>2 DEF CreateAccount
      <3>3. CASE \E a \in Accounts, p \in Projects, plan \in Plans : CreateProject(c, a, p, plan)
        BY <3>1, <3>3 DEF CreateProject
      <3>4. CASE \E p \in Projects, plan \in Plans : ChangePlan(c, p, plan)
        BY <3>1, <3>4 DEF ChangePlan
      <3>5. CASE \E a \in Accounts : DeleteAccount(c, a)
        BY <3>1, <3>5 DEF DeleteAccount
      <3>6. CASE \E e \in Events, via \in {"billing", "payments"} : Deliver(c, e, via)
        BY <3>1, <3>6 DEF Deliver
      <3>7. CASE \E p \in Projects, key \in UsageKeys, quantity \in {1, 2} :
                   RecordUsage(c, p, key, quantity)
        BY <3>1, <3>7 DEF RecordUsage
      <3>8. CASE \E p \in Projects : Sample(c, p)
        BY <3>1, <3>8 DEF Sample
      <3>9. CASE \E p \in Projects, k \in ActionKeys : Act(c, p, k)
        BY <3>1, <3>9 DEF Act
      <3>10. ASSUME NEW p \in Projects, FinalizeInvoice(c, p)
             PROVE  \E x : /\ calls' = [calls EXCEPT ![c] = x]
                           /\ x.op = "finalize" => AtMost(x.used, totals[x.project])
        <4> DEFINE call == [op |-> "finalize", project |-> p, plan |-> projects[p].plan, used |-> totals[p]]
        <4>1. calls' = [calls EXCEPT ![c] = call] /\ call.used = totals[p] /\ call.project = p
          BY <3>10 DEF FinalizeInvoice, Start
        <4>2. totals[p].requests \in Nat /\ totals[p].time \in Nat
          BY DEF Typed, Totals
        <4>3. AtMost(totals[p], totals[p])
          BY <4>2 DEF AtMost
        <4> HIDE DEF call
        <4>4. QED
          BY <4>1, <4>3
      <3>11. QED
        BY <1>1, <3>2, <3>3, <3>4, <3>5, <3>6, <3>7, <3>8, <3>9, <3>10 DEF Call
    <2>4. calls'[c].op = "finalize" => AtMost(calls'[c].used, totals[calls'[c].project])
      BY <2>3, CallsAfter DEF Typed
    <2>5. \A p \in Projects : Invoiced(p)' => \/ invoices'[p] = invoices[p] /\ Invoiced(p)
      BY <2>1 DEF Invoiced
    <2>6. QED
      BY <2>1, <2>2, <2>4, <2>5, UsageStays
  <1>2. ASSUME NEW c \in Callers, NEW call, calls' = [calls EXCEPT ![c] = call], call.op # "finalize",
               UNCHANGED <<usage, totals, invoices>>
        PROVE  UsageOK'
    <2>1. calls'[c] = call /\ \A d \in Callers : d # c => calls'[d] = calls[d]
      BY <1>2, CallsAfter DEF Typed
    <2>2. QED
      BY <1>2, <2>1, UsageStays DEF Invoiced
  <1>3. ASSUME NEW c \in Callers, InvoiceFinalized(c) PROVE UsageOK'
    <2> DEFINE call == calls[c]
    <2>1. /\ call.op = "finalize" /\ UNCHANGED <<usage, totals>> /\ call.project \in Projects
          /\ calls' = [calls EXCEPT ![c] = Idle]
      BY <1>3 DEF InvoiceFinalized, Return, Typed, Carries
    <2>2. calls'[c].op = "idle" /\ \A d \in Callers : d # c => calls'[d] = calls[d]
      BY <2>1, CallsAfter DEF Typed, Idle
    <2>3. AtMost(call.used, totals[call.project])
      BY <2>1 DEF UsageOK
    <2>4. \A p \in Projects : \/ invoices'[p] = invoices[p]
                              \/ p = call.project /\ invoices'[p].used = call.used
      BY <1>3 DEF InvoiceFinalized, Typed
    <2>5. \A p \in Projects : Invoiced(p)' => \/ invoices'[p] = invoices[p] /\ Invoiced(p)
                                              \/ AtMost(invoices'[p].used, totals[p])
      BY <2>3, <2>4 DEF Invoiced
    <2>6. QED
      BY <2>1, <2>2, <2>5, UsageStays
  <1>4. ASSUME NEW c \in Callers, UsageRecorded(c) PROVE UsageOK'
    <2>0. PICK u : u = calls[c].event
      OBVIOUS
    <2>1. /\ calls' = [calls EXCEPT ![c] = Idle] /\ invoices' = invoices /\ UsageRecord(u)
      BY <1>4, <2>0 DEF UsageRecorded, Return, Typed, Carries
    <2>2. calls'[c].op = "idle" /\ \A d \in Callers : d # c => calls'[d] = calls[d]
      BY <2>1, CallsAfter DEF Typed, Idle
    <2>3. CASE Recorded(u)
      <3>1. UNCHANGED <<usage, totals>>
        BY <1>4, <2>0, <2>3 DEF UsageRecorded
      <3>2. QED
        BY <2>1, <2>2, <3>1, UsageStays DEF Invoiced
    <2>4. CASE ~Recorded(u)
      <3>1. usage' = usage \cup {u} /\ totals' = [totals EXCEPT ![u.project][u.metric] = @ + u.quantity]
        BY <1>4, <2>0, <2>4 DEF UsageRecorded
      <3>2. \A p \in Projects :
              /\ totals'[p] = [requests |-> Total(RecordsOf(p, "requests"))',
                               time |-> Total(RecordsOf(p, "time"))']
              /\ AtMost(totals[p], totals'[p])
              /\ IsFiniteSet(KeysOf(p))' /\ totals'[p].requests <= 2 * Cardinality(KeysOf(p))'
        BY <2>1, <2>4, <3>1, RecordAdds
      <3>3. IsFiniteSet(usage')
        BY <3>1, FS_AddElement DEF UsageOK
      <3>4. totals' \in [Projects -> Totals]
        <4>1. Typed'
          BY <1>4, UsageTyped
        <4>2. QED
          BY <4>1 DEF Typed
      <3>5. ASSUME NEW p \in Projects, NEW used \in Totals, AtMost(used, totals[p])
            PROVE  AtMost(used, totals'[p])
        <4>1. totals[p] \in Totals /\ totals'[p] \in Totals /\ AtMost(totals[p], totals'[p])
          BY <3>2, <3>4 DEF Typed
        <4>2. /\ used.requests \in Nat /\ totals[p].requests \in Nat /\ totals'[p].requests \in Nat
              /\ used.time \in Nat /\ totals[p].time \in Nat /\ totals'[p].time \in Nat
          BY <4>1 DEF Totals
        <4>3. QED
          BY <3>5, <4>1, <4>2 DEF AtMost
      <3>6. \A p \in Projects : Invoiced(p)' => AtMost(invoices'[p].used, totals'[p])
        BY <2>1, <3>5 DEF UsageOK, Invoiced, Typed
      <3>7. \A d \in Callers :
              calls'[d].op = "finalize" => AtMost(calls'[d].used, totals'[calls'[d].project])
        <4> SUFFICES ASSUME NEW d \in Callers, calls'[d].op = "finalize"
                     PROVE  AtMost(calls'[d].used, totals'[calls'[d].project])
          OBVIOUS
        <4>1. calls'[d] = calls[d]
          BY <2>2
        <4>2. /\ calls[d].project \in Projects /\ calls[d].used \in Totals
              /\ AtMost(calls[d].used, totals[calls[d].project])
          BY <4>1 DEF Typed, Carries, UsageOK
        <4>3. QED
          BY <3>5, <4>1, <4>2
      <3>8. QED
        BY <3>2, <3>3, <3>6, <3>7 DEF UsageOK
    <2>5. QED
      BY <2>3, <2>4
  <1>5. ASSUME NEW c \in Callers,
               \/ AccountCreated(c) \/ ProjectCreated(c) \/ PlanChanged(c) \/ AccountDeleted(c)
               \/ EventProcessed(c) \/ Measured(c) \/ ActionRecorded(c) \/ TransactionFails(c)
               \/ \E answer \in {"result", "error", "invalid"}, acted \in BOOLEAN :
                    ProviderAnswers(c, answer, acted)
        PROVE  UsageOK'
    <2>1. UNCHANGED <<usage, totals, invoices>>
      BY <1>5 DEF AccountCreated, ProjectCreated, PlanChanged, AccountDeleted, EventProcessed, Measured,
         ActionRecorded, TransactionFails, ProviderAnswers, metered
    <2>2. \E call : calls' = [calls EXCEPT ![c] = call] /\ call.op # "finalize"
      BY <1>5 DEF AccountCreated, ProjectCreated, PlanChanged, AccountDeleted, EventProcessed, Measured,
         ActionRecorded, TransactionFails, ProviderAnswers, Return, Idle
    <2>3. QED
      BY <1>2, <2>1, <2>2
  <1>6. CASE Restart \/ Tick \/ UNCHANGED vars
    <2>1. /\ UNCHANGED <<usage, totals, invoices>>
          /\ \A d \in Callers : calls'[d] = calls[d] \/ calls'[d].op = "idle"
      BY <1>6 DEF Restart, Tick, vars, metered, Idle
    <2>2. QED
      BY <2>1, UsageStays DEF Invoiced
  <1>7. QED
    BY <1>1, <1>3, <1>4, <1>5, <1>6 DEF Next, Step

\* What the windows in flight add up to, now and after a step.
WindowKnown ==
  /\ Windows(Callers) \in Nat
  /\ (\A c \in Callers : calls[c].op # "window") => Windows(Callers) = 0
  /\ \A c \in Callers : calls[c].op = "window" => Windows(Callers) = calls[c].event.quantity

LEMMA KnownNow == Typed /\ Serial => WindowKnown
  BY WindowsAre DEF WindowKnown

LEMMA KnownThen == Typed' /\ Serial' => WindowKnown'
  BY KnownNow, PTL

\* The numbers that TimeOK is about.
LEMMA TimeTypes ==
  ASSUME Typed, Serial, UsageOK
  PROVE  /\ Total(TimeRecords) \in Nat /\ Windows(Callers) \in Nat /\ lost \in Nat /\ Metered \in Nat
         /\ now \in Nat /\ lastAt \in Int /\ lastAt >= -1 /\ risen \in Nat
         /\ \A u \in TimeRecords : u.read \in Nat /\ u.quantity \in Nat \ {0}
         /\ \A c \in Callers :
              /\ calls[c].op = "sample" => calls[c].at \in Nat /\ calls[c].read \in Nat
              /\ calls[c].op = "window" =>
                   /\ calls[c].event.metric = "time" /\ calls[c].event.read \in Nat
                   /\ calls[c].event.quantity \in Nat \ {0}
  <1>1. now \in Nat /\ lastAt \in Int /\ lastAt >= -1 /\ risen \in Nat /\ lost \in Nat
    BY ControlPlaneAssumption DEF Typed
  <1>2. Total(TimeRecords) \in Nat
    <2>1. TimeRecords \in SUBSET usage
      BY DEF TimeRecords
    <2>2. QED
      BY <2>1, SomeQuantified, TotalIsNat
  <1>3. Windows(Callers) \in Nat
    BY KnownNow DEF WindowKnown
  <1>4. \A u \in TimeRecords : u.read \in Nat /\ u.quantity \in Nat \ {0}
    BY DEF TimeRecords, Typed, UsageRecord
  <1>5. ASSUME NEW c \in Callers
        PROVE  /\ calls[c].op = "sample" => calls[c].at \in Nat /\ calls[c].read \in Nat
               /\ calls[c].op = "window" =>
                    /\ calls[c].event.metric = "time" /\ calls[c].event.read \in Nat
                    /\ calls[c].event.quantity \in Nat \ {0}
    <2>1. Carries(calls[c])
      BY DEF Typed
    <2>2. calls[c].op = "sample" => calls[c].at \in Nat /\ calls[c].read \in Nat
      BY <2>1, ControlPlaneAssumption DEF Carries
    <2>3. calls[c].op = "window" => UsageRecord(calls[c].event) /\ calls[c].event.metric = "time"
      BY <2>1 DEF Carries
    <2>4. QED
      BY <2>2, <2>3 DEF UsageRecord
  <1>6. Metered \in Nat
    BY <1>1, <1>2, <1>3 DEF Metered
  <1>7. QED
    BY <1>1, <1>2, <1>3, <1>4, <1>5, <1>6

\* The clock gains on itself no more than it goes forward.
ClockGains == risen' >= risen /\ now' - now <= risen' - risen

LEMMA ClockSteps == ASSUME Typed, Tick \/ UNCHANGED clock PROVE ClockGains
  <1>1. now \in Nat /\ risen \in Nat
    BY ControlPlaneAssumption DEF Typed
  <1>2. CASE UNCHANGED clock
    BY <1>1, <1>2 DEF clock, ClockGains
  <1>3. CASE Tick
    <2>1. /\ now' \in Nat /\ (now' > now => risen' = risen + (now' - now))
          /\ ~(now' > now) => risen' = risen
      BY <1>3, ControlPlaneAssumption DEF Tick
    <2>2. QED
      BY <1>1, <2>1 DEF ClockGains
  <1>4. QED
    BY <1>2, <1>3

LEMMA GainsAdd ==
  \A a, b, s, t, x, z \in Int : b - a <= t - s /\ a - x <= s - z => b - x <= t - z
  OBVIOUS

\* A step after which everything metered, and the sample or window in flight,
\* is what it was.
LEMMA TimeStays ==
  ASSUME Typed, Serial, UsageOK, TimeOK, Typed', Serial',
         TimeRecords' = TimeRecords, lost' = lost, lastAt' = lastAt, ClockGains,
         \A d \in Callers : calls'[d] = calls[d] \/ (~Sampling(d) /\ ~Sampling(d)')
  PROVE  TimeOK'
  <1>0. PICK r \in Nat : MeteredUntil(r)
    BY DEF TimeOK
  <1>1. WindowKnown /\ WindowKnown'
    BY KnownNow, KnownThen
  <1>2. Windows(Callers)' = Windows(Callers)
    <2>1. CASE \A c \in Callers : calls[c].op # "window"
      <3>1. \A c \in Callers : calls'[c].op # "window"
        BY <2>1 DEF Sampling
      <3>2. QED
        BY <1>1, <2>1, <3>1 DEF WindowKnown
    <2>2. ASSUME NEW c \in Callers, calls[c].op = "window" PROVE Windows(Callers)' = Windows(Callers)
      <3>1. calls'[c] = calls[c]
        BY <2>2 DEF Sampling
      <3>2. QED
        BY <1>1, <2>2, <3>1 DEF WindowKnown
    <2>3. QED
      BY <2>1, <2>2
  <1>3. Metered' = Metered
    BY <1>2 DEF Metered
  <1>4. now \in Nat /\ risen \in Nat /\ now' \in Nat /\ risen' \in Nat /\ lastAt \in Int
    BY ControlPlaneAssumption DEF Typed
  <1>5. r <= risen' /\ (lastAt # -1 => now' - lastAt <= risen' - r)
    <2>1. r <= risen /\ (lastAt # -1 => now - lastAt <= risen - r)
      BY <1>0 DEF MeteredUntil
    <2>2. risen' >= risen /\ now' - now <= risen' - risen
      BY DEF ClockGains
    <2>3. r <= risen'
      BY <1>4, <2>1, <2>2
    <2>4. ASSUME now - lastAt <= risen - r PROVE now' - lastAt <= risen' - r
      <3>1. now \in Int /\ now' \in Int /\ risen \in Int /\ risen' \in Int /\ lastAt \in Int /\ r \in Int
        BY <1>0, <1>4
      <3>2. QED
        <4>1. PICK a \in Int, b \in Int, s \in Int, t \in Int, x \in Int : a = now /\ b = now' /\ s = risen /\ t = risen' /\ x = lastAt
          BY <3>1
        <4>2. b - a <= t - s /\ a - x <= s - r
          BY ONLY <2>2, <2>4, <4>1
        <4>3. b - x <= t - r
          BY ONLY <3>1, <4>1, <4>2, GainsAdd
        <4>4. QED
          BY ONLY <4>1, <4>3
    <2>5. QED
      BY <2>1, <2>3, <2>4
  <1>6. ASSUME NEW c \in Callers, calls'[c].op \in {"sample", "window"}
        PROVE  /\ calls'[c] = calls[c]
               /\ calls[c].op = "sample" => /\ calls[c].read <= risen'
                                            /\ now' - calls[c].at <= risen' - calls[c].read
    <2>1. calls'[c] = calls[c]
      BY <1>6 DEF Sampling
    <2>2. calls[c].op = "sample" => /\ calls[c].at \in Nat /\ calls[c].read \in Nat
                                    /\ calls[c].read <= risen
                                    /\ now - calls[c].at <= risen - calls[c].read
      BY <1>0, TimeTypes DEF MeteredUntil
    <2>3. QED
      BY <1>4, <2>1, <2>2 DEF ClockGains
  <1>7. MeteredUntil(r)'
    BY <1>0, <1>3, <1>5, <1>6 DEF MeteredUntil
  <1>8. QED
    BY <1>7 DEF TimeOK

\* A step that leaves the records and the sampler alone.
LEMMA OneTimeStays ==
  ASSUME Typed, Serial, UsageOK, TimeOK, Typed', Serial',
         TimeRecords' = TimeRecords, lost' = lost, lastAt' = lastAt, UNCHANGED clock,
         NEW c \in Callers, NEW call, calls' = [calls EXCEPT ![c] = call],
         ~Sampling(c), call.op \notin {"sample", "window"}
  PROVE  TimeOK'
  <1>1. calls'[c] = call /\ \A d \in Callers : d # c => calls'[d] = calls[d]
    BY CallsAfter DEF Typed
  <1>2. \A d \in Callers : calls'[d] = calls[d] \/ (~Sampling(d) /\ ~Sampling(d)')
    BY <1>1 DEF Sampling
  <1>3. QED
    BY <1>2, ClockSteps, TimeStays

\* The clock is read after everything that is metered.
LEMMA SampleTime ==
  ASSUME Typed, Serial, UsageOK, TimeOK, Typed', Serial', NEW c \in Callers, NEW p \in Projects, Sample(c, p)
  PROVE  TimeOK'
  <1>0. PICK r \in Nat : MeteredUntil(r)
    BY DEF TimeOK
  <1>1. /\ calls' = [calls EXCEPT ![c] = [op |-> "sample", project |-> p, at |-> now, read |-> risen]]
        /\ UNCHANGED <<usage, lost, lastAt, now, risen>> /\ \A d \in Callers : ~Sampling(d)
    BY DEF Sample, Start, Begun, SamplerFree, Pending, Sampling, metered, clock, ghosts
  <1>2. /\ calls'[c] = [op |-> "sample", project |-> p, at |-> now, read |-> risen]
        /\ \A d \in Callers : d # c => calls'[d] = calls[d]
    BY <1>1, CallsAfter DEF Typed
  <1>3. /\ \A d \in Callers : calls[d].op # "window" /\ calls'[d].op # "window"
        /\ \A d \in Callers : calls'[d].op = "sample" => calls'[d].at = now /\ calls'[d].read = risen
    BY <1>1, <1>2 DEF Sampling
  <1>4. Windows(Callers) = 0 /\ Windows(Callers)' = 0
    BY <1>3, KnownNow, KnownThen DEF WindowKnown
  <1>5. TimeRecords' = TimeRecords
    BY <1>1 DEF TimeRecords
  <1>6. Metered' = Metered
    BY <1>1, <1>4, <1>5 DEF Metered
  <1>7. now - now <= risen - risen /\ risen <= risen
    BY TimeTypes
  <1>8. MeteredUntil(r)'
    BY <1>0, <1>1, <1>3, <1>5, <1>6, <1>7 DEF MeteredUntil
  <1>9. QED
    BY <1>8 DEF TimeOK

\* The time since the last reading becomes a window, or is lost.
LEMMA MeasuredTime ==
  ASSUME Typed, Serial, UsageOK, TimeOK, Typed', Serial', NEW c \in Callers, Measured(c)
  PROVE  TimeOK'
  <1> DEFINE call == calls[c]
  <1>0. PICK r \in Nat : MeteredUntil(r)
    BY DEF TimeOK
  <1>1. PICK elapsed : elapsed = IF call.at > lastAt THEN call.at - lastAt ELSE 0
    OBVIOUS
  <1>2. /\ call.op = "sample" /\ lastAt' = call.at /\ UNCHANGED <<usage, now, risen>>
    BY DEF Measured, metered, clock
  <1>3. /\ call.at \in Nat /\ call.read \in Nat /\ lastAt \in Int /\ lastAt >= -1
        /\ now \in Nat /\ risen \in Nat
        /\ r <= call.read /\ call.read <= risen /\ now - call.at <= risen - call.read
        /\ lastAt # -1 => call.at - lastAt <= call.read - r
        /\ \A v \in TimeRecords : v.read <= r /\ v.read \in Nat
    BY <1>0, <1>2, TimeTypes DEF MeteredUntil
  <1>4. elapsed \in Nat /\ (lastAt # -1 => elapsed <= call.read - r)
    BY <1>1, <1>3
  <1>5. \A d \in Callers : d # c => ~Sampling(d)
    BY <1>2 DEF Serial, Sampling
  <1>6. Windows(Callers) = 0
    <2>1. \A d \in Callers : calls[d].op # "window"
      BY <1>2, <1>5 DEF Sampling
    <2>2. QED
      BY <2>1, KnownNow DEF WindowKnown
  <1>7. TimeRecords' = TimeRecords
    BY <1>2 DEF TimeRecords
  <1>8. /\ Total(TimeRecords) \in Nat /\ lost \in Nat /\ Metered = Total(TimeRecords) + lost
        /\ Metered <= r
    BY <1>0, <1>6, TimeTypes DEF Metered, MeteredUntil
  <1>9. \A v \in TimeRecords : v.read <= call.read
    BY <1>3
  <1>10. ASSUME Metered' <= call.read,
                \A d \in Callers :
                  /\ calls'[d].op # "sample"
                  /\ calls'[d].op = "window" =>
                       /\ calls'[d].event.read = call.read
                       /\ \A v \in TimeRecords : v.read <= calls'[d].event.read - calls'[d].event.quantity
         PROVE  TimeOK'
    <2>1. PICK read \in Nat : read = call.read
      BY <1>3
    <2>2. /\ read <= risen /\ now - lastAt' <= risen - read /\ \A v \in TimeRecords : v.read <= read
      BY <1>2, <1>3, <1>9, <2>1
    <2>3. MeteredUntil(read)'
      BY <1>0, <1>2, <1>7, <1>10, <2>1, <2>2 DEF MeteredUntil
    <2>4. QED
      BY <2>3 DEF TimeOK
  <1>11. ASSUME calls' = [calls EXCEPT ![c] = Idle], lost' = lost \/ (lastAt # -1 /\ lost' = lost + elapsed)
         PROVE  TimeOK'
    <2>1. \A d \in Callers : ~Sampling(d)'
      BY <1>5, <1>11, CallsAfter DEF Typed, Sampling, Idle
    <2>2. Windows(Callers)' = 0
      BY <2>1, KnownThen DEF WindowKnown, Sampling
    <2>3. Metered' = Total(TimeRecords) + lost'
      BY <1>4, <1>7, <1>8, <1>11, <2>2 DEF Metered
    <2>4. Metered' <= call.read
      BY <1>3, <1>4, <1>8, <1>11, <2>3
    <2>5. QED
      BY <1>10, <2>1, <2>4 DEF Sampling
  <1>12. ASSUME NEW u, u.read = call.read, u.quantity = elapsed,
                calls' = [calls EXCEPT ![c] = [op |-> "window", event |-> u]], lost' = lost, lastAt # -1
         PROVE  TimeOK'
    <2>1. /\ calls'[c].op = "window" /\ calls'[c].event = u
          /\ \A d \in Callers : d # c => calls'[d] = calls[d]
      BY <1>12, CallsAfter DEF Typed
    <2>2. Windows(Callers)' = elapsed
      BY <1>12, <2>1, KnownThen DEF WindowKnown
    <2>3. Metered' = Total(TimeRecords) + elapsed + lost
      BY <1>7, <1>12, <2>2 DEF Metered
    <2>4. Metered' <= call.read
      BY <1>3, <1>4, <1>8, <1>12, <2>3
    <2>5. \A v \in TimeRecords : v.read <= u.read - u.quantity
      BY <1>3, <1>4, <1>12
    <2>6. \A d \in Callers : /\ calls'[d].op # "sample"
                             /\ calls'[d].op = "window" => calls'[d].event = u
      BY <1>5, <2>1 DEF Sampling
    <2>7. QED
      BY <1>10, <1>12, <2>4, <2>5, <2>6
  <1>13. QED
    <2>1. CASE lastAt = -1 \/ elapsed = 0
      BY <1>1, <1>11, <2>1 DEF Measured
    <2>2. CASE ~(lastAt = -1 \/ elapsed = 0) /\ ~Active(call.project)
      BY <1>1, <1>11, <2>2 DEF Measured
    <2>3. CASE ~(lastAt = -1 \/ elapsed = 0) /\ Active(call.project)
      <3>1. lost' = lost
        BY <1>1, <2>3 DEF Measured
      <3>2. PICK size \in Sizes : calls' = [calls EXCEPT ![c] = [op |-> "window", event |->
                 [project |-> call.project, metric |-> "time", key |-> <<call.at, size>>,
                  quantity |-> elapsed, read |-> call.read]]]
        BY <1>1, <2>3 DEF Measured
      <3>3. PICK u : u = [project |-> call.project, metric |-> "time", key |-> <<call.at, size>>,
                          quantity |-> elapsed, read |-> call.read]
        OBVIOUS
      <3>4. u.read = call.read /\ u.quantity = elapsed
        BY <3>3
      <3>5. calls' = [calls EXCEPT ![c] = [op |-> "window", event |-> u]]
        BY <3>2, <3>3
      <3>6. QED
        BY <1>12, <2>3, <3>1, <3>4, <3>5
    <2>4. QED
      BY <2>1, <2>2, <2>3

\* A window is recorded, after every other one; or its key is known, and it is lost.
LEMMA RecordTime ==
  ASSUME Typed, Serial, UsageOK, TimeOK, Typed', Serial', NEW c \in Callers, UsageRecorded(c)
  PROVE  TimeOK'
  <1>0. PICK u : u = calls[c].event
    OBVIOUS
  <1>1. /\ calls[c].op \in {"record", "window"} /\ calls' = [calls EXCEPT ![c] = Idle]
        /\ UNCHANGED <<clock, lastAt>> /\ UsageRecord(u)
        /\ usage' = IF Recorded(u) THEN usage ELSE usage \cup {u}
        /\ lost' = IF calls[c].op = "window" /\ Recorded(u) THEN lost + u.quantity ELSE lost
    BY <1>0 DEF UsageRecorded, Return, Typed, Carries
  <1>2. CASE calls[c].op = "record"
    <2>1. u.metric # "time"
      BY <1>0, <1>2 DEF Typed, Carries
    <2>2. TimeRecords' = TimeRecords
      BY <1>1, <2>1 DEF TimeRecords
    <2>3. ~Sampling(c) /\ Idle.op = "idle"
      BY <1>2 DEF Sampling, Idle
    <2>4. QED
      BY <1>1, <1>2, <2>2, <2>3, OneTimeStays
  <1>3. CASE calls[c].op = "window"
    <2>0. PICK r \in Nat : MeteredUntil(r)
      BY DEF TimeOK
    <2>1. /\ u.metric = "time" /\ u.quantity \in Nat \ {0} /\ u.read = r
          /\ \A v \in TimeRecords : v.read <= u.read - u.quantity /\ v.read \in Nat
      BY <1>0, <1>3, <2>0, TimeTypes DEF MeteredUntil
    <2>2. \A d \in Callers : ~Sampling(d)'
      <3>1. \A d \in Callers : d # c => ~Sampling(d)
        BY <1>3 DEF Serial, Sampling
      <3>2. QED
        BY <1>1, <3>1, CallsAfter DEF Typed, Sampling, Idle
    <2>3. Windows(Callers) = u.quantity /\ Windows(Callers)' = 0
      BY <1>0, <1>3, <2>2, KnownNow, KnownThen DEF WindowKnown, Sampling
    <2>4. Total(TimeRecords) \in Nat /\ lost \in Nat
      BY TimeTypes
    <2>5. CASE Recorded(u)
      <3>1. TimeRecords' = TimeRecords /\ lost' = lost + u.quantity
        BY <1>1, <1>3, <2>5 DEF TimeRecords
      <3>2. Metered' = Metered
        BY <2>1, <2>3, <2>4, <3>1 DEF Metered
      <3>3. MeteredUntil(r)'
        BY <1>1, <2>0, <2>2, <3>1, <3>2 DEF MeteredUntil, Sampling, clock
      <3>4. QED
        BY <3>3 DEF TimeOK
    <2>6. CASE ~Recorded(u)
      <3>1. TimeRecords' = TimeRecords \cup {u} /\ u \notin TimeRecords /\ lost' = lost
        BY <1>1, <2>1, <2>6 DEF TimeRecords, Recorded
      <3>2. TimeRecords \in SUBSET usage
        BY DEF TimeRecords
      <3>3. Quantified(TimeRecords)
        BY <3>2, SomeQuantified
      <3>4. Total(TimeRecords \cup {u}) = Total(TimeRecords) + u.quantity
        BY <2>1, <3>1, <3>3, TotalGrows
      <3>5. Total(TimeRecords)' = Total(TimeRecords) + u.quantity
        BY <3>1, <3>4
      <3>6. Metered' = Metered
        BY <2>1, <2>3, <2>4, <3>1, <3>5 DEF Metered
      <3>7. \A v \in TimeRecords' : v.read <= r
        BY <2>1, <3>1
      <3>8. \A v, w \in TimeRecords' :
              v # w => v.read <= w.read - w.quantity \/ w.read <= v.read - v.quantity
        BY <2>0, <2>1, <3>1 DEF MeteredUntil
      <3>9. MeteredUntil(r)'
        BY <1>1, <2>0, <2>2, <3>6, <3>7, <3>8 DEF MeteredUntil, Sampling, clock
      <3>10. QED
        BY <3>9 DEF TimeOK
    <2>7. QED
      BY <2>5, <2>6
  <1>4. QED
    BY <1>1, <1>2, <1>3

\* What is in flight when a transaction fails or the process stops is lost.
LEMMA FaultTime ==
  ASSUME Typed, Serial, UsageOK, TimeOK, Typed', Serial',
         Restart \/ \E c \in Callers : TransactionFails(c)
  PROVE  TimeOK'
  <1>0. PICK r \in Nat : MeteredUntil(r)
    BY DEF TimeOK
  <1>1. CASE Restart
    <2>1. /\ \A d \in Callers : ~Sampling(d)' /\ UNCHANGED <<usage, clock>>
      BY <1>1 DEF Restart, Sampling, Idle, metered
    <2>2. lastAt' = -1 /\ lost' = lost + Windows(Callers)
      BY <1>1 DEF Restart
    <2>3. Windows(Callers)' = 0
      BY <2>1, KnownThen DEF WindowKnown, Sampling
    <2>4. TimeRecords' = TimeRecords
      BY <1>1 DEF TimeRecords, Restart, metered
    <2>5. Metered' = Metered
      BY <2>2, <2>3, <2>4, TimeTypes DEF Metered
    <2>6. UNCHANGED <<now, risen>>
      BY <1>1 DEF Restart, clock
    <2>7. MeteredUntil(r)'
      BY <1>0, <2>1, <2>2, <2>4, <2>5, <2>6 DEF MeteredUntil, Sampling
    <2>8. QED
      BY <2>7 DEF TimeOK
  <1>2. ASSUME NEW c \in Callers, TransactionFails(c) PROVE TimeOK'
    <2>1. /\ calls' = [calls EXCEPT ![c] = Idle]
          /\ lost' = lost + Windows({c}) /\ UNCHANGED <<usage, clock, lastAt>>
      BY <1>2 DEF TransactionFails, metered
    <2>2. TimeRecords' = TimeRecords
      BY <2>1 DEF TimeRecords
    <2>3. CASE calls[c].op \notin {"sample", "window"}
      <3>1. Windows({c}) = 0
        BY <2>3, WindowsAre
      <3>2. lost' = lost /\ ~Sampling(c) /\ Idle.op = "idle"
        BY <2>1, <2>3, <3>1 DEF Typed, Sampling, Idle
      <3>3. QED
        BY <2>1, <2>2, <3>2, OneTimeStays
    <2>4. CASE calls[c].op \in {"sample", "window"}
      <3>1. Windows({c}) = Windows(Callers)
        <4>1. CASE calls[c].op = "window"
          BY <4>1, WindowsAre
        <4>2. CASE calls[c].op = "sample"
          <5>1. \A d \in Callers : calls[d].op # "window"
            BY <4>2 DEF Serial, Sampling
          <5>2. QED
            BY <5>1, WindowsAre
        <4>3. QED
          BY <2>4, <4>1, <4>2
      <3>2. \A d \in Callers : ~Sampling(d)'
        <4>1. \A d \in Callers : d # c => ~Sampling(d)
          BY <2>4 DEF Serial, Sampling
        <4>2. QED
          BY <2>1, <4>1, CallsAfter DEF Typed, Sampling, Idle
      <3>3. Windows(Callers)' = 0
        BY <3>2, KnownThen DEF WindowKnown, Sampling
      <3>4. Metered' = Metered
        BY <2>1, <2>2, <3>1, <3>3, TimeTypes DEF Metered
      <3>5. UNCHANGED <<now, risen>>
        BY <2>1 DEF clock
      <3>6. MeteredUntil(r)'
        BY <1>0, <2>1, <2>2, <3>2, <3>4, <3>5 DEF MeteredUntil, Sampling
      <3>7. QED
        BY <3>6 DEF TimeOK
    <2>5. QED
      BY <2>3, <2>4
  <1>3. QED
    BY <1>1, <1>2

LEMMA NextTime ==
  ASSUME Typed, Serial, UsageOK, TimeOK, Typed', Serial', [Next]_vars PROVE TimeOK'
  <1>1. ASSUME NEW c \in Callers, Call(c), ~\E p \in Projects : Sample(c, p) PROVE TimeOK'
    <2>1. UNCHANGED <<usage, clock, lastAt, lost>>
      BY <1>1, CallQuiet DEF metered
    <2>2. calls[c] = Idle /\ \E call : calls' = [calls EXCEPT ![c] = call] /\ call.op \notin {"sample", "window"}
      <3>1. ASSUME NEW call, Start(c, call), call.op \notin {"sample", "window"}
            PROVE  calls[c] = Idle
                   /\ \E x : calls' = [calls EXCEPT ![c] = x] /\ x.op \notin {"sample", "window"}
        BY <3>1 DEF Start
      <3>2. CASE \E a \in Accounts, e \in Emails : CreateAccount(c, a, e)
        BY <3>1, <3>2 DEF CreateAccount
      <3>3. CASE \E a \in Accounts, p \in Projects, plan \in Plans : CreateProject(c, a, p, plan)
        BY <3>1, <3>3 DEF CreateProject
      <3>4. CASE \E p \in Projects, plan \in Plans : ChangePlan(c, p, plan)
        BY <3>1, <3>4 DEF ChangePlan
      <3>5. CASE \E a \in Accounts : DeleteAccount(c, a)
        BY <3>1, <3>5 DEF DeleteAccount
      <3>6. CASE \E e \in Events, via \in {"billing", "payments"} : Deliver(c, e, via)
        BY <3>1, <3>6 DEF Deliver
      <3>7. CASE \E p \in Projects, key \in UsageKeys, quantity \in {1, 2} :
                   RecordUsage(c, p, key, quantity)
        BY <3>1, <3>7 DEF RecordUsage
      <3>8. CASE \E p \in Projects : FinalizeInvoice(c, p)
        BY <3>1, <3>8 DEF FinalizeInvoice
      <3>9. CASE \E p \in Projects, k \in ActionKeys : Act(c, p, k)
        BY <3>1, <3>9 DEF Act
      <3>10. QED
        BY <1>1, <3>2, <3>3, <3>4, <3>5, <3>6, <3>7, <3>8, <3>9 DEF Call
    <2>3. TimeRecords' = TimeRecords /\ ~Sampling(c)
      BY <2>1, <2>2 DEF TimeRecords, Sampling, Idle
    <2>4. QED
      BY <2>1, <2>2, <2>3, OneTimeStays
  <1>2. ASSUME NEW c \in Callers,
               \/ AccountCreated(c) \/ ProjectCreated(c) \/ PlanChanged(c) \/ AccountDeleted(c)
               \/ EventProcessed(c) \/ InvoiceFinalized(c) \/ ActionRecorded(c)
               \/ \E answer \in {"result", "error", "invalid"}, acted \in BOOLEAN :
                    ProviderAnswers(c, answer, acted)
        PROVE  TimeOK'
    <2>1. UNCHANGED <<usage, clock, lastAt, lost>> /\ calls[c].op \notin {"sample", "window"}
      BY <1>2 DEF AccountCreated, ProjectCreated, PlanChanged, AccountDeleted, EventProcessed,
         InvoiceFinalized, ActionRecorded, ProviderAnswers, Return, metered, ghosts
    <2>2. \E call : calls' = [calls EXCEPT ![c] = call] /\ call.op \notin {"sample", "window"}
      BY <1>2 DEF AccountCreated, ProjectCreated, PlanChanged, AccountDeleted, EventProcessed,
         InvoiceFinalized, ActionRecorded, ProviderAnswers, Return, Idle
    <2>3. TimeRecords' = TimeRecords /\ ~Sampling(c)
      BY <2>1 DEF TimeRecords, Sampling
    <2>4. QED
      BY <2>1, <2>2, <2>3, OneTimeStays
  <1>3. CASE Tick \/ UNCHANGED vars
    <2>1. UNCHANGED <<usage, lastAt, lost, calls>> /\ ClockGains
      BY <1>3, ClockSteps DEF Tick, vars, metered, ghosts
    <2>2. TimeRecords' = TimeRecords
      BY <2>1 DEF TimeRecords
    <2>3. QED
      BY <2>1, <2>2, TimeStays
  <1>4. QED
    BY <1>1, <1>2, <1>3, SampleTime, MeasuredTime, RecordTime, FaultTime DEF Next, Step

LEMMA InitCounted == Init => TimeOK /\ UsageOK /\ BillOK /\ ActionOK
  <1> SUFFICES ASSUME Init PROVE TimeOK /\ UsageOK /\ BillOK /\ ActionOK
    OBVIOUS
  <1>1. /\ usage = {} /\ totals = [p \in Projects |-> [requests |-> 0, time |-> 0]] /\ now = 0
        /\ risen = 0 /\ lastAt = -1 /\ lost = 0 /\ invoices = [p \in Projects |-> None]
        /\ \A c \in Callers : calls[c].op = "idle"
    BY DEF Init, Idle
  <1>2. TimeRecords = {} /\ \A p \in Projects : RecordsOf(p, "requests") = {} /\ RecordsOf(p, "time") = {}
    BY <1>1 DEF TimeRecords, RecordsOf
  <1>3. Total(TimeRecords) = 0
    BY <1>2, TotalNone
  <1>4. Windows(Callers) = 0
    BY <1>1, InitTyped, KnownNow DEF WindowKnown
  <1>5. TimeOK
    <2>1. MeteredUntil(0)
      BY <1>1, <1>2, <1>3, <1>4 DEF MeteredUntil, Metered
    <2>2. QED
      BY <2>1 DEF TimeOK
  <1>6. UsageOK
    <2>1. \A p \in Projects : KeysOf(p) = {}
      BY <1>1 DEF KeysOf
    <2>2. IsFiniteSet({}) /\ Cardinality({}) = 0
      BY FS_EmptySet
    <2>3. \A p \in Projects : totals[p] = [requests |-> Total(RecordsOf(p, "requests")),
                                           time |-> Total(RecordsOf(p, "time"))]
      BY <1>1, <1>2, TotalNone
    <2>4. \A p \in Projects : totals[p].requests = 0 /\ ~Invoiced(p)
      BY <1>1 DEF Invoiced
    <2>5. QED
      BY <1>1, <2>1, <2>2, <2>3, <2>4 DEF UsageOK
  <1>7. BillOK
    BY DEF Init, BillOK
  <1>8. ActionOK
    <2>1. \A k \in ActionKeys : InFlight(k) = {} /\ Acting(k) = {}
      BY <1>1 DEF InFlight, Acting
    <2>2. Cardinality({}) = 0
      BY FS_EmptySet
    <2>3. \A k \in ActionKeys : provided[k] = 0 /\ unsettled[k] = 0
      BY DEF Init
    <2>4. QED
      BY <2>1, <2>2, <2>3 DEF ActionOK, KeyOK
  <1>9. QED
    BY <1>5, <1>6, <1>7, <1>8

-----------------------------------------------------------------------------
(* The theorems.                                                           *)

\* What every step keeps.
Sound == Typed /\ Serial /\ Registry /\ TimeOK /\ UsageOK /\ BillOK /\ ActionOK

\* The collections, the counters and what the calls in flight rely on stay
\* in step, for any accounts, projects, keys, callers and faults.
THEOREM ControlPlaneIsSound == Spec => []Sound
  <1>1. Init => Sound
    BY InitTyped, InitRegistry, InitCounted DEF Sound
  <1>2. Sound /\ [Next]_vars => Sound'
    BY NextTyped, NextSerial, NextRegistry, NextTime, NextUsage, NextBill, NextAction DEF Sound
  <1>3. QED
    BY <1>1, <1>2, PTL DEF Spec

LEMMA SoundTypes == Sound => TypeOK
  <1> SUFFICES ASSUME Sound PROVE TypeOK
    OBVIOUS
  <1>1. Typed
    BY DEF Sound
  <1>3. \A u \in usage :
          u.project \in Projects /\ u.metric \in {"requests", "time"} /\ u.quantity > 0
    BY <1>1 DEF Typed, UsageRecord
  <1>4. \A p \in Projects : invoices[p] = None \/ invoices[p].plan \in Plans
    BY <1>1 DEF Typed, Invoiced
  <1>5. \A c \in Callers : calls[c].op \in {"idle", "window", "answered"} \cup setup.operations
    BY <1>1 DEF Typed, Carries
  <1>6. QED
    BY <1>1, <1>3, <1>4, <1>5 DEF Typed, TypeOK, Kept, Totals

\* Accounts, address keys, projects and grants agree (RecordsAgree), whatever
\* calls act on what they read before their transactions (control-plane.js,
\* payments.js): addresses are unique, no active project is left without its
\* account, and grants follow plan and billing state.
THEOREM CollectionsAgree == Spec => []RecordsAgree
  <1>1. Sound => RecordsAgree
    BY SoundTypes DEF Sound, Registry, RecordsAgree
  <1>2. QED
    BY <1>1, ControlPlaneIsSound, PTL

\* Billing events, usage, metered time and payment actions take effect once
\* (NothingTwice), for any number of deliveries, retries, refusals and restarts.
THEOREM EffectsHappenOnce == Spec => []NothingTwice
  <1>1. Sound => NothingTwice
    <2> SUFFICES ASSUME Sound PROVE NothingTwice
      OBVIOUS
    <2>1. EventAppliedOnce
      BY DEF Sound, BillOK, EventAppliedOnce
    <2>2. ChargedOnce
      <3>1. \A p \in Projects : \A m \in {"requests", "time"} : Quantity(p, m) = Total(RecordsOf(p, m))
        BY DEF Quantity, Total, RecordsOf
      <3>2. QED
        BY <3>1 DEF Sound, UsageOK, AtMost, ChargedOnce
    <2>3. TimeMeteredOnce
      <3>1. PICK r \in Nat : MeteredUntil(r)
        BY DEF Sound, TimeOK
      <3>2. Metered \in Nat /\ risen \in Nat
        BY TimeTypes DEF Sound
      <3>3. Metered <= risen
        BY <3>1, <3>2 DEF MeteredUntil
      <3>4. QED
        BY <3>1, <3>3 DEF MeteredUntil, TimeRecords, Metered, Total, TimeMeteredOnce
    <2>4. ActionCarriedOutOnce
      BY KeyTypes DEF Sound, ActionOK, KeyOK, ActionCarriedOutOnce
    <2>5. QED
      BY <2>1, <2>2, <2>3, <2>4 DEF NothingTwice
  <1>2. QED
    BY <1>1, ControlPlaneIsSound, PTL

\* Deleted accounts and projects stay deleted, and an invoice once made is the
\* one that stays (FinalStays), whatever calls were in flight.
THEOREM WhatIsFinalStays == Spec => FinalStays
  <1>1. Sound /\ [Next]_vars =>
          [/\ \A a \in Accounts : Has(accounts[a], "deleted") => Has(accounts'[a], "deleted")
           /\ \A p \in Projects : Has(projects[p], "deleted") =>
                Has(projects'[p], "deleted") /\ grants'[p] = None]_vars
    BY NextDeleted DEF Sound
  <1>2. Sound /\ [Next]_vars => [\A p \in Projects : invoices[p] # None => invoices'[p] = invoices[p]]_vars
    BY NextInvoice DEF Sound
  <1>3. QED
    BY <1>1, <1>2, ControlPlaneIsSound, PTL DEF Spec, FinalStays, DeletedForGood, InvoiceIsFinal
=============================================================================
