------------------------- MODULE GatewayPolicyProofs -------------------------
(***************************************************************************)
(* Theorems about GatewayPolicy: its types, and that it implements         *)
(* PolicyGate, for any requests, models, prompts, zones, fallback chains   *)
(* and policies; that administrators' PUTs and the heal of a failed start  *)
(* leave the caches enforcing what was committed; and that what a change   *)
(* of policy makes stale in the response cache does not outlive it.        *)
(***************************************************************************)
EXTENDS GatewayPolicy, TLAPS

Checks == {"model", "residency", "detectors", "patterns", "content"}

Request ==
    [pc : RequestPcs, answered : BOOLEAN,
     prompt : Prompts \cup {None}, model : Models \cup {None}, serving : Models \cup {None},
     chain : Seq(Models), degraded : BOOLEAN, fallback : BOOLEAN, caching : BOOLEAN,
     read : ValuesOf("dlp") \cup {None}, findings : BOOLEAN, redacted : BOOLEAN,
     overtaken : BOOLEAN, passed : SUBSET (Checks \X Models)]

AnyValue == {None} \cup UNION {ValuesOf(k) : k \in Policies}
Put == [pc : WriterPcs, policy : Policies \cup {None}, value : AnyValue,
        keys : SUBSET Keys, early : BOOLEAN]

Named(q) == q.pc # "rest" => q.prompt \in Prompts /\ q.model \in Models /\ q.serving \in Models

Writing(p) ==
    p.pc # "idle" =>
        /\ p.policy \in Policies
        /\ p.value \in ValuesOf(p.policy)
        /\ p.policy = "dlpTeam" => p.value # "unset"
        /\ p.pc = "refresh" => p.policy \in CachedPolicies

RowTypes == IsRow(row)
CachedTypes == /\ DOMAIN cached = CachedPolicies
               /\ \A k \in CachedPolicies : cached[k] \in ValuesOf(k)
RequestTypes == req \in [Requests -> Request] /\ \A r \in Requests : Named(req[r])
WriterTypes == writer \in [Writers -> Put] /\ \A w \in Writers : Writing(writer[w])
HealTypes == /\ heal \in [pc : HealPcs, seen : (SUBSET Models) \cup {None}, expected : Nat]
             /\ heal.pc \in {"org", "team", "member"} => heal.seen \in SUBSET Models
             /\ generation \in Nat

Types == /\ RowTypes /\ CachedTypes /\ RequestTypes /\ WriterTypes /\ HealTypes
         /\ entry \in [Keys -> {"none", "kept", "excused"}]
-----------------------------------------------------------------------------
(* Types. *)

\* A request that names a prompt and its models stays a typed request.
LEMMA RequestBecomes ==
    ASSUME RequestTypes, NEW r \in Requests, NEW q \in Request, Named(q),
           req' = [req EXCEPT ![r] = q]
    PROVE  RequestTypes'
BY DEF RequestTypes

\* ... and so does one that has passed a check and moves on.
LEMMA RequestPasses ==
    ASSUME RequestTypes, NEW r \in Requests, req[r].pc # "rest",
           NEW p \in RequestPcs, NEW s \in SUBSET (Checks \X Models),
           req' = [req EXCEPT ![r] = [req[r] EXCEPT !.pc = p, !.passed = @ \cup s]]
    PROVE  RequestTypes'
<1> DEFINE new == [req[r] EXCEPT !.pc = p, !.passed = @ \cup s]
<1>1. req[r] \in Request /\ Named(req[r])
    BY DEF RequestTypes
<1>2. new \in Request /\ Named(new)
    <2>1. req[r].passed \cup s \in SUBSET (Checks \X Models)
        BY <1>1 DEF Request
    <2> QED BY <1>1, <2>1 DEF Request, Named
<1> QED BY <1>2, RequestBecomes

LEMMA ValueSets ==
    /\ \A k \in ModelLayers \cup {"content"} : ValuesOf(k) = SUBSET Models
    /\ \A k \in ResidencyRules : ValuesOf(k) = SUBSET Zones
    /\ ValuesOf("dlp") = {"off", "log", "redact", "block"}
    /\ ValuesOf("dlpTeam") = {"unset", "log", "redact", "block"}
    /\ ValuesOf("pattern") = {"unset", "log", "redact", "block"}
    /\ ValuesOf("downgrade") = Static \cup {None}
    /\ ValuesOf("caching") = BOOLEAN
<1>1. ASSUME NEW k \in ModelLayers \cup {"content"} PROVE ValuesOf(k) = SUBSET Models
    BY DEF ValuesOf, ModelLayers, ResidencyRules
<1>2. ASSUME NEW k \in ResidencyRules PROVE ValuesOf(k) = SUBSET Zones
    BY DEF ValuesOf, ModelLayers, ResidencyRules
<1>3. ValuesOf("dlp") = {"off", "log", "redact", "block"}
    BY DEF ValuesOf, ModelLayers, ResidencyRules
<1>4. ValuesOf("dlpTeam") = {"unset", "log", "redact", "block"}
    BY DEF ValuesOf, ModelLayers, ResidencyRules
<1>5. ValuesOf("pattern") = {"unset", "log", "redact", "block"}
    BY DEF ValuesOf, ModelLayers, ResidencyRules
<1>6. ValuesOf("downgrade") = Static \cup {None}
    BY DEF ValuesOf, ModelLayers, ResidencyRules
<1>7. ValuesOf("caching") = BOOLEAN
    BY DEF ValuesOf, ModelLayers, ResidencyRules
<1> QED BY <1>1, <1>2, <1>3, <1>4, <1>5, <1>6, <1>7

LEMMA InitTypes == Init => Types
<1> SUFFICES ASSUME Init PROVE Types
    OBVIOUS
<1>1. RowTypes
    BY GatewayAssumption DEF Init, RowTypes
<1>2. CachedTypes
    <2>1. PICK failed \in BOOLEAN :
            cached = [k \in CachedPolicies |->
                        IF failed /\ k \in ModelLayers THEN Models ELSE InitialRow[k]]
        BY DEF Init
    <2>2. \A k \in CachedPolicies : InitialRow[k] \in ValuesOf(k)
        BY GatewayAssumption DEF IsRow, Policies
    <2>3. \A k \in ModelLayers : Models \in ValuesOf(k)
        BY ValueSets
    <2> QED BY <2>1, <2>2, <2>3 DEF CachedTypes
<1>3. RequestTypes
    <2>1. Rest(FALSE) \in Request
        BY ValueSets DEF Rest, Request, RequestPcs
    <2>2. Named(Rest(FALSE))
        BY DEF Named, Rest
    <2> QED BY <2>1, <2>2 DEF Init, RequestTypes
<1>4. WriterTypes
    <2>1. Idle \in Put /\ Writing(Idle)
        BY DEF Idle, Put, Writing, WriterPcs, AnyValue
    <2> QED BY <2>1 DEF Init, WriterTypes
<1>5. HealTypes
    BY DEF Init, HealTypes, HealPcs
<1>6. entry \in [Keys -> {"none", "kept", "excused"}]
    BY DEF Init
<1> QED BY <1>1, <1>2, <1>3, <1>4, <1>5, <1>6 DEF Types

LEMMA ScannedTyped ==
    ASSUME NEW x \in Request, NEW f \in BOOLEAN, NEW d \in BOOLEAN,
           NEW s \in SUBSET (Checks \X Models)
    PROVE  [x EXCEPT !.pc = "content", !.findings = f, !.redacted = d, !.passed = s] \in Request
<1>1. PICK y : y = [x EXCEPT !.pc = "content"]
    OBVIOUS
<1>2. PICK z : z = [y EXCEPT !.findings = f]
    OBVIOUS
<1>3. PICK v : v = [z EXCEPT !.redacted = d]
    OBVIOUS
<1>4. y \in Request
    BY <1>1 DEF Request, RequestPcs
<1>5. z \in Request
    BY <1>2, <1>4 DEF Request
<1>6. v \in Request
    BY <1>3, <1>5 DEF Request
<1>7. [v EXCEPT !.passed = s] \in Request
    BY <1>6 DEF Request
<1> QED BY <1>1, <1>2, <1>3, <1>7

\* Each step of a request leaves a typed request behind.
LEMMA RequestStepTypes ==
    ASSUME Types, NEW r \in Requests, RequestStep(r)
    PROVE  RequestTypes'
<1> DEFINE q == req[r]
<1>q. q \in Request /\ Named(q)
    BY DEF Types, RequestTypes
<1>rest. \A b \in BOOLEAN : Rest(b) \in Request /\ Named(Rest(b))
    BY ValueSets DEF Rest, Request, RequestPcs, Named
<1>1. CASE Arrive(r)
    <2>1. PICK p \in Prompts, m \in Models :
            req' = [req EXCEPT ![r] = [Rest(q.answered) EXCEPT
                        !.pc = "policy", !.prompt = p, !.model = m, !.serving = m]]
        BY <1>1 DEF Arrive
    <2>2. ASSUME NEW rest \in Request
          PROVE  [rest EXCEPT !.pc = "policy", !.prompt = p, !.model = m, !.serving = m] \in Request
        BY DEF Request, RequestPcs
    <2>3. ASSUME NEW rest \in Request
          PROVE  Named([rest EXCEPT !.pc = "policy", !.prompt = p, !.model = m, !.serving = m])
        BY DEF Request, Named
    <2>4. Rest(q.answered) \in Request
        BY <1>q, <1>rest DEF Request
    <2> QED BY <2>1, <2>2, <2>3, <2>4, RequestBecomes DEF Types
<1>2. CASE CheckModelPolicy(r)
    <2> DEFINE pc == IF cached["caching"] THEN "lookup" ELSE "residency"
               passed == q.passed \cup {<<"model", q.model>>}
    <2>1. /\ q.pc = "policy"
          /\ req' = [req EXCEPT ![r] =
                [q EXCEPT !.pc = pc, !.caching = cached["caching"], !.passed = passed]]
        BY <1>2 DEF CheckModelPolicy, Becomes
    <2>2. cached["caching"] \in BOOLEAN /\ pc \in RequestPcs
        BY ValueSets DEF Types, CachedTypes, CachedPolicies, RequestPcs
    <2>3. passed \in SUBSET (Checks \X Models)
        BY <1>q, <2>1 DEF Request, Named, Checks
    <2>4. ASSUME NEW p \in RequestPcs, NEW c \in BOOLEAN, NEW s \in SUBSET (Checks \X Models)
          PROVE  LET new == [q EXCEPT !.pc = p, !.caching = c, !.passed = s]
                 IN  new \in Request /\ Named(new)
        BY <1>q, <2>1 DEF Request, Named
    <2> HIDE DEF pc, passed
    <2>5. QED BY <2>1, <2>2, <2>3, <2>4, RequestBecomes DEF Types
<1>3. CASE ServeHit(r)
    BY <1>3, <1>q, <1>rest, RequestBecomes DEF ServeHit, Becomes, Types
<1>4. CASE Miss(r)
    <2>1. [q EXCEPT !.pc = "residency"] \in Request /\ Named([q EXCEPT !.pc = "residency"])
        BY <1>4, <1>q DEF Miss, Request, RequestPcs, Named
    <2> QED BY <1>4, <2>1, RequestBecomes DEF Miss, Becomes, Types
<1>5. CASE CheckResidency(r)
    <2>1. {<<"residency", q.model>>} \in SUBSET (Checks \X Models)
        BY <1>5, <1>q DEF CheckResidency, Named, Checks
    <2>2. "dlp" \in RequestPcs /\ q.pc # "rest"
        BY <1>5 DEF CheckResidency, RequestPcs
    <2> QED BY <1>5, <2>1, <2>2, RequestPasses DEF CheckResidency, Becomes, Types
<1>6. CASE LoadDlpPolicy(r)
    <2> DEFINE new == [q EXCEPT !.pc = "scan", !.read = row["dlp"],
                                !.passed = @ \cup Now("detectors", q.prompt, Models)]
    <2>1. row["dlp"] \in ValuesOf("dlp")
        BY DEF Types, RowTypes, IsRow, Policies, DlpRows
    <2>2. Now("detectors", q.prompt, Models) \subseteq Checks \X Models
        BY DEF Now, Checks
    <2>3. new \in Request /\ Named(new)
        BY <1>6, <1>q, <2>1, <2>2 DEF LoadDlpPolicy, Request, RequestPcs, Named
    <2> QED BY <1>6, <2>3, RequestBecomes DEF LoadDlpPolicy, Becomes, Types
<1>7. CASE RunDlpScan(r)
    <2>1. PICK f \in BOOLEAN, d \in BOOLEAN, s \in SUBSET (Checks \X Models) :
            /\ q.pc = "scan"
            /\ req' = [req EXCEPT ![r] = [q EXCEPT !.pc = "content",
                        !.findings = f, !.redacted = d, !.passed = @ \cup s]]
        <3> DEFINE actions == {DetectorAction(q.read, row["dlpTeam"]), row["pattern"]}
                   sensitive == q.prompt \in Sensitive
                   f == sensitive /\ cached["content"] # Models
                   d == sensitive /\ "redact" \in actions
                   s == Now("detectors", q.prompt, Models)
                        \cup Now("patterns", q.prompt, Models)
                        \cup (IF f THEN {} ELSE {"content"} \X Models)
        <3>1. s \in SUBSET (Checks \X Models)
            BY DEF Now, Checks
        <3>2. /\ q.pc = "scan"
              /\ req' = [req EXCEPT ![r] = [q EXCEPT !.pc = "content",
                        !.findings = f, !.redacted = d,
                        !.passed = @ \cup Now("detectors", q.prompt, Models)
                        \cup Now("patterns", q.prompt, Models)
                        \cup (IF f THEN {} ELSE {"content"} \X Models)]]
            BY <1>7 DEF RunDlpScan, Becomes
        <3>3. f \in BOOLEAN /\ d \in BOOLEAN
            OBVIOUS
        <3> HIDE DEF f, d
        <3>4. q.passed \cup Now("detectors", q.prompt, Models)
                        \cup Now("patterns", q.prompt, Models)
                        \cup (IF f THEN {} ELSE {"content"} \X Models) = q.passed \cup s
            OBVIOUS
        <3> HIDE DEF s
        <3> QED BY <3>1, <3>2, <3>3, <3>4
    <2>2. PICK x \in Request, t \in SUBSET (Checks \X Models) :
            x = req[r] /\ Named(x) /\ t = x.passed \cup s
        BY <1>q DEF Request
    <2>3. PICK new : new = [x EXCEPT !.pc = "content", !.findings = f, !.redacted = d, !.passed = t]
        OBVIOUS
    <2>4. new \in Request
        BY <2>1, <2>2, <2>3, ScannedTyped
    <2>5. Named(new)
        BY <2>1, <2>2, <2>3 DEF Request, Named
    <2>6. req' = [req EXCEPT ![r] = new]
        BY <2>1, <2>2, <2>3
    <2> QED BY <2>4, <2>5, <2>6, RequestBecomes DEF Types
<1>8. CASE CheckContent(r)
    <2>1. {<<"content", q.model>>} \in SUBSET (Checks \X Models)
        BY <1>8, <1>q DEF CheckContent, Named, Checks
    <2>2. "budget" \in RequestPcs /\ q.pc # "rest"
        BY <1>8 DEF CheckContent, RequestPcs
    <2> QED BY <1>8, <2>1, <2>2, RequestPasses DEF CheckContent, Becomes, Types
<1>9. CASE KeepModel(r)
    <2>1. [q EXCEPT !.pc = "dispatch"] \in Request /\ Named([q EXCEPT !.pc = "dispatch"])
        BY <1>9, <1>q DEF KeepModel, Request, RequestPcs, Named
    <2> QED BY <1>9, <2>1, RequestBecomes DEF KeepModel, Becomes, Types
<1>10. CASE Degrade(r)
    <2> DEFINE new == [q EXCEPT !.pc = "recheck", !.degraded = TRUE,
                                !.serving = cached["downgrade"]]
    <2>1. cached["downgrade"] \in Models
        BY <1>10, ValueSets, GatewayAssumption DEF Degrade, Types, CachedTypes, CachedPolicies
    <2>2. new \in Request /\ Named(new)
        BY <1>10, <1>q, <2>1 DEF Degrade, Request, RequestPcs, Named
    <2> QED BY <1>10, <2>2, RequestBecomes DEF Degrade, Becomes, Types
<1>11. CASE Recheck(r)
    <2>1. {<<"model", q.serving>>, <<"content", q.serving>>} \in SUBSET (Checks \X Models)
        BY <1>11, <1>q DEF Recheck, Named, Checks
    <2>2. "rezone" \in RequestPcs /\ q.pc # "rest"
        BY <1>11 DEF Recheck, RequestPcs
    <2> QED BY <1>11, <2>1, <2>2, RequestPasses DEF Recheck, Becomes, Types
<1>12. CASE RecheckResidency(r)
    <2>1. {<<"residency", q.serving>>} \in SUBSET (Checks \X Models)
        BY <1>12, <1>q DEF RecheckResidency, Named, Checks
    <2>2. "dispatch" \in RequestPcs /\ q.pc # "rest"
        BY <1>12 DEF RecheckResidency, RequestPcs
    <2> QED BY <1>12, <2>1, <2>2, RequestPasses DEF RecheckResidency, Becomes, Types
<1>13. CASE Dispatch(r)
    <2>1. [q EXCEPT !.pc = "sent"] \in Request /\ Named([q EXCEPT !.pc = "sent"])
        BY <1>13, <1>q DEF Dispatch, Request, RequestPcs, Named
    <2> QED BY <1>13, <2>1, RequestBecomes DEF Dispatch, Becomes, Types
<1>14. CASE ProviderAnswers(r)
    <2>1. [q EXCEPT !.pc = "answered"] \in Request /\ Named([q EXCEPT !.pc = "answered"])
        BY <1>14, <1>q DEF ProviderAnswers, Request, RequestPcs, Named
    <2> QED BY <1>14, <2>1, RequestBecomes DEF ProviderAnswers, Becomes, Types
<1>15. CASE NextCandidate(r)
    <2>1. PICK chain \in Seq(Models) :
            /\ chain # <<>> /\ q.pc # "rest"
            /\ req' = [req EXCEPT ![r] = [q EXCEPT !.pc = "recheck", !.fallback = TRUE,
                                        !.serving = Head(chain), !.chain = Tail(chain)]]
        <3>1. q.pc # "rest" => Fallbacks[q.serving] \in Seq(Models)
            BY <1>q, GatewayAssumption DEF Named
        <3>2. q.chain \in Seq(Models)
            BY <1>q DEF Request
        <3> QED BY <1>15, <3>1, <3>2 DEF NextCandidate, Becomes
    <2>2. Head(chain) \in Models /\ Tail(chain) \in Seq(Models)
        BY <2>1
    <2> DEFINE new == [q EXCEPT !.pc = "recheck", !.fallback = TRUE,
                                !.serving = Head(chain), !.chain = Tail(chain)]
    <2>3. new \in Request /\ Named(new)
        BY <1>q, <2>1, <2>2 DEF Request, RequestPcs, Named
    <2> QED BY <2>1, <2>3, RequestBecomes DEF Types
<1>16. CASE WriteResponseCache(r) \/ ReturnAnswer(r) \/ Refuse(r)
    BY <1>16, <1>rest, RequestBecomes DEF WriteResponseCache, ReturnAnswer, Refuse, Becomes, Types
<1> QED BY <1>1, <1>2, <1>3, <1>4, <1>5, <1>6, <1>7, <1>8, <1>9, <1>10, <1>11, <1>12,
           <1>13, <1>14, <1>15, <1>16 DEF RequestStep

\* A PUT that goes on is a typed PUT of the same policy.
LEMMA PutGoesOn ==
    ASSUME WriterTypes, NEW w \in Writers, NEW p \in Put, Writing(p),
           writer' = [writer EXCEPT ![w] = p]
    PROVE  WriterTypes'
BY DEF WriterTypes

LEMMA IdleTyped == Idle \in Put /\ Writing(Idle)
BY DEF Idle, Put, Writing, WriterPcs, AnyValue

LEMMA OvertakenTypes ==
    ASSUME RequestTypes, NEW k, req' = Overtaken(k)
    PROVE  RequestTypes'
<1>1. ASSUME NEW r \in Requests
      PROVE  req'[r] \in Request /\ Named(req'[r])
    <2>1. req[r] \in Request /\ Named(req[r])
        BY DEF RequestTypes
    <2>2. [req[r] EXCEPT !.overtaken = TRUE] \in Request
          /\ Named([req[r] EXCEPT !.overtaken = TRUE])
        BY <2>1 DEF Request, Named
    <2> QED BY <2>1, <2>2 DEF Overtaken
<1> QED BY <1>1 DEF RequestTypes, Overtaken

LEMMA RemainingTyped ==
    ASSUME WriterTypes, NEW w \in Writers, writer[w].pc \in {"scan", "delete"},
           NEW keys \in SUBSET Keys
    PROVE  Remaining(w, keys) \in Put /\ Writing(Remaining(w, keys))
<1>1. writer[w] \in Put /\ Writing(writer[w])
    BY DEF WriterTypes
<1>2. ASSUME NEW pc \in {"delete", "commit"}, NEW ks \in SUBSET Keys
      PROVE  LET new == [writer[w] EXCEPT !.pc = pc, !.keys = ks]
             IN  new \in Put /\ Writing(new)
    BY <1>1 DEF Put, Writing, WriterPcs
<1> QED BY <1>2, IdleTyped DEF Remaining

LEMMA WriterStepTypes ==
    ASSUME Types, NEW w \in Writers, WriterStep(w)
    PROVE  Types'
<1> DEFINE p == writer[w]
<1>p. p \in Put /\ Writing(p)
    BY DEF Types, WriterTypes
<1> USE DEF Types
<1>1. ASSUME NEW k \in DOMAIN Values, NEW v \in Values[k], PutPolicy(w, k, v)
      PROVE  Types'
    <2> DEFINE new == [pc |-> IF Early(k) THEN "scan" ELSE "commit",
                       policy |-> k, value |-> v, keys |-> {}, early |-> Early(k)]
    <2>1. k \in Policies /\ v \in ValuesOf(k) /\ (k = "dlpTeam" => v # "unset")
        BY GatewayAssumption
    <2>2. v \in AnyValue
        BY <2>1 DEF AnyValue
    <2>3. Early(k) \in BOOLEAN
        BY DEF Early
    <2>4. new \in Put /\ Writing(new)
        BY <2>1, <2>2, <2>3 DEF Put, Writing, WriterPcs
    <2>5. writer' = [writer EXCEPT ![w] = new]
        BY <1>1 DEF PutPolicy
    <2> HIDE DEF new
    <2>6. WriterTypes'
        BY <2>4, <2>5, PutGoesOn
    <2> QED BY <1>1, <2>6 DEF PutPolicy, RowTypes, CachedTypes, RequestTypes, HealTypes
<1>2. CASE CommitPolicy(w)
    <2>1. p.policy \in Policies /\ p.value \in ValuesOf(p.policy)
        BY <1>2, <1>p DEF CommitPolicy, Writing
    <2>2. RowTypes'
        BY <1>2, <2>1 DEF CommitPolicy, RowTypes, IsRow
    <2>3. AfterCommit(w) \in Put /\ Writing(AfterCommit(w))
        <3>1. ASSUME NEW pc \in {"refresh", "scan"}, pc = "refresh" => p.policy \in CachedPolicies
              PROVE  LET new == [p EXCEPT !.pc = pc] IN new \in Put /\ Writing(new)
            BY <1>2, <1>p, <3>1 DEF CommitPolicy, Put, Writing, WriterPcs
        <3> QED BY <3>1, IdleTyped DEF AfterCommit
    <2>4. WriterTypes'
        BY <1>2, <2>3, PutGoesOn DEF CommitPolicy
    <2>5. RequestTypes'
        BY <1>2, OvertakenTypes DEF CommitPolicy, RequestTypes
    <2>6. entry' \in [Keys -> {"none", "kept", "excused"}]
        BY <1>2 DEF CommitPolicy, Excused
    <2> QED BY <1>2, <2>2, <2>4, <2>5, <2>6 DEF CommitPolicy, CachedTypes, HealTypes
<1>3. CASE RefreshCache(w)
    <2>1. p.policy \in CachedPolicies /\ p.value \in ValuesOf(p.policy)
        BY <1>3, <1>p DEF RefreshCache, Writing
    <2>2. CachedTypes'
        BY <1>3, <2>1 DEF RefreshCache, CachedTypes
    <2>3. [p EXCEPT !.pc = "scan"] \in Put /\ Writing([p EXCEPT !.pc = "scan"])
        BY <1>3, <1>p DEF RefreshCache, Put, Writing, WriterPcs
    <2>4. WriterTypes'
        BY <1>3, <2>3, IdleTyped, PutGoesOn DEF RefreshCache
    <2>5. HealTypes'
        BY <1>3 DEF RefreshCache, HealTypes
    <2> QED BY <1>3, <2>2, <2>4, <2>5 DEF RefreshCache, RowTypes, RequestTypes
<1>4. CASE ScanEntries(w) \/ ScanFails(w)
    <2>1. PICK keys \in SUBSET Keys : writer' = [writer EXCEPT ![w] = Remaining(w, keys)]
        BY <1>4 DEF ScanEntries, ScanFails
    <2>2. WriterTypes'
        BY <1>4, <2>1, RemainingTyped, PutGoesOn DEF ScanEntries, ScanFails
    <2>3. RequestTypes'
        BY <1>4, OvertakenTypes DEF ScanEntries, ScanFails, RequestTypes
    <2>4. entry' \in [Keys -> {"none", "kept", "excused"}]
        BY <1>4 DEF ScanEntries, ScanFails, Excused
    <2> QED BY <1>4, <2>2, <2>3, <2>4
            DEF ScanEntries, ScanFails, RowTypes, CachedTypes, HealTypes
<1>5. ASSUME NEW k \in Keys, DeleteEntry(w, k) \/ DeleteFails(w, k)
      PROVE  Types'
    <2>1. p.keys \ {k} \in SUBSET Keys
        BY <1>p DEF Put
    <2>2. WriterTypes'
        BY <1>5, <2>1, RemainingTyped, PutGoesOn DEF DeleteEntry, DeleteFails
    <2>3. entry' \in [Keys -> {"none", "kept", "excused"}]
        BY <1>5 DEF DeleteEntry, DeleteFails, Excused
    <2> QED BY <1>5, <2>2, <2>3
            DEF DeleteEntry, DeleteFails, RowTypes, CachedTypes, RequestTypes, HealTypes
<1> QED BY <1>1, <1>2, <1>3, <1>4, <1>5 DEF WriterStep

LEMMA HealTypesKept ==
    ASSUME Types, Heal
    PROVE  Types'
<1> USE DEF Types
<1>1. ASSUME NEW k \in {"teamModels", "memberModels"}, NEW reading \in HealPcs,
             NEW setting \in {"team", "member"}, NEW next \in {"warmMember", "over"},
             HealOverlay(k, reading, setting, next)
      PROVE  Types'
    <2>1. row[k] \in SUBSET Models /\ ValuesOf(k) = SUBSET Models
        BY ValueSets DEF RowTypes, IsRow, Policies, CachedPolicies, ModelLayers
    <2>2. CachedTypes'
        BY <1>1, <2>1 DEF HealOverlay, HealTo, CachedTypes, HealTypes, CachedPolicies, ModelLayers
    <2>3. HealTypes'
        BY <1>1, <2>1 DEF HealOverlay, HealTo, HealTypes, HealPcs
    <2> QED BY <1>1, <2>2, <2>3 DEF HealOverlay, RowTypes, RequestTypes, WriterTypes
<1>2. CASE HealRead
    <2>1. row["orgModels"] \in SUBSET Models
        BY ValueSets DEF RowTypes, IsRow, Policies, CachedPolicies, ModelLayers
    <2> QED BY <1>2, <2>1 DEF HealRead, HealTo, HealTypes, HealPcs,
                              RowTypes, CachedTypes, RequestTypes, WriterTypes
<1>3. CASE HealGiveUp
    BY <1>3 DEF HealGiveUp, HealTo, HealTypes, HealPcs,
                RowTypes, CachedTypes, RequestTypes, WriterTypes
<1>4. CASE HealOrg
    <2>1. CachedTypes'
        BY <1>4, ValueSets DEF HealOrg, CachedTypes, HealTypes, CachedPolicies, ModelLayers
    <2>2. HealTypes'
        BY <1>4 DEF HealOrg, HealTo, HealTypes, HealPcs
    <2> QED BY <1>4, <2>1, <2>2 DEF HealOrg, RowTypes, RequestTypes, WriterTypes
<1> QED BY <1>1, <1>2, <1>3, <1>4 DEF Heal, HealPcs

LEMMA RequestStepOthers ==
    ASSUME Types, NEW r \in Requests, RequestStep(r)
    PROVE  /\ UNCHANGED <<row, cached, writer, heal, generation>>
           /\ entry' = entry \/ WriteResponseCache(r)
BY DEF RequestStep, Arrive, CheckModelPolicy, ServeHit, Miss, CheckResidency, LoadDlpPolicy,
       RunDlpScan, CheckContent, KeepModel, Degrade, Recheck, RecheckResidency, Dispatch,
       ProviderAnswers, NextCandidate, WriteResponseCache, ReturnAnswer, Refuse, Becomes, others

LEMMA NextTypes == Types /\ [Next]_vars => Types'
<1> SUFFICES ASSUME Types, [Next]_vars PROVE Types'
    OBVIOUS
<1>1. ASSUME NEW r \in Requests, RequestStep(r) PROVE Types'
    <2>1. RequestTypes'
        BY <1>1, RequestStepTypes
    <2>2. entry' \in [Keys -> {"none", "kept", "excused"}]
        BY <1>1, RequestStepOthers DEF WriteResponseCache, Types
    <2> QED BY <1>1, <2>1, <2>2, RequestStepOthers
            DEF Types, RowTypes, CachedTypes, WriterTypes, HealTypes
<1>2. ASSUME NEW w \in Writers, WriterStep(w) PROVE Types'
    BY <1>2, WriterStepTypes
<1>3. ASSUME NEW k \in Keys, Expire(k) PROVE Types'
    BY <1>3 DEF Expire, Types, RowTypes, CachedTypes, RequestTypes, WriterTypes, HealTypes
<1>4. CASE Heal
    BY <1>4, HealTypesKept
<1>5. CASE UNCHANGED vars
    BY <1>5 DEF vars, others, Types, RowTypes, CachedTypes, RequestTypes, WriterTypes, HealTypes
<1> QED BY <1>1, <1>2, <1>3, <1>4, <1>5 DEF Next

THEOREM TypesKept == Spec => []Types
<1> QED BY InitTypes, NextTypes, PTL DEF Spec

\* Whatever the requests, administrators and the heal do, rows and caches
\* hold policies of their kind, a request in flight always has a model to be
\* served by, and what a PUT has yet to delete are cache keys.
THEOREM TypeCorrect == Spec => []TypeOK
<1>1. Types => TypeOK
    <2> SUFFICES ASSUME Types PROVE TypeOK
        OBVIOUS
    <2>1. ASSUME NEW r \in Requests
          PROVE  LET q == req[r] IN
                 /\ q.pc \in RequestPcs
                 /\ {q.answered, q.degraded, q.fallback, q.caching, q.findings, q.redacted,
                     q.overtaken} \subseteq BOOLEAN
                 /\ InFlight(r) => <<q.prompt, q.model>> \in Keys /\ q.serving \in Models
                 /\ q.chain \in Seq(Models)
                 /\ q.read \in ValuesOf("dlp") \cup {None}
        BY DEF Types, RequestTypes, Request, Named, InFlight, Keys
    <2>2. ASSUME NEW w \in Writers
          PROVE  /\ writer[w].pc \in WriterPcs /\ writer[w].keys \subseteq Keys
                 /\ writer[w].pc # "idle" => writer[w].value \in ValuesOf(writer[w].policy)
        BY DEF Types, WriterTypes, Put, Writing
    <2>3. DOMAIN req = Requests /\ DOMAIN writer = Writers
        BY DEF Types, RequestTypes, WriterTypes
    <2>4. heal.pc \in HealPcs /\ heal.seen \in (SUBSET Models) \cup {None} /\ heal.expected \in Nat
        BY DEF Types, HealTypes
    <2> QED BY <2>1, <2>2, <2>3, <2>4 DEF TypeOK, Types, RowTypes, CachedTypes, HealTypes
<1> QED BY <1>1, TypesKept, PTL
-----------------------------------------------------------------------------
(* What PolicyGate sees of a step. *)

LEMMA PermitsUnchanged == UNCHANGED <<row, cached>> => UNCHANGED Permits
BY DEF Permits, Lets, ModelAllowed, ResidencyAllows, ContentAllows, DetectorAction

LEMMA MemoryUnchanged == UNCHANGED entry => UNCHANGED Memory
BY DEF Memory

\* A function that differs from f at one point is f with that point replaced.
LEMMA OnePoint ==
    ASSUME NEW S, NEW f, NEW g, NEW r \in S, NEW v,
           f = [x \in S |-> f[x]], g = [x \in S |-> g[x]],
           \A x \in S : g[x] = IF x = r THEN v ELSE f[x]
    PROVE  g = [f EXCEPT ![r] = v]
<1>1. [f EXCEPT ![r] = v] = [x \in S |-> IF x = r THEN v ELSE f[x]]
    OBVIOUS
<1>2. g = [x \in S |-> IF x = r THEN v ELSE f[x]]
    OBVIOUS
<1> QED BY <1>1, <1>2

LEMMA SeenOfRequest ==
    ASSUME RequestTypes, NEW r \in Requests, NEW q \in Request, req' = [req EXCEPT ![r] = q]
    PROVE  /\ Asked' = [Asked EXCEPT ![r] = IF q.pc # "rest" THEN <<q.prompt, q.model>> ELSE None]
           /\ Approved' = [Approved EXCEPT ![r] = q.passed]
           /\ At' = [At EXCEPT ![r] = IF q.pc \in {"sent", "answered"} THEN q.serving ELSE None]
           /\ Told' = [Told EXCEPT ![r] = q.answered]
<1>1. \A x \in Requests : req'[x] = IF x = r THEN q ELSE req[x]
    BY DEF RequestTypes
<1>2. Asked' = [Asked EXCEPT ![r] = IF q.pc # "rest" THEN <<q.prompt, q.model>> ELSE None]
    <2> DEFINE v == IF q.pc # "rest" THEN <<q.prompt, q.model>> ELSE None
    <2>1. Asked = [x \in Requests |-> Asked[x]] /\ Asked' = [x \in Requests |-> Asked'[x]]
        BY DEF Asked
    <2>2. \A x \in Requests : Asked'[x] = IF x = r THEN v ELSE Asked[x]
        BY <1>1 DEF Asked, InFlight
    <2> HIDE DEF v
    <2>3. Asked' = [Asked EXCEPT ![r] = v]
        BY <2>1, <2>2, OnePoint
    <2> QED BY <2>3 DEF v
<1>3. Approved' = [Approved EXCEPT ![r] = q.passed]
    <2>1. Approved = [x \in Requests |-> Approved[x]] /\ Approved' = [x \in Requests |-> Approved'[x]]
        BY DEF Approved
    <2>2. \A x \in Requests : Approved'[x] = IF x = r THEN q.passed ELSE Approved[x]
        BY <1>1 DEF Approved
    <2> QED BY <2>1, <2>2, OnePoint
<1>4. At' = [At EXCEPT ![r] = IF q.pc \in {"sent", "answered"} THEN q.serving ELSE None]
    <2> DEFINE v == IF q.pc \in {"sent", "answered"} THEN q.serving ELSE None
    <2>1. At = [x \in Requests |-> At[x]] /\ At' = [x \in Requests |-> At'[x]]
        BY DEF At
    <2>2. \A x \in Requests : At'[x] = IF x = r THEN v ELSE At[x]
        BY <1>1 DEF At
    <2> HIDE DEF v
    <2>3. At' = [At EXCEPT ![r] = v]
        BY <2>1, <2>2, OnePoint
    <2> QED BY <2>3 DEF v
<1>5. Told' = [Told EXCEPT ![r] = q.answered]
    <2>1. Told = [x \in Requests |-> Told[x]] /\ Told' = [x \in Requests |-> Told'[x]]
        BY DEF Told
    <2>2. \A x \in Requests : Told'[x] = IF x = r THEN q.answered ELSE Told[x]
        BY <1>1 DEF Told
    <2> QED BY <2>1, <2>2, OnePoint
<1> QED BY <1>2, <1>3, <1>4, <1>5

\* A request in flight is open, and only then.
LEMMA InFlightIsOpen ==
    ASSUME RequestTypes, NEW r \in Requests
    PROVE  /\ InFlight(r) => Asked[r] = <<req[r].prompt, req[r].model>> /\ Asked[r] \in Keys
           /\ InFlight(r) <=> Gate!Open(r)
<1>1. Named(req[r])
    BY DEF RequestTypes
<1>2. InFlight(r) => Asked[r] = <<req[r].prompt, req[r].model>> /\ Asked[r] \in Keys
    BY <1>1 DEF Asked, InFlight, Named, Keys
<1>3. None \notin Keys
    BY GatewayAssumption
<1> QED BY <1>2, <1>3 DEF Gate!Open, Asked

\* A request that stays in flight, and goes to no model, has the checks cs
\* approve the models ms.
LEMMA PassingApproves ==
    ASSUME Types, NEW r \in Requests, InFlight(r), NEW q \in Request,
           req' = [req EXCEPT ![r] = q], UNCHANGED <<row, cached, entry>>,
           q.prompt = req[r].prompt, q.model = req[r].model, q.answered = req[r].answered,
           q.pc # "rest", {q.pc, req[r].pc} \cap {"sent", "answered"} = {},
           NEW cs \in SUBSET Checks, NEW ms \in SUBSET Models,
           q.passed = req[r].passed \cup (cs \X ms),
           \A c \in cs, m \in ms : Lets(c, q.prompt, m)
    PROVE  Gate!Approve(r, cs, ms)
<1>1. RequestTypes
    BY DEF Types
<1>2. Gate!Open(r) /\ Asked[r] = <<q.prompt, q.model>> /\ Asked[r] \in Keys
    BY <1>1, InFlightIsOpen
<1>3. Approved' = [Approved EXCEPT ![r] = @ \cup (cs \X ms)]
    <2>1. q.passed = Approved[r] \cup (cs \X ms)
        BY DEF Approved
    <2>2. Approved' = [Approved EXCEPT ![r] = q.passed]
        BY <1>1, SeenOfRequest
    <2> QED BY <2>1, <2>2
<1>4. Asked' = Asked
    <2>1. Asked = [x \in Requests |-> Asked[x]]
        BY DEF Asked
    <2>2. Asked' = [Asked EXCEPT ![r] = <<q.prompt, q.model>>]
        BY <1>1, SeenOfRequest
    <2> QED BY <1>2, <2>1, <2>2
<1>5. At' = At
    <2>1. At = [x \in Requests |-> At[x]] /\ At[r] = None
        BY DEF At
    <2>2. At' = [At EXCEPT ![r] = None]
        BY <1>1, SeenOfRequest
    <2> QED BY <2>1, <2>2
<1>6. Told' = Told
    <2>1. Told = [x \in Requests |-> Told[x]] /\ Told[r] = q.answered
        BY DEF Told
    <2>2. Told' = [Told EXCEPT ![r] = q.answered]
        BY <1>1, SeenOfRequest
    <2> QED BY <2>1, <2>2
<1>7. \A c \in cs, m \in ms : <<Asked[r][1], m>> \in Permits[c]
    BY <1>2 DEF Permits, Checks, Keys
<1> QED BY <1>2, <1>3, <1>4, <1>5, <1>6, <1>7, PermitsUnchanged, MemoryUnchanged DEF Gate!Approve

\* A request that comes to rest is closed.
LEMMA RestingCloses ==
    ASSUME Types, NEW r \in Requests, InFlight(r), NEW b \in BOOLEAN,
           req' = [req EXCEPT ![r] = Rest(b)], UNCHANGED <<row, cached>>
    PROVE  Gate!Open(r) /\ Gate!Close(r, b)
<1>1. RequestTypes
    BY DEF Types
<1>2. Rest(b) \in Request
    BY ValueSets DEF Rest, Request, RequestPcs
<1>3. /\ Asked' = [Asked EXCEPT ![r] = None]
      /\ Approved' = [Approved EXCEPT ![r] = {}]
      /\ At' = [At EXCEPT ![r] = None]
      /\ Told' = [Told EXCEPT ![r] = b]
    BY <1>1, <1>2, SeenOfRequest DEF Rest
<1> QED BY <1>1, <1>3, InFlightIsOpen, PermitsUnchanged DEF Gate!Close
-----------------------------------------------------------------------------
(* What a request has been let through, by how far it has come.  A request *)
(* that is being scanned has the detectors' permission, or it depends on   *)
(* an override, which is never removed, or will be blocked.                *)

Scanned == {"content", "budget", "recheck", "rezone", "dispatch", "sent", "answered"}
Substituted == {"recheck", "rezone", "dispatch", "sent", "answered"}

PassedFirst(q) ==
    /\ q.pc = "rest" => q.passed = {}
    /\ q.pc \notin {"rest", "policy"} => <<"model", q.model>> \in q.passed
    /\ q.pc \notin {"rest", "policy", "lookup", "residency"}
          => <<"residency", q.model>> \in q.passed
    /\ q.pc = "budget" => <<"content", q.model>> \in q.passed

PassedScan(q) ==
    q.pc \in Scanned =>
        /\ {"detectors", "patterns"} \X Models \subseteq q.passed
        /\ ~q.findings => {"content"} \X Models \subseteq q.passed

PassedAgain(q) ==
    /\ q.pc = "rezone" => {"model", "content"} \X {q.serving} \subseteq q.passed
    /\ q.pc \in {"dispatch", "sent", "answered"} => Checks \X {q.serving} \subseteq q.passed

ServesAsked(q) == q.pc \notin Substituted \/ (~q.degraded /\ ~q.fallback) => q.serving = q.model

Passed(q) == PassedFirst(q) /\ PassedScan(q) /\ PassedAgain(q) /\ ServesAsked(q)

Scanning(q, override) ==
    q.pc = "scan" =>
        \/ {"detectors"} \X Models \subseteq q.passed
        \/ q.read = "block"
        \/ q.read # "off" /\ override # "unset"

Gated(r) == Passed(req[r]) /\ Scanning(req[r], row["dlpTeam"])
AllGated == \A r \in Requests : Gated(r)

\* A rested request is gated whatever the override.
LEMMA RestGated == \A b, o : Passed(Rest(b)) /\ Scanning(Rest(b), o)
BY DEF Passed, PassedFirst, PassedScan, PassedAgain, ServesAsked, Scanning, Rest, Scanned, Substituted

LEMMA GatedBecomes ==
    ASSUME RequestTypes, AllGated, NEW r \in Requests, NEW q, Passed(q), Scanning(q, row["dlpTeam"]),
           req' = [req EXCEPT ![r] = q], row' = row
    PROVE  AllGated'
<1>1. ASSUME NEW x \in Requests PROVE Gated(x)'
    <2>1. req'[x] = IF x = r THEN q ELSE req[x]
        BY DEF RequestTypes
    <2>2. Gated(x)
        BY DEF AllGated
    <2>3. CASE x = r
        BY <2>1, <2>3 DEF Gated
    <2>4. CASE x # r
        BY <2>1, <2>2, <2>4 DEF Gated
    <2> QED BY <2>3, <2>4
<1> QED BY <1>1 DEF AllGated

\* The request goes on as q, permitted to the models ms by the checks cs.
Passes(r, q, cs, ms) ==
    /\ req' = [req EXCEPT ![r] = q] /\ UNCHANGED <<row, cached, entry>>
    /\ q.prompt = req[r].prompt /\ q.model = req[r].model /\ q.answered = req[r].answered
    /\ req[r].pc \notin {"rest", "sent", "answered"}
    /\ q.pc \notin {"rest", "sent", "answered"}
    /\ cs \subseteq Checks /\ ms \subseteq Models
    /\ q.passed = req[r].passed \cup (cs \X ms)
    /\ \A c \in cs, m \in ms : Lets(c, q.prompt, m)
    /\ Passed(q) /\ Scanning(q, row["dlpTeam"])

\* A check that lets a request pass, or a step that asks none, is an approval.
LEMMA PassingMaps ==
    ASSUME Types, AllGated, RequestTypes', NEW r \in Requests,
           NEW q, NEW cs, NEW ms, Passes(r, q, cs, ms)
    PROVE  AllGated' /\ Gate!GateNext
<1>1. q \in Request
    BY DEF RequestTypes, Passes, Types
<1>2. Gate!Approve(r, cs, ms)
    <2>1. {q.pc, req[r].pc} \cap {"sent", "answered"} = {} /\ InFlight(r)
        BY DEF Passes, InFlight
    <2> QED BY <1>1, <2>1, PassingApproves DEF Passes
<1>3. Gate!GateNext
    BY <1>2 DEF Gate!GateNext, Gate!Checks, Checks, Passes
<1>4. AllGated'
    BY GatedBecomes DEF Types, Passes
<1> QED BY <1>3, <1>4

\* What is known of a request before its step and of its record after it.
LEMMA Kept ==
    ASSUME Types, AllGated, NEW r \in Requests
    PROVE  /\ req[r] \in Request /\ Named(req[r])
           /\ Passed(req[r]) /\ Scanning(req[r], row["dlpTeam"])
BY DEF Types, RequestTypes, AllGated, Gated

LEMMA ChecksOfAskedMap ==
    ASSUME Types, AllGated, RequestTypes', NEW r \in Requests,
           CheckModelPolicy(r) \/ CheckResidency(r) \/ Miss(r) \/ KeepModel(r)
    PROVE  AllGated' /\ Gate!GateNext
<1> DEFINE q == req[r]
<1>q. /\ q \in Request /\ Named(q) /\ Passed(q)
    BY Kept
<1>1. CASE CheckModelPolicy(r)
    <2> DEFINE pc == IF cached["caching"] THEN "lookup" ELSE "residency"
               new == [q EXCEPT !.pc = pc, !.caching = cached["caching"],
                                !.passed = @ \cup {<<"model", q.model>>}]
    <2>1. /\ q.pc = "policy" /\ ModelAllowed(q.model) /\ q.model \in Models
          /\ req' = [req EXCEPT ![r] = new]
          /\ UNCHANGED <<row, cached, entry>>
        BY <1>1, <1>q DEF CheckModelPolicy, Becomes, others, Named
    <2>2. pc \in {"lookup", "residency"}
        OBVIOUS
    <2> HIDE DEF pc
    <2>3. /\ new.pc = pc /\ new.prompt = q.prompt /\ new.model = q.model
          /\ new.serving = q.serving /\ new.answered = q.answered
          /\ new.passed = q.passed \cup {<<"model", q.model>>}
        BY <1>q DEF Request
    <2>4. {<<"model", q.model>>} = {"model"} \X {q.model}
        OBVIOUS
    <2>5. Passed(new) /\ Scanning(new, row["dlpTeam"])
        BY <1>q, <2>1, <2>2, <2>3 DEF Passed, PassedFirst, PassedScan, PassedAgain, ServesAsked,
                                      Scanning, Scanned, Substituted
    <2>6. \A c \in {"model"}, m \in {q.model} : Lets(c, new.prompt, m)
        BY <2>1 DEF Lets
    <2> HIDE DEF new
    <2>7. Passes(r, new, {"model"}, {q.model})
        BY <2>1, <2>2, <2>3, <2>4, <2>5, <2>6 DEF Passes, Checks
    <2> QED BY <2>7, PassingMaps
<1>2. CASE CheckResidency(r)
    <2> DEFINE new == [q EXCEPT !.pc = "dlp", !.passed = @ \cup {<<"residency", q.model>>}]
    <2>1. /\ q.pc = "residency" /\ ResidencyAllows(q.model) /\ q.model \in Models
          /\ req' = [req EXCEPT ![r] = new]
          /\ UNCHANGED <<row, cached, entry>>
        BY <1>2, <1>q DEF CheckResidency, Becomes, others, Named
    <2>2. /\ new.pc = "dlp" /\ new.prompt = q.prompt /\ new.model = q.model
          /\ new.serving = q.serving /\ new.answered = q.answered
          /\ new.passed = q.passed \cup {<<"residency", q.model>>}
        BY <1>q DEF Request
    <2>3. {<<"residency", q.model>>} = {"residency"} \X {q.model}
        OBVIOUS
    <2>4. Passed(new) /\ Scanning(new, row["dlpTeam"])
        BY <1>q, <2>1, <2>2 DEF Passed, PassedFirst, PassedScan, PassedAgain, ServesAsked,
                                Scanning, Scanned, Substituted
    <2>5. \A c \in {"residency"}, m \in {q.model} : Lets(c, new.prompt, m)
        BY <2>1 DEF Lets
    <2> HIDE DEF new
    <2>6. Passes(r, new, {"residency"}, {q.model})
        BY <2>1, <2>2, <2>3, <2>4, <2>5 DEF Passes, Checks
    <2> QED BY <2>6, PassingMaps
<1>3. ASSUME NEW pc \in {"residency", "dispatch"},
             q.pc = IF pc = "residency" THEN "lookup" ELSE "budget",
             req' = [req EXCEPT ![r] = [q EXCEPT !.pc = pc]],
             UNCHANGED <<row, cached, entry>>
      PROVE  AllGated' /\ Gate!GateNext
    <2> DEFINE new == [q EXCEPT !.pc = pc]
    <2>1. /\ new.pc = pc /\ new.prompt = q.prompt /\ new.model = q.model
          /\ new.serving = q.serving /\ new.answered = q.answered
          /\ new.findings = q.findings /\ new.passed = q.passed
          /\ new.degraded = q.degraded /\ new.fallback = q.fallback
        BY <1>q DEF Request
    <2>2. PassedFirst(new) /\ PassedScan(new) /\ ServesAsked(new)
          /\ Scanning(new, row["dlpTeam"])
        BY <1>q, <1>3, <2>1 DEF Passed, PassedFirst, PassedScan, ServesAsked,
                                Scanning, Scanned, Substituted
    <2>3. PassedAgain(new)
        <3>1. CASE pc = "residency"
            BY <2>1, <3>1 DEF PassedAgain
        <3>2. CASE pc = "dispatch"
            <4>1. q.serving = q.model /\ q.model \in Models
                BY <1>q, <1>3, <3>2 DEF Passed, ServesAsked, Substituted, Named
            <4>2. \A c \in Checks : <<c, q.model>> \in q.passed
                BY <1>q, <1>3, <3>2, <4>1 DEF Passed, PassedFirst, PassedScan, Scanned, Checks
            <4>3. Checks \X {new.serving} \subseteq new.passed
                BY <2>1, <4>1, <4>2
            <4> QED BY <2>1, <3>2, <4>3 DEF PassedAgain
        <3> QED BY <3>1, <3>2
    <2>4. new.passed = q.passed \cup ({} \X {})
        BY <2>1
    <2>5. Passed(new) /\ req' = [req EXCEPT ![r] = new]
        BY <1>3, <2>2, <2>3 DEF Passed
    <2> HIDE DEF new
    <2>6. Passes(r, new, {}, {})
        BY <1>3, <2>1, <2>2, <2>4, <2>5 DEF Passes, Checks
    <2> QED BY <2>6, PassingMaps
<1>4. CASE Miss(r)
    BY <1>3, <1>4 DEF Miss, Becomes, others
<1>5. CASE KeepModel(r)
    BY <1>3, <1>5 DEF KeepModel, Becomes, others
<1> QED BY <1>1, <1>2, <1>4, <1>5

\* What the detectors and patterns let pass depends on the prompt alone.
LEMMA ScanLets ==
    ASSUME Types, NEW p
    PROVE  /\ DetectorAction(row["dlp"], row["dlpTeam"]) # "block"
                 => \A m \in Models : Lets("detectors", p, m)
           /\ p \notin Sensitive => \A m \in Models : Lets("detectors", p, m)
           /\ \A m \in Models : Lets("patterns", p, m) <=> (p \in Sensitive => row["pattern"] # "block")
BY DEF Lets

LEMMA LoadDlpPolicyMaps ==
    ASSUME Types, AllGated, RequestTypes', NEW r \in Requests, LoadDlpPolicy(r)
    PROVE  AllGated' /\ Gate!GateNext
<1> DEFINE q == req[r]
           let == {m \in Models : Lets("detectors", q.prompt, m)}
           new == [q EXCEPT !.pc = "scan", !.read = row["dlp"],
                            !.passed = @ \cup Now("detectors", q.prompt, Models)]
<1>1. q \in Request /\ Passed(q)
    BY Kept
<1>2. /\ q.pc = "dlp" /\ req' = [req EXCEPT ![r] = new] /\ UNCHANGED <<row, cached, entry>>
    BY DEF LoadDlpPolicy, Becomes, others
<1>3. Now("detectors", q.prompt, Models) = {"detectors"} \X let
    BY DEF Now
<1>4. /\ new.pc = "scan" /\ new.prompt = q.prompt /\ new.model = q.model
      /\ new.serving = q.serving /\ new.answered = q.answered /\ new.read = row["dlp"]
      /\ new.passed = q.passed \cup ({"detectors"} \X let)
    BY <1>1, <1>3 DEF Request
<1>5. Passed(new)
    BY <1>1, <1>2, <1>4 DEF Passed, PassedFirst, PassedScan, PassedAgain, ServesAsked,
                            Scanned, Substituted
<1>6. Scanning(new, row["dlpTeam"])
    <2>1. CASE row["dlp"] = "off" \/ (row["dlp"] # "block" /\ row["dlpTeam"] = "unset")
        <3>1. DetectorAction(row["dlp"], row["dlpTeam"]) # "block"
            BY <2>1 DEF DetectorAction
        <3>2. let = Models
            BY <3>1, ScanLets
        <3> QED BY <1>4, <3>2 DEF Scanning
    <2>2. CASE row["dlp"] = "block"
        BY <1>4, <2>2 DEF Scanning
    <2>3. CASE row["dlp"] # "off" /\ row["dlpTeam"] # "unset"
        BY <1>4, <2>3 DEF Scanning
    <2> QED BY <2>1, <2>2, <2>3
<1>7. \A c \in {"detectors"}, m \in let : Lets(c, new.prompt, m)
    BY <1>4
<1>8. let \subseteq Models
    OBVIOUS
<1> HIDE DEF new, let
<1>9. Passes(r, new, {"detectors"}, let)
    BY <1>2, <1>4, <1>5, <1>6, <1>7, <1>8 DEF Passes, Checks
<1> QED BY <1>9, PassingMaps

\* A scan that blocks nothing leaves the detectors' permission: it was given
\* with the rows read first, or the override decides as it does now.
LEMMA DetectorsPassed ==
    ASSUME Types, NEW q, Scanning(q, row["dlpTeam"]), q.pc = "scan",
           q.prompt \in Sensitive => DetectorAction(q.read, row["dlpTeam"]) # "block"
    PROVE  \/ {"detectors"} \X Models \subseteq q.passed
           \/ \A m \in Models : Lets("detectors", q.prompt, m)
<1>1. CASE q.prompt \notin Sensitive
    BY <1>1, ScanLets
<1>2. CASE q.prompt \in Sensitive /\ row["dlpTeam"] # "unset" /\ q.read # "off"
    <2>1. row["dlpTeam"] # "block"
        BY <1>2 DEF DetectorAction
    <2>2. DetectorAction(row["dlp"], row["dlpTeam"]) # "block"
        BY <1>2, <2>1 DEF DetectorAction
    <2> QED BY <2>2, ScanLets
<1>3. CASE q.prompt \in Sensitive /\ (row["dlpTeam"] = "unset" \/ q.read = "off")
    <2>1. q.read # "block"
        BY <1>3 DEF DetectorAction
    <2> QED BY <1>3, <2>1 DEF Scanning
<1> QED BY <1>1, <1>2, <1>3

LEMMA RunDlpScanMaps ==
    ASSUME Types, AllGated, RequestTypes', NEW r \in Requests, RunDlpScan(r)
    PROVE  AllGated' /\ Gate!GateNext
<1> DEFINE q == req[r]
           p == q.prompt
           actions == {DetectorAction(q.read, row["dlpTeam"]), row["pattern"]}
           findings == p \in Sensitive /\ cached["content"] # Models
           redacted == p \in Sensitive /\ "redact" \in actions
           now == Now("detectors", p, Models)
           new == [q EXCEPT !.pc = "content", !.findings = findings, !.redacted = redacted,
                    !.passed = @ \cup now \cup Now("patterns", p, Models)
                                 \cup (IF findings THEN {} ELSE {"content"} \X Models)]
           cs == {c \in {"detectors", "patterns", "content"} :
                    /\ c = "detectors" => \A m \in Models : Lets("detectors", p, m)
                    /\ c = "content" => ~findings}
<1>1. q \in Request /\ Named(q) /\ Passed(q) /\ Scanning(q, row["dlpTeam"])
    BY Kept
<1>2. /\ q.pc = "scan" /\ (p \in Sensitive => "block" \notin actions)
      /\ req' = [req EXCEPT ![r] = new] /\ UNCHANGED <<row, cached, entry>>
    BY DEF RunDlpScan, Becomes, others
<1>3. Now("patterns", p, Models) = {"patterns"} \X Models
      /\ \A m \in Models : Lets("patterns", p, m)
    BY <1>2, ScanLets DEF Now
<1>4. ~findings => \A m \in Models : Lets("content", p, m)
    BY DEF Lets, ContentAllows
<1>5. now = IF "detectors" \in cs THEN {"detectors"} \X Models ELSE {}
    <2>1. \A m, x \in Models : Lets("detectors", p, m) <=> Lets("detectors", p, x)
        BY DEF Lets
    <2>2. CASE "detectors" \in cs
        BY <2>2 DEF Now
    <2>3. CASE "detectors" \notin cs
        BY <2>1, <2>3 DEF Now
    <2> QED BY <2>2, <2>3
<1>6. /\ new.pc = "content" /\ new.prompt = p /\ new.model = q.model
      /\ new.serving = q.serving /\ new.answered = q.answered /\ new.findings = findings
      /\ new.passed = q.passed \cup now \cup ({"patterns"} \X Models)
                                 \cup (IF findings THEN {} ELSE {"content"} \X Models)
    BY <1>1, <1>3 DEF Request
<1>7. new.passed = q.passed \cup (cs \X Models)
    BY <1>5, <1>6
<1>8. {"detectors"} \X Models \subseteq new.passed
    <2>1. \/ {"detectors"} \X Models \subseteq q.passed
          \/ \A m \in Models : Lets("detectors", p, m)
        BY <1>1, <1>2, DetectorsPassed
    <2> QED BY <1>6, <2>1 DEF Now
<1>9. Passed(new) /\ Scanning(new, row["dlpTeam"])
    BY <1>1, <1>2, <1>6, <1>8 DEF Passed, PassedFirst, PassedScan, PassedAgain, ServesAsked,
                                  Scanning, Scanned, Substituted
<1>10. \A c \in cs, m \in Models : Lets(c, new.prompt, m)
    BY <1>3, <1>4, <1>6
<1>11. cs \subseteq Checks
    BY DEF Checks
<1> HIDE DEF new, cs
<1>12. Passes(r, new, cs, Models)
    BY <1>2, <1>6, <1>7, <1>9, <1>10, <1>11 DEF Passes
<1> QED BY <1>12, PassingMaps

LEMMA CheckContentMaps ==
    ASSUME Types, AllGated, RequestTypes', NEW r \in Requests, CheckContent(r)
    PROVE  AllGated' /\ Gate!GateNext
<1> DEFINE q == req[r]
           cs == IF q.findings THEN {"content"} ELSE {}
           new == [q EXCEPT !.pc = "budget", !.passed = @ \cup {<<"content", q.model>>}]
<1>1. q \in Request /\ Named(q) /\ Passed(q)
    BY Kept
<1>2. /\ q.pc = "content" /\ (q.findings => ContentAllows(q.model)) /\ q.model \in Models
      /\ req' = [req EXCEPT ![r] = new] /\ UNCHANGED <<row, cached, entry>>
    BY <1>1 DEF CheckContent, Becomes, others, Named
<1>3. /\ new.pc = "budget" /\ new.prompt = q.prompt /\ new.model = q.model
      /\ new.serving = q.serving /\ new.answered = q.answered /\ new.findings = q.findings
      /\ new.passed = q.passed \cup {<<"content", q.model>>}
    BY <1>1 DEF Request
<1>4. new.passed = q.passed \cup (cs \X {q.model})
    <2>1. ~q.findings => <<"content", q.model>> \in q.passed
        BY <1>1, <1>2 DEF Passed, PassedScan, Scanned
    <2> QED BY <1>3, <2>1
<1>5. Passed(new) /\ Scanning(new, row["dlpTeam"])
    BY <1>1, <1>2, <1>3 DEF Passed, PassedFirst, PassedScan, PassedAgain, ServesAsked,
                            Scanning, Scanned, Substituted
<1>6. \A c \in cs, m \in {q.model} : Lets(c, new.prompt, m)
    BY <1>2 DEF Lets
<1> HIDE DEF new
<1>7. Passes(r, new, cs, {q.model})
    BY <1>2, <1>3, <1>4, <1>5, <1>6 DEF Passes, Checks
<1> QED BY <1>7, PassingMaps

\* A substitute starts again at the checks that depend on the model.
Substitute(q, new) ==
    /\ q.pc \in Scanned /\ Passed(q)
    /\ new.pc = "recheck" /\ new.prompt = q.prompt /\ new.model = q.model
    /\ new.answered = q.answered /\ new.findings = q.findings /\ new.passed = q.passed
    /\ new.degraded \/ new.fallback

LEMMA SubstitutePassed ==
    ASSUME NEW q, NEW new, Substitute(q, new), NEW o
    PROVE  Passed(new) /\ Scanning(new, o)
BY DEF Substitute, Passed, PassedFirst, PassedScan, PassedAgain, ServesAsked,
       Scanning, Scanned, Substituted

\* A request that passes no check on its way changes at most where it is.
LEMMA MovesOn ==
    ASSUME Types, RequestTypes', NEW r \in Requests, InFlight(r), NEW q,
           req' = [req EXCEPT ![r] = q], q.pc # "rest",
           q.prompt = req[r].prompt, q.model = req[r].model,
           q.answered = req[r].answered, q.passed = req[r].passed
    PROVE  /\ UNCHANGED <<Asked, Approved, Told>>
           /\ At' = [At EXCEPT ![r] = IF q.pc \in {"sent", "answered"} THEN q.serving ELSE None]
<1>1. q \in Request
    BY DEF RequestTypes, Types
<1>2. /\ Asked = [x \in Requests |-> Asked[x]] /\ Asked[r] = <<q.prompt, q.model>>
      /\ Approved = [x \in Requests |-> Approved[x]] /\ Approved[r] = q.passed
      /\ Told = [x \in Requests |-> Told[x]] /\ Told[r] = q.answered
    BY DEF Asked, Approved, Told
<1>3. /\ Asked' = [Asked EXCEPT ![r] = <<q.prompt, q.model>>]
      /\ Approved' = [Approved EXCEPT ![r] = q.passed]
      /\ Told' = [Told EXCEPT ![r] = q.answered]
      /\ At' = [At EXCEPT ![r] = IF q.pc \in {"sent", "answered"} THEN q.serving ELSE None]
    BY <1>1, SeenOfRequest DEF Types
<1> QED BY <1>2, <1>3

LEMMA SubstituteMaps ==
    ASSUME Types, AllGated, RequestTypes', NEW r \in Requests, NEW new,
           Substitute(req[r], new),
           req' = [req EXCEPT ![r] = new], UNCHANGED <<row, cached, entry>>
    PROVE  AllGated' /\ Gate!GateNext
<1>1. UNCHANGED <<Asked, Approved, Told>> /\ At' = [At EXCEPT ![r] = None]
    BY MovesOn DEF Substitute, Scanned, InFlight
<1>2. Gate!TakeBack(r)
    BY <1>1, PermitsUnchanged, MemoryUnchanged DEF Gate!TakeBack
<1>3. AllGated'
    BY GatedBecomes, SubstitutePassed DEF Types
<1> QED BY <1>2, <1>3 DEF Gate!GateNext

LEMMA DegradeMaps ==
    ASSUME Types, AllGated, RequestTypes', NEW r \in Requests, Degrade(r)
    PROVE  AllGated' /\ Gate!GateNext
<1> DEFINE q == req[r]
           new == [q EXCEPT !.pc = "recheck", !.degraded = TRUE, !.serving = cached["downgrade"]]
<1>1. q \in Request /\ Passed(q)
    BY Kept
<1>2. q.pc = "budget" /\ req' = [req EXCEPT ![r] = new] /\ UNCHANGED <<row, cached, entry>>
    BY DEF Degrade, Becomes, others
<1>3. Substitute(q, new)
    BY <1>1, <1>2 DEF Request, Substitute, Scanned
<1> HIDE DEF new
<1> QED BY <1>2, <1>3, SubstituteMaps

LEMMA RecheckMaps ==
    ASSUME Types, AllGated, RequestTypes', NEW r \in Requests, Recheck(r)
    PROVE  AllGated' /\ Gate!GateNext
<1> DEFINE q == req[r]
           m == q.serving
           cs == IF q.findings THEN {"model", "content"} ELSE {"model"}
           new == [q EXCEPT !.pc = "rezone", !.passed = @ \cup {<<"model", m>>, <<"content", m>>}]
<1>1. q \in Request /\ Named(q) /\ Passed(q)
    BY Kept
<1>2. /\ q.pc = "recheck" /\ ModelAllowed(m) /\ (q.findings => ContentAllows(m)) /\ m \in Models
      /\ req' = [req EXCEPT ![r] = new] /\ UNCHANGED <<row, cached, entry>>
    BY <1>1 DEF Recheck, Becomes, others, Named
<1>3. /\ new.pc = "rezone" /\ new.prompt = q.prompt /\ new.model = q.model
      /\ new.serving = q.serving /\ new.answered = q.answered /\ new.findings = q.findings
      /\ new.degraded = q.degraded /\ new.fallback = q.fallback
      /\ new.passed = q.passed \cup {<<"model", m>>, <<"content", m>>}
    BY <1>1 DEF Request
<1>4. new.passed = q.passed \cup (cs \X {m})
    <2>1. ~q.findings => <<"content", m>> \in q.passed
        BY <1>1, <1>2 DEF Passed, PassedScan, Scanned
    <2> QED BY <1>3, <2>1
<1>5. Passed(new) /\ Scanning(new, row["dlpTeam"])
    <2>1. PassedFirst(new) /\ PassedScan(new) /\ ServesAsked(new) /\ Scanning(new, row["dlpTeam"])
        BY <1>1, <1>2, <1>3 DEF Passed, PassedFirst, PassedScan, ServesAsked,
                                Scanning, Scanned, Substituted
    <2>2. PassedAgain(new)
        BY <1>3 DEF PassedAgain
    <2> QED BY <2>1, <2>2 DEF Passed
<1>6. \A c \in cs, x \in {m} : Lets(c, new.prompt, x)
    BY <1>2 DEF Lets
<1> HIDE DEF new
<1>7. Passes(r, new, cs, {m})
    BY <1>2, <1>3, <1>4, <1>5, <1>6 DEF Passes, Checks
<1> QED BY <1>7, PassingMaps

LEMMA RecheckResidencyMaps ==
    ASSUME Types, AllGated, RequestTypes', NEW r \in Requests, RecheckResidency(r)
    PROVE  AllGated' /\ Gate!GateNext
<1> DEFINE q == req[r]
           m == q.serving
           new == [q EXCEPT !.pc = "dispatch", !.passed = @ \cup {<<"residency", m>>}]
<1>1. q \in Request /\ Named(q) /\ Passed(q)
    BY Kept
<1>2. /\ q.pc = "rezone" /\ ResidencyAllows(m) /\ m \in Models
      /\ req' = [req EXCEPT ![r] = new] /\ UNCHANGED <<row, cached, entry>>
    BY <1>1 DEF RecheckResidency, Becomes, others, Named
<1>3. /\ new.pc = "dispatch" /\ new.prompt = q.prompt /\ new.model = q.model
      /\ new.serving = q.serving /\ new.answered = q.answered /\ new.findings = q.findings
      /\ new.degraded = q.degraded /\ new.fallback = q.fallback
      /\ new.passed = q.passed \cup {<<"residency", m>>}
    BY <1>1 DEF Request
<1>4. new.passed = q.passed \cup ({"residency"} \X {m})
    BY <1>3
<1>5. Passed(new) /\ Scanning(new, row["dlpTeam"])
    <2>1. PassedFirst(new) /\ PassedScan(new) /\ ServesAsked(new) /\ Scanning(new, row["dlpTeam"])
        BY <1>1, <1>2, <1>3 DEF Passed, PassedFirst, PassedScan, ServesAsked,
                                Scanning, Scanned, Substituted
    <2>2. \A c \in Checks : <<c, m>> \in new.passed
        BY <1>1, <1>2, <1>3 DEF Passed, PassedScan, PassedAgain, Scanned, Checks
    <2>3. PassedAgain(new)
        BY <1>3, <2>2 DEF PassedAgain
    <2> QED BY <2>1, <2>3 DEF Passed
<1>6. \A c \in {"residency"}, x \in {m} : Lets(c, new.prompt, x)
    BY <1>2 DEF Lets
<1> HIDE DEF new
<1>7. Passes(r, new, {"residency"}, {m})
    BY <1>2, <1>3, <1>4, <1>5, <1>6 DEF Passes, Checks
<1> QED BY <1>7, PassingMaps

LEMMA NextCandidateMaps ==
    ASSUME Types, AllGated, RequestTypes', NEW r \in Requests, NextCandidate(r)
    PROVE  AllGated' /\ Gate!GateNext
<1> DEFINE q == req[r]
<1>1. q \in Request /\ Passed(q)
    BY Kept
<1>2. PICK m, rest : req' = [req EXCEPT ![r] = [q EXCEPT !.pc = "recheck", !.fallback = TRUE,
                                                  !.serving = m, !.chain = rest]]
    BY DEF NextCandidate, Becomes
<1>3. q.pc \in Scanned /\ UNCHANGED <<row, cached, entry>>
    BY DEF NextCandidate, Becomes, others, Scanned
<1> DEFINE new == [q EXCEPT !.pc = "recheck", !.fallback = TRUE, !.serving = m, !.chain = rest]
<1>4. Substitute(q, new)
    BY <1>1, <1>3 DEF Request, Substitute
<1> HIDE DEF new
<1>5. req' = [req EXCEPT ![r] = new]
    BY <1>2 DEF new
<1> QED BY <1>3, <1>4, <1>5, SubstituteMaps

LEMMA SendingMaps ==
    ASSUME Types, AllGated, RequestTypes', NEW r \in Requests, Dispatch(r) \/ ProviderAnswers(r)
    PROVE  AllGated' /\ Gate!GateNext
<1> DEFINE q == req[r]
<1>1. q \in Request /\ Named(q) /\ Passed(q)
    BY Kept
<1>2. PICK pc \in {"sent", "answered"} : req' = [req EXCEPT ![r] = [q EXCEPT !.pc = pc]]
    BY DEF Dispatch, ProviderAnswers, Becomes
<1>3. q.pc \in {"dispatch", "sent"} /\ UNCHANGED <<row, cached, entry>>
    BY DEF Dispatch, ProviderAnswers, Becomes, others
<1> DEFINE new == [q EXCEPT !.pc = pc]
<1>4. /\ new.pc = pc /\ new.prompt = q.prompt /\ new.model = q.model
      /\ new.serving = q.serving /\ new.answered = q.answered /\ new.findings = q.findings
      /\ new.degraded = q.degraded /\ new.fallback = q.fallback /\ new.passed = q.passed
    BY <1>1 DEF Request
<1>5. Passed(new) /\ Scanning(new, row["dlpTeam"])
    BY <1>1, <1>3, <1>4 DEF Passed, PassedFirst, PassedScan, PassedAgain, ServesAsked,
                            Scanning, Scanned, Substituted
<1>6. req' = [req EXCEPT ![r] = new]
    BY <1>2
<1>7. Checks \X {q.serving} \subseteq Approved[r] /\ q.serving \in Models
    BY <1>1, <1>3 DEF Passed, PassedAgain, Approved, Named
<1> HIDE DEF new
<1>8. AllGated'
    BY <1>3, <1>5, <1>6, GatedBecomes DEF Types
<1>9. UNCHANGED <<Asked, Approved, Told>> /\ At' = [At EXCEPT ![r] = q.serving]
    BY <1>2, <1>3, <1>4, <1>6, MovesOn DEF InFlight
<1>10. Gate!Send(r, q.serving)
    <2>1. Gate!Open(r)
        BY <1>3, InFlightIsOpen DEF InFlight, Types
    <2> QED BY <1>3, <1>7, <1>9, <2>1, PermitsUnchanged, MemoryUnchanged
            DEF Gate!Send, Gate!Checks, Checks
<1> QED BY <1>7, <1>8, <1>10 DEF Gate!GateNext

LEMMA ArriveMaps ==
    ASSUME Types, AllGated, RequestTypes', NEW r \in Requests, Arrive(r)
    PROVE  AllGated' /\ Gate!GateNext
<1> DEFINE q == req[r]
<1>1. PICK p \in Prompts, m \in Models :
        req' = [req EXCEPT ![r] = [Rest(q.answered) EXCEPT
                    !.pc = "policy", !.prompt = p, !.model = m, !.serving = m]]
    BY DEF Arrive
<1> DEFINE new == [Rest(q.answered) EXCEPT
                    !.pc = "policy", !.prompt = p, !.model = m, !.serving = m]
<1>2. q.pc = "rest" /\ q.passed = {} /\ UNCHANGED <<row, cached, entry>>
    BY Kept DEF Arrive, InFlight, Passed, PassedFirst
<1>3. /\ new.pc = "policy" /\ new.prompt = p /\ new.model = m /\ new.serving = m
      /\ new.answered = q.answered /\ new.passed = {}
    BY DEF Rest
<1>4. Passed(new) /\ Scanning(new, row["dlpTeam"])
    BY <1>3 DEF Passed, PassedFirst, PassedScan, PassedAgain, ServesAsked,
                Scanning, Scanned, Substituted
<1>5. req' = [req EXCEPT ![r] = new]
    BY <1>1
<1> HIDE DEF new
<1>6. AllGated'
    BY <1>2, <1>4, <1>5, GatedBecomes DEF Types
<1>7. new \in Request
    BY <1>5 DEF RequestTypes, Types
<1>8. /\ Asked' = [Asked EXCEPT ![r] = <<p, m>>]
      /\ Approved' = [Approved EXCEPT ![r] = {}]
      /\ At' = [At EXCEPT ![r] = None]
      /\ Told' = [Told EXCEPT ![r] = q.answered]
    BY <1>3, <1>5, <1>7, SeenOfRequest DEF Types
<1>9. /\ Approved = [x \in Requests |-> Approved[x]] /\ Approved[r] = {}
      /\ At = [x \in Requests |-> At[x]] /\ At[r] = None
      /\ Told = [x \in Requests |-> Told[x]] /\ Told[r] = q.answered
    BY <1>2 DEF Approved, At, Told
<1>10. UNCHANGED <<Approved, At, Told>>
    BY <1>8, <1>9
<1>11. Gate!Ask(r, <<p, m>>)
    <2>1. ~Gate!Open(r)
        BY <1>2, InFlightIsOpen DEF InFlight, Types
    <2> QED BY <1>2, <1>8, <1>10, <2>1, PermitsUnchanged, MemoryUnchanged DEF Gate!Ask
<1>12. <<p, m>> \in Gate!Questions
    BY DEF Gate!Questions
<1> QED BY <1>6, <1>11, <1>12 DEF Gate!GateNext

\* A request ends refused, or with an answer from the cache or of a model.
LEMMA EndingMaps ==
    ASSUME Types, AllGated, NEW r \in Requests,
           ServeHit(r) \/ WriteResponseCache(r) \/ ReturnAnswer(r) \/ Refuse(r)
    PROVE  AllGated' /\ Gate!GateNext
<1> DEFINE q == req[r]
<1>1. q \in Request /\ Named(q) /\ Passed(q)
    BY Kept
<1>2. PICK b \in BOOLEAN : req' = [req EXCEPT ![r] = Rest(b)]
    BY DEF ServeHit, WriteResponseCache, ReturnAnswer, Refuse, Becomes
<1>3. q.pc # "rest" /\ UNCHANGED <<row, cached>>
    BY DEF ServeHit, WriteResponseCache, ReturnAnswer, Refuse, Becomes, others, InFlight
<1>4. AllGated'
    BY <1>2, <1>3, RestGated, GatedBecomes DEF Types
<1>5. /\ Asked[r] = <<q.prompt, q.model>> /\ Asked[r] \in Keys /\ Approved[r] = q.passed
      /\ q.pc \in {"sent", "answered"} => At[r] = q.serving
    BY <1>3, InFlightIsOpen DEF Types, InFlight, Approved, At
<1>6. \A c \in BOOLEAN : req' = [req EXCEPT ![r] = Rest(c)] => Gate!Open(r) /\ Gate!Close(r, c)
    BY <1>3, RestingCloses DEF InFlight
<1>7. CASE ServeHit(r)
    <2>1. /\ q.pc = "lookup" /\ entry[<<q.prompt, q.model>>] # "none"
          /\ req' = [req EXCEPT ![r] = Rest(TRUE)] /\ entry' = entry
        BY <1>7 DEF ServeHit, Becomes, others
    <2>2. Asked[r] \in Memory
        BY <1>5, <2>1 DEF Memory
    <2>3. <<"model", Asked[r][2]>> \in Approved[r]
        BY <1>1, <1>5, <2>1 DEF Passed, PassedFirst
    <2>4. Gate!Recall(r)
        BY <1>6, <2>1, <2>2, <2>3, MemoryUnchanged DEF Gate!Recall
    <2> QED BY <1>4, <2>4 DEF Gate!GateNext
<1>8. CASE WriteResponseCache(r)
    <2> DEFINE kept == IF q.overtaken THEN "excused" ELSE "kept"
    <2>1. /\ q.pc = "answered" /\ ~q.degraded /\ ~q.fallback
          /\ entry' = [entry EXCEPT ![<<q.prompt, q.model>>] = kept]
          /\ req' = [req EXCEPT ![r] = Rest(TRUE)]
        BY <1>8 DEF WriteResponseCache, SkipWrite
    <2>2. At[r] = Asked[r][2]
        BY <1>1, <1>5, <2>1 DEF Passed, ServesAsked
    <2>3. Memory' = Memory \cup {Asked[r]}
        <3>1. kept # "none"
            OBVIOUS
        <3>2. \A k \in Keys : entry'[k] = IF k = Asked[r] THEN kept ELSE entry[k]
            BY <1>5, <2>1 DEF Types
        <3> HIDE DEF kept
        <3> QED BY <1>5, <3>1, <3>2 DEF Memory
    <2>4. Gate!Remember(r)
        BY <1>6, <2>1, <2>2, <2>3 DEF Gate!Remember
    <2> QED BY <1>4, <2>4 DEF Gate!GateNext
<1>9. CASE ReturnAnswer(r)
    <2>1. /\ q.pc = "answered" /\ req' = [req EXCEPT ![r] = Rest(TRUE)] /\ entry' = entry
        BY <1>9 DEF ReturnAnswer, Becomes, others
    <2>2. At[r] # None
        BY <1>1, <1>5, <2>1, GatewayAssumption DEF Named
    <2>3. Gate!Answer(r)
        BY <1>6, <2>1, <2>2, MemoryUnchanged DEF Gate!Answer
    <2> QED BY <1>4, <2>3 DEF Gate!GateNext
<1>10. CASE Refuse(r)
    <2>1. req' = [req EXCEPT ![r] = Rest(FALSE)] /\ entry' = entry
        BY <1>10 DEF Refuse, Becomes, others
    <2>2. Gate!Refuse(r)
        BY <1>6, <2>1, MemoryUnchanged DEF Gate!Refuse
    <2> QED BY <1>4, <2>2 DEF Gate!GateNext
<1> QED BY <1>7, <1>8, <1>9, <1>10

LEMMA RequestStepMaps ==
    ASSUME Types, AllGated, NEW r \in Requests, RequestStep(r)
    PROVE  AllGated' /\ Gate!GateNext
<1>1. RequestTypes'
    BY RequestStepTypes
<1> QED BY <1>1, ArriveMaps, ChecksOfAskedMap, LoadDlpPolicyMaps, RunDlpScanMaps, CheckContentMaps,
           DegradeMaps, RecheckMaps, RecheckResidencyMaps, SendingMaps, NextCandidateMaps, EndingMaps
        DEF RequestStep
-----------------------------------------------------------------------------
(* Administrators, expiry and the heal: permissions change, or answers are *)
(* forgotten, and what was approved stays approved.                        *)

LEMMA SameToGate ==
    ASSUME Types, AllGated, NEW k, req' = req \/ req' = Overtaken(k),
           row'["dlpTeam"] = row["dlpTeam"] \/ row'["dlpTeam"] # "unset"
    PROVE  AllGated' /\ UNCHANGED <<Asked, Approved, At, Told>>
<1>1. ASSUME NEW r \in Requests
      PROVE  /\ Passed(req'[r]) /\ Scanning(req'[r], row'["dlpTeam"])
             /\ req'[r].pc = req[r].pc /\ req'[r].prompt = req[r].prompt
             /\ req'[r].model = req[r].model /\ req'[r].serving = req[r].serving
             /\ req'[r].passed = req[r].passed /\ req'[r].answered = req[r].answered
    <2>1. req[r] \in Request /\ Passed(req[r]) /\ Scanning(req[r], row["dlpTeam"])
        BY Kept
    <2>2. req'[r] = req[r] \/ req'[r] = [req[r] EXCEPT !.overtaken = TRUE]
        BY DEF Overtaken
    <2>3. /\ req'[r].pc = req[r].pc /\ req'[r].prompt = req[r].prompt
          /\ req'[r].model = req[r].model /\ req'[r].serving = req[r].serving
          /\ req'[r].passed = req[r].passed /\ req'[r].answered = req[r].answered
          /\ req'[r].findings = req[r].findings /\ req'[r].degraded = req[r].degraded
          /\ req'[r].fallback = req[r].fallback /\ req'[r].read = req[r].read
        BY <2>1, <2>2 DEF Request
    <2>4. Passed(req'[r])
        BY <2>1, <2>3 DEF Passed, PassedFirst, PassedScan, PassedAgain, ServesAsked
    <2>5. Scanning(req'[r], row'["dlpTeam"])
        BY <2>1, <2>3 DEF Scanning
    <2> QED BY <2>3, <2>4, <2>5
<1>2. AllGated'
    BY <1>1 DEF AllGated, Gated
<1>3. UNCHANGED <<Asked, Approved, At, Told>>
    BY <1>1 DEF Asked, Approved, At, Told, InFlight
<1> QED BY <1>2, <1>3

LEMMA ExcusedIsKept ==
    ASSUME Types, NEW keys, entry' = entry \/ entry' = Excused(keys)
    PROVE  UNCHANGED Memory
<1>1. \A k \in Keys : entry'[k] # "none" <=> entry[k] # "none"
    BY DEF Excused
<1> QED BY <1>1 DEF Memory

LEMMA AnyPermits == Permits' \in [Gate!Checks -> SUBSET Gate!Questions]
BY DEF Permits, Gate!Checks, Gate!Questions, Keys

LEMMA ChangeMaps ==
    ASSUME Types, AllGated, NEW k, req' = req \/ req' = Overtaken(k),
           row'["dlpTeam"] = row["dlpTeam"] \/ row'["dlpTeam"] # "unset",
           NEW keys, entry' = entry \/ entry' = Excused(keys)
    PROVE  AllGated' /\ Gate!GateNext
BY SameToGate, ExcusedIsKept, AnyPermits DEF Gate!GateNext, Gate!Change

\* An entry that goes is an answer forgotten.
LEMMA ForgetMaps ==
    ASSUME Types, AllGated, NEW k \in Keys, entry' = [entry EXCEPT ![k] = "none"],
           UNCHANGED <<row, cached, req>>
    PROVE  AllGated' /\ Gate!GateNext
<1>1. AllGated' /\ UNCHANGED <<Asked, Approved, At, Told>>
    BY SameToGate
<1>2. Memory' \subseteq Memory
    BY DEF Types, Memory
<1> QED BY <1>1, <1>2, PermitsUnchanged DEF Gate!GateNext, Gate!Forget

LEMMA WriterStepMaps ==
    ASSUME Types, AllGated, NEW w \in Writers, WriterStep(w)
    PROVE  AllGated' /\ Gate!GateNext
<1>1. ASSUME NEW k, NEW v, PutPolicy(w, k, v) PROVE AllGated' /\ Gate!GateNext
    BY <1>1, ChangeMaps DEF PutPolicy
<1>2. CASE CommitPolicy(w)
    <2> DEFINE k == writer[w].policy
    <2>1. k \in Policies /\ (k = "dlpTeam" => writer[w].value # "unset")
        BY <1>2 DEF CommitPolicy, Types, WriterTypes, Writing
    <2>2. row'["dlpTeam"] = row["dlpTeam"] \/ row'["dlpTeam"] # "unset"
        BY <1>2, <2>1 DEF CommitPolicy, Types, RowTypes, IsRow
    <2> QED BY <1>2, <2>2, ChangeMaps DEF CommitPolicy
<1>3. CASE RefreshCache(w)
    BY <1>3, ChangeMaps DEF RefreshCache
<1>4. CASE ScanEntries(w) \/ ScanFails(w)
    BY <1>4, ChangeMaps DEF ScanEntries, ScanFails
<1>5. ASSUME NEW k \in Keys, DeleteEntry(w, k) PROVE AllGated' /\ Gate!GateNext
    BY <1>5, ForgetMaps DEF DeleteEntry
<1>6. ASSUME NEW k \in Keys, DeleteFails(w, k) PROVE AllGated' /\ Gate!GateNext
    BY <1>6, ChangeMaps DEF DeleteFails
<1> QED BY <1>1, <1>2, <1>3, <1>4, <1>5, <1>6 DEF WriterStep

LEMMA HealMaps ==
    ASSUME Types, AllGated, Heal
    PROVE  AllGated' /\ Gate!GateNext
<1>1. UNCHANGED <<row, req, entry>>
    BY DEF Heal, HealRead, HealGiveUp, HealOrg, HealOverlay
<1> QED BY <1>1, ChangeMaps
-----------------------------------------------------------------------------
(* The refinement. *)

LEMMA InitMaps == Init => AllGated /\ Gate!GateInit
<1> SUFFICES ASSUME Init PROVE AllGated /\ Gate!GateInit
    OBVIOUS
<1>1. \A r \in Requests : req[r] = Rest(FALSE)
    BY DEF Init
<1>2. AllGated
    BY <1>1, RestGated DEF AllGated, Gated
<1>3. Permits \in [Gate!Checks -> SUBSET Gate!Questions]
    BY DEF Permits, Gate!Checks, Gate!Questions, Keys
<1>4. /\ Asked = [r \in Requests |-> None] /\ Approved = [r \in Requests |-> {}]
      /\ At = [r \in Requests |-> None] /\ Told = [r \in Requests |-> FALSE]
    <2>1. \A r \in Requests : /\ req[r].pc = "rest" /\ req[r].passed = {}
                              /\ req[r].answered = FALSE
        BY <1>1 DEF Rest
    <2>2. Asked = [r \in Requests |-> None]
        BY <2>1 DEF Asked, InFlight
    <2>3. Approved = [r \in Requests |-> {}]
        BY <2>1 DEF Approved
    <2>4. At = [r \in Requests |-> None]
        BY <2>1 DEF At
    <2>5. Told = [r \in Requests |-> FALSE]
        BY <2>1 DEF Told
    <2> QED BY <2>2, <2>3, <2>4, <2>5
<1>5. Memory = {}
    BY DEF Init, Memory
<1> QED BY <1>2, <1>3, <1>4, <1>5 DEF Gate!GateInit

LEMMA NextMaps == Types /\ AllGated /\ [Next]_vars => AllGated' /\ Gate!GateNext
<1> SUFFICES ASSUME Types, AllGated, [Next]_vars PROVE AllGated' /\ Gate!GateNext
    OBVIOUS
<1>1. ASSUME NEW k \in Keys, Expire(k) PROVE AllGated' /\ Gate!GateNext
    BY <1>1, ForgetMaps DEF Expire
<1>2. CASE UNCHANGED vars
    BY <1>2, ChangeMaps DEF vars, others
<1> QED BY <1>1, <1>2, RequestStepMaps, WriterStepMaps, HealMaps DEF Next

\* A prompt is sent to a model only after every check let that model have it
\* during this request, through every change of policy, substitute, fallback
\* and heal; an answer is kept only under the model that gave it, and is
\* recalled only for a caller who may use that model.
THEOREM PipelineKeepsGate == Spec => GateSpec
<1>1. Spec => []AllGated
    BY InitMaps, NextMaps, TypesKept, PTL DEF Spec
<1>2. Types /\ AllGated /\ [Next]_vars => [Gate!GateNext]_Gate!gate
    BY NextMaps
<1> QED BY <1>1, <1>2, InitMaps, TypesKept, PTL DEF Spec, GateSpec, Gate!GateSpec

-----------------------------------------------------------------------------
(* The heal.  A policy's cache may differ from its row only while the PUT  *)
(* that committed the row has still to refresh the cache.  The heal keeps  *)
(* this although it reads a row and sets the cache later: as long as the   *)
(* generation it read stands, no PUT has refreshed the organisation's      *)
(* cache since, so either the row is still what was read or the PUT that   *)
(* changed it is about to refresh.                                         *)

Overlays == {"teamModels", "memberModels"}

\* A PUT of k has committed and will refresh the cache.
Landing(k) == \E w \in Writers : writer[w].pc = "refresh" /\ writer[w].policy = k

Settled(k) == cached[k] = row[k] \/ Landing(k)

\* No two PUTs are of one policy.
Alone(w) ==
    /\ writer[w].pc = "idle" => writer[w].policy = None
    /\ writer[w].pc # "idle" =>
        /\ writer[w].policy # None
        /\ \A x \in Writers \ {w} : writer[x].policy # writer[w].policy

Refreshing(w) == writer[w].pc = "refresh" => writer[w].value = row[writer[w].policy]
Earlier(w) == writer[w].early => writer[w].policy \notin CachedPolicies
Orderly == \A w \in Writers : Alone(w) /\ Refreshing(w) /\ Earlier(w)

OthersSettled == \A k \in CachedPolicies \ (Overlays \cup {"orgModels"}) : Settled(k)

OrgSettled ==
    /\ heal.pc \in {"over", "warmTeam", "team", "warmMember", "member"} => Settled("orgModels")
    /\ heal.pc = "org" =>
        /\ heal.expected <= generation
        /\ heal.expected # generation => Settled("orgModels")
        /\ heal.seen = row["orgModels"] \/ generation # heal.expected \/ Landing("orgModels")

Healing == Types /\ Orderly /\ OthersSettled /\ OrgSettled

LEMMA InitHealing == Init => Healing
<1> SUFFICES ASSUME Init PROVE Healing
    OBVIOUS
<1>1. Types
    BY InitTypes
<1>2. Orderly
    BY DEF Init, Idle, Orderly, Alone, Refreshing, Earlier
<1>3. OthersSettled
    BY DEF Init, OthersSettled, Settled, Overlays, ModelLayers
<1>4. OrgSettled
    BY DEF Init, OrgSettled, Settled, CachedPolicies, ModelLayers
<1> QED BY <1>1, <1>2, <1>3, <1>4 DEF Healing

\* A step that leaves these alone leaves a settled policy settled.
LEMMA HealingUnchanged ==
    ASSUME Orderly, OthersSettled, OrgSettled, UNCHANGED <<row, cached, writer, heal, generation>>
    PROVE  Orderly' /\ OthersSettled' /\ OrgSettled'
BY DEF Orderly, OthersSettled, OrgSettled, Alone, Refreshing, Earlier, Settled, Landing

\* A PUT that becomes p keeps the PUTs in order, when p is of the same policy
\* or of none, or of one that nobody is writing.
LEMMA OrderlyBecomes ==
    ASSUME WriterTypes, Orderly, NEW w \in Writers, NEW p, writer' = [writer EXCEPT ![w] = p],
           p.pc = "idle" <=> p.policy = None,
           p.early => p.policy \notin CachedPolicies,
           p.pc = "refresh" => p.value = row'[p.policy],
           p.policy # None => \A x \in Writers \ {w} : writer[x].policy # p.policy,
           \A x \in Writers \ {w} : writer[x].pc = "refresh" =>
                row'[writer[x].policy] = row[writer[x].policy]
    PROVE  Orderly'
<1>1. \A x \in Writers : writer'[x] = IF x = w THEN p ELSE writer[x]
    BY DEF WriterTypes
<1>2. ASSUME NEW x \in Writers PROVE Alone(x)'
    <2>1. CASE x = w
        BY <1>1, <2>1 DEF Alone
    <2>2. CASE x # w
        BY <1>1, <2>2 DEF Alone, Orderly
    <2> QED BY <2>1, <2>2
<1>3. ASSUME NEW x \in Writers PROVE Refreshing(x)' /\ Earlier(x)'
    BY <1>1 DEF Refreshing, Earlier, Orderly
<1> QED BY <1>2, <1>3 DEF Orderly

\* A PUT that neither was nor is about to refresh settles nothing else.
LEMMA LandingKept ==
    ASSUME WriterTypes, NEW w \in Writers, NEW p, writer' = [writer EXCEPT ![w] = p],
           NEW k, writer[w].pc # "refresh" \/ writer[w].policy # k, Landing(k)
    PROVE  Landing(k)'
<1>1. PICK x \in Writers : writer[x].pc = "refresh" /\ writer[x].policy = k
    BY DEF Landing
<1>2. writer'[x] = writer[x]
    BY <1>1 DEF WriterTypes
<1> QED BY <1>1, <1>2 DEF Landing

LEMMA SettledKept ==
    ASSUME OthersSettled, OrgSettled, UNCHANGED <<row, cached, heal, generation>>,
           \A k \in CachedPolicies : Landing(k) => Landing(k)'
    PROVE  OthersSettled' /\ OrgSettled'
<1>1. \A k \in CachedPolicies : Settled(k) => Settled(k)'
    BY DEF Settled
<1>2. "orgModels" \in CachedPolicies
    BY DEF CachedPolicies, ModelLayers
<1> QED BY <1>1, <1>2 DEF OthersSettled, OrgSettled

LEMMA CommitHealing ==
    ASSUME Healing, NEW w \in Writers, CommitPolicy(w)
    PROVE  Orderly' /\ OthersSettled' /\ OrgSettled'
<1>k. PICK k \in Policies : k = writer[w].policy
    BY DEF Healing, Types, WriterTypes, Writing, CommitPolicy
<1> DEFINE p == AfterCommit(w)
<1>1. /\ WriterTypes /\ RowTypes /\ writer[w] \in Put /\ Writing(writer[w])
      /\ writer[w].policy = k /\ Alone(w) /\ Earlier(w)
    BY <1>k DEF Healing, Types, WriterTypes, Writing, CommitPolicy, Orderly
<1>2. /\ row' = [row EXCEPT ![k] = writer[w].value] /\ writer[w].pc = "commit"
      /\ writer' = [writer EXCEPT ![w] = p] /\ UNCHANGED <<cached, heal, generation>>
    BY <1>k DEF CommitPolicy
<1>3. \A x \in Policies : row'[x] = IF x = k THEN writer[w].value ELSE row[x]
    BY <1>1, <1>2 DEF RowTypes, IsRow
<1>4. /\ p.pc = "idle" <=> p.policy = None
      /\ p.early => p.policy \notin CachedPolicies
      /\ p.pc = "refresh" => p.policy = k /\ p.value = writer[w].value
      /\ p.policy # None => p.policy = k
      /\ k \in CachedPolicies => p.pc = "refresh" /\ p.policy = k
    BY <1>1, <1>2 DEF AfterCommit, Idle, Put, Alone, Earlier
<1>5. \A x \in Writers \ {w} : writer[x].policy # k
    BY <1>1, <1>2 DEF Alone
<1>6. \A x \in Writers \ {w} : writer[x].pc = "refresh" =>
            row'[writer[x].policy] = row[writer[x].policy]
    BY <1>3, <1>5 DEF Healing, Types, WriterTypes, Writing
<1> HIDE DEF p
<1>7. Orderly'
    <2>1. p.pc = "refresh" => p.value = row'[p.policy]
        BY <1>3, <1>4
    <2>2. p.policy # None => \A x \in Writers \ {w} : writer[x].policy # p.policy
        BY <1>4, <1>5
    <2>3. Orderly
        BY DEF Healing
    <2> QED BY <1>1, <1>2, <1>4, <1>6, <2>1, <2>2, <2>3, OrderlyBecomes
<1>8. k \in CachedPolicies => Landing(k)'
    BY <1>1, <1>2, <1>4 DEF Landing, WriterTypes
<1>9. \A x \in CachedPolicies : Landing(x) => Landing(x)'
    BY <1>1, <1>2, LandingKept
<1>10. \A x \in CachedPolicies : Settled(x) => Settled(x)'
    BY <1>2, <1>3, <1>8, <1>9 DEF Settled, Policies
<1>11. "orgModels" \in CachedPolicies
    BY DEF CachedPolicies, ModelLayers
<1>12. OthersSettled'
    BY <1>10 DEF OthersSettled, Healing
<1>13. row'["orgModels"] = row["orgModels"] \/ Landing("orgModels")'
    BY <1>3, <1>8, <1>11 DEF Policies
<1>14. OrgSettled'
    BY <1>2, <1>9, <1>10, <1>11, <1>13 DEF OrgSettled, Healing
<1> QED BY <1>7, <1>12, <1>14

LEMMA RefreshHealing ==
    ASSUME Healing, NEW w \in Writers, RefreshCache(w)
    PROVE  Orderly' /\ OthersSettled' /\ OrgSettled'
<1>k. PICK k \in CachedPolicies : k = writer[w].policy
    BY DEF Healing, Types, WriterTypes, Writing, RefreshCache
<1> DEFINE p == IF k \in ClearingPolicies THEN [writer[w] EXCEPT !.pc = "scan"] ELSE Idle
<1>1. /\ WriterTypes /\ CachedTypes /\ writer[w] \in Put /\ writer[w].policy = k
      /\ Alone(w) /\ Refreshing(w) /\ Earlier(w) /\ generation \in Nat /\ heal.expected \in Nat
    BY <1>k DEF Healing, Types, WriterTypes, HealTypes, Orderly
<1>2. /\ cached' = [cached EXCEPT ![k] = writer[w].value] /\ writer[w].pc = "refresh"
      /\ writer' = [writer EXCEPT ![w] = p] /\ UNCHANGED <<row, heal>>
      /\ generation' = IF k = "orgModels" THEN generation + 1 ELSE generation
    BY <1>k DEF RefreshCache
<1>3. \A x \in CachedPolicies : cached'[x] = IF x = k THEN row[k] ELSE cached[x]
    BY <1>1, <1>2 DEF CachedTypes, Refreshing
<1>4. /\ p.pc = "idle" <=> p.policy = None
      /\ p.early => p.policy \notin CachedPolicies
      /\ p.pc # "refresh"
      /\ p.policy # None => p.policy = k
    BY <1>1, <1>2 DEF Idle, Put, Alone, Earlier
<1>5. \A x \in Writers \ {w} : writer[x].policy # k
    BY <1>1, <1>2 DEF Alone
<1> HIDE DEF p
<1>6. Orderly'
    BY <1>1, <1>2, <1>4, <1>5, OrderlyBecomes DEF Healing
<1>7. \A x \in CachedPolicies \ {k} : Landing(x) => Landing(x)'
    BY <1>1, <1>2, LandingKept
<1>8. Settled(k)' /\ \A x \in CachedPolicies : Settled(x) => Settled(x)'
    BY <1>1, <1>2, <1>3, <1>7 DEF Settled
<1>9. "orgModels" \in CachedPolicies
    BY DEF CachedPolicies, ModelLayers
<1>10. OthersSettled'
    BY <1>8 DEF OthersSettled, Healing
<1>11. OrgSettled'
    <2>1. CASE k = "orgModels"
        BY <1>1, <1>2, <1>8, <2>1 DEF OrgSettled, Healing
    <2>2. CASE k # "orgModels"
        BY <1>2, <1>7, <1>8, <1>9, <2>2 DEF OrgSettled, Healing
    <2> QED BY <2>1, <2>2
<1> QED BY <1>6, <1>10, <1>11

\* The other steps of a PUT: it starts, or it clears the response cache.
LEMMA ClearingHealing ==
    ASSUME Healing, NEW w \in Writers, NEW p, writer[w].pc # "refresh",
           writer' = [writer EXCEPT ![w] = p], UNCHANGED <<row, cached, heal, generation>>,
           p.pc = "idle" <=> p.policy = None, p.pc # "refresh",
           p.early => p.policy \notin CachedPolicies,
           p.policy # None => \A x \in Writers \ {w} : writer[x].policy # p.policy
    PROVE  Orderly' /\ OthersSettled' /\ OrgSettled'
<1>1. WriterTypes /\ Orderly
    BY DEF Healing, Types
<1>2. Orderly'
    BY <1>1, OrderlyBecomes
<1>3. \A k \in CachedPolicies : Landing(k) => Landing(k)'
    BY <1>1, LandingKept
<1>4. OthersSettled' /\ OrgSettled'
    BY <1>3, SettledKept DEF Healing
<1> QED BY <1>2, <1>4

LEMMA WriterHealing ==
    ASSUME Healing, NEW w \in Writers, WriterStep(w)
    PROVE  Orderly' /\ OthersSettled' /\ OrgSettled'
<1>1. ASSUME NEW k, NEW v, PutPolicy(w, k, v) PROVE Orderly' /\ OthersSettled' /\ OrgSettled'
    <2> DEFINE p == [pc |-> IF Early(k) THEN "scan" ELSE "commit",
                     policy |-> k, value |-> v, keys |-> {}, early |-> Early(k)]
    <2>1. /\ writer[w].pc = "idle" /\ \A x \in Writers : writer[x].policy # k
          /\ writer' = [writer EXCEPT ![w] = p] /\ UNCHANGED <<row, cached, heal, generation>>
        BY <1>1 DEF PutPolicy
    <2>2. k # None
        BY <2>1 DEF Healing, Orderly, Alone
    <2>3. /\ p.pc \notin {"idle", "refresh"} /\ p.policy = k
          /\ p.early => k \notin CachedPolicies
        BY DEF Early, CachedPolicies, ModelLayers, ResidencyRules
    <2> HIDE DEF p
    <2> QED BY <2>1, <2>2, <2>3, ClearingHealing
<1>2. ASSUME NEW keys, writer[w].pc \in {"scan", "delete"},
             writer' = [writer EXCEPT ![w] = Remaining(w, keys)],
             UNCHANGED <<row, cached, heal, generation>>
      PROVE  Orderly' /\ OthersSettled' /\ OrgSettled'
    <2> DEFINE p == Remaining(w, keys)
    <2>1. writer[w] \in Put /\ Alone(w) /\ Earlier(w)
        BY DEF Healing, Types, WriterTypes, Orderly
    <2>2. /\ p.pc = "idle" <=> p.policy = None
          /\ p.pc # "refresh"
          /\ p.early => p.policy \notin CachedPolicies
          /\ p.policy # None => p.policy = writer[w].policy
        BY <1>2, <2>1 DEF Remaining, Idle, Put, Alone, Earlier
    <2>3. p.policy # None => \A x \in Writers \ {w} : writer[x].policy # p.policy
        BY <1>2, <2>1, <2>2 DEF Alone
    <2> HIDE DEF p
    <2>4. writer' = [writer EXCEPT ![w] = p]
        BY <1>2 DEF p
    <2> QED BY <1>2, <2>2, <2>3, <2>4, ClearingHealing
<1>3. CASE ScanEntries(w) \/ ScanFails(w)
    BY <1>2, <1>3 DEF ScanEntries, ScanFails
<1>4. ASSUME NEW k, DeleteEntry(w, k) \/ DeleteFails(w, k)
      PROVE  Orderly' /\ OthersSettled' /\ OrgSettled'
    BY <1>2, <1>4 DEF DeleteEntry, DeleteFails
<1> QED BY <1>1, <1>3, <1>4, CommitHealing, RefreshHealing DEF WriterStep

LEMMA HealHealing ==
    ASSUME Healing, Heal
    PROVE  Orderly' /\ OthersSettled' /\ OrgSettled'
<1>1. UNCHANGED <<row, writer>>
    BY DEF Heal, HealRead, HealGiveUp, HealOrg, HealOverlay
<1>2. Orderly' /\ \A k : Landing(k)' <=> Landing(k)
    BY <1>1 DEF Healing, Orderly, Alone, Refreshing, Earlier, Landing
<1>3. CachedTypes /\ generation \in Nat /\ heal.expected \in Nat
    BY DEF Healing, Types, HealTypes
<1>4. \A k \in CachedPolicies \ (Overlays \cup {"orgModels"}) : cached'[k] = cached[k]
    BY <1>3 DEF Heal, HealRead, HealGiveUp, HealOrg, HealOverlay, Overlays, CachedTypes
<1>5. OthersSettled'
    BY <1>1, <1>2, <1>4 DEF Healing, OthersSettled, Settled
<1>6. OrgSettled'
    <2>1. CASE HealRead \/ HealGiveUp
        BY <1>2, <1>3, <2>1 DEF HealRead, HealGiveUp, HealTo, OrgSettled
    <2>2. CASE HealOrg
        <3>1. CASE generation = heal.expected
            <4>1. cached'["orgModels"] = heal.seen /\ heal'.pc = "warmTeam"
                BY <1>3, <2>2, <3>1 DEF HealOrg, HealTo, CachedTypes, CachedPolicies, ModelLayers
            <4>2. heal.seen = row["orgModels"] \/ Landing("orgModels")
                BY <2>2, <3>1 DEF HealOrg, Healing, OrgSettled
            <4> QED BY <1>1, <1>2, <4>1, <4>2 DEF OrgSettled, Settled
        <3>2. CASE generation # heal.expected
            BY <1>1, <1>2, <2>2, <3>2 DEF HealOrg, HealTo, Healing, OrgSettled, Settled
        <3> QED BY <3>1, <3>2
    <2>3. ASSUME NEW k \in Overlays, NEW reading \in {"warmTeam", "warmMember"},
                 NEW setting \in {"team", "member"}, NEW next \in {"warmMember", "over"},
                 HealOverlay(k, reading, setting, next)
          PROVE  OrgSettled'
        <3>1. cached'["orgModels"] = cached["orgModels"]
            BY <1>3, <2>3 DEF HealOverlay, CachedTypes, Overlays, CachedPolicies, ModelLayers
        <3>2. heal.pc \in {"warmTeam", "team", "warmMember", "member"}
              /\ heal'.pc \in {"team", "member", "warmMember", "over"}
            BY <2>3 DEF HealOverlay, HealTo
        <3> QED BY <1>1, <1>2, <3>1, <3>2 DEF OrgSettled, Settled, Healing
    <2> QED BY <2>1, <2>2, <2>3 DEF Heal, Overlays
<1> QED BY <1>2, <1>5, <1>6

LEMMA NextHealing == Healing /\ [Next]_vars => Healing'
<1> SUFFICES ASSUME Healing, [Next]_vars PROVE Healing'
    OBVIOUS
<1>1. Types'
    BY NextTypes DEF Healing
<1>2. ASSUME NEW r \in Requests, RequestStep(r) PROVE Orderly' /\ OthersSettled' /\ OrgSettled'
    BY <1>2, RequestStepOthers, HealingUnchanged DEF Healing
<1>3. ASSUME NEW k, Expire(k) PROVE Orderly' /\ OthersSettled' /\ OrgSettled'
    BY <1>3, HealingUnchanged DEF Healing, Expire
<1>4. ASSUME UNCHANGED vars PROVE Orderly' /\ OthersSettled' /\ OrgSettled'
    BY <1>4, HealingUnchanged DEF Healing, vars, others
<1> QED BY <1>1, <1>2, <1>3, <1>4, WriterHealing, HealHealing DEF Next, Healing

\* For any number of administrators, models and changes, once no PUT is at
\* work and the heal is over, every policy but the overlays is enforced as
\* committed: comparing the generation is enough for the heal to yield to
\* any PUT that lands between its read and its write.
THEOREM HealYields == Spec => []EnforcedAsCommitted
<1>1. Healing => EnforcedAsCommitted
    BY DEF Healing, OthersSettled, OrgSettled, Settled, Landing, Overlays, EnforcedAsCommitted
<1> QED BY <1>1, InitHealing, NextHealing, PTL DEF Spec
-----------------------------------------------------------------------------
(* The response cache.  A change of policy makes entries stale at once and *)
(* clears them later, key by key; meanwhile requests that were let on      *)
(* before the change write new ones.  So every rule is known to the PUT    *)
(* that changed it: what the rule no longer lets through is an entry on    *)
(* the list of that PUT, or the list is still to be made, and a request on *)
(* its way is still to be marked.                                          *)

Located == {"dlp", "scan"} \cup Scanned
Reading == {"scan"} \cup Scanned

\* A PUT that will delete k, one that will mark the requests on their way.
Clears(p, k) == ~p.early /\ (p.pc = "scan" \/ (p.pc = "delete" /\ k \in p.keys))
Marks(p) == ~p.early /\ p.pc = "scan"
WillClear(c, k) == \E w \in Writers : writer[w].policy = c /\ Clears(writer[w], k)
WillMark(c) == \E w \in Writers : writer[w].policy = c /\ Marks(writer[w])

Harmless(action) == action \notin {"redact", "block"}

\* An entry, rule by rule.
EntryZoned(k) == \A c \in ResidencyRules : Region[k[2]] \in cached[c] \/ WillClear(c, k)
EntryDetected(k) == \/ Harmless(DetectorAction(row["dlp"], row["dlpTeam"]))
                    \/ WillClear("dlp", k) \/ WillClear("dlpTeam", k)
EntryMatched(k) == Harmless(row["pattern"]) \/ WillClear("pattern", k)
Sound(k) == EntryZoned(k) /\ (k[1] \in Sensitive => EntryDetected(k) /\ EntryMatched(k))

\* A request, by the checks it has behind it.
Zoned(q) == \A c \in ResidencyRules : Region[q.model] \in cached[c] \/ WillMark(c)
Loaded(q) == row["dlp"] = q.read \/ WillMark("dlp")
Detected(q) == Harmless(DetectorAction(q.read, row["dlpTeam"])) \/ WillMark("dlpTeam")
Matched(q) == Harmless(row["pattern"]) \/ WillMark("pattern")
Sure(q) ==
    ~q.overtaken =>
        /\ q.pc \in Located => Zoned(q)
        /\ q.pc \in Reading => q.read # None /\ Loaded(q)
        /\ q.pc \in Scanned /\ q.prompt \in Sensitive /\ ~q.redacted => Detected(q) /\ Matched(q)

EntriesSound == \A k \in Keys : entry[k] = "kept" => Sound(k)
RequestsSure == \A r \in Requests : Sure(req[r])
Fresh == EntriesSound /\ RequestsSure

\* The check of c lies behind q.
Past(c, q) ==
    \/ c \in ResidencyRules /\ q.pc \in Located
    \/ c = "dlp" /\ q.pc \in Reading
    \/ c \in {"dlpTeam", "pattern"} /\ q.pc \in Scanned

LEMMA SoundKept ==
    ASSUME NEW k, Sound(k),
           \A c \in ClearingPolicies : WillClear(c, k) => WillClear(c, k)',
           \A c \in ResidencyRules : cached'[c] = cached[c] \/ WillClear(c, k)',
           \A c \in DlpRows : row'[c] = row[c] \/ WillClear(c, k)'
    PROVE  Sound(k)'
<1>1. EntryZoned(k)'
    BY DEF Sound, EntryZoned, ClearingPolicies
<1>2. k[1] \in Sensitive => EntryDetected(k)' /\ EntryMatched(k)'
    BY DEF Sound, EntryDetected, EntryMatched, ClearingPolicies, DlpRows
<1> QED BY <1>1, <1>2 DEF Sound

LEMMA SureKept ==
    ASSUME NEW q, Sure(q),
           \A c \in ClearingPolicies : WillMark(c) => WillMark(c)' \/ ~Past(c, q),
           \A c \in ResidencyRules : cached'[c] = cached[c] \/ WillMark(c)' \/ ~Past(c, q),
           \A c \in DlpRows : row'[c] = row[c] \/ WillMark(c)' \/ ~Past(c, q)
    PROVE  Sure(q)'
<1> SUFFICES ASSUME ~q.overtaken
             PROVE  /\ q.pc \in Located => Zoned(q)'
                    /\ q.pc \in Reading => q.read # None /\ Loaded(q)'
                    /\ q.pc \in Scanned /\ q.prompt \in Sensitive /\ ~q.redacted
                         => Detected(q)' /\ Matched(q)'
    BY DEF Sure
<1>1. q.pc \in Located => Zoned(q)'
    BY DEF Sure, Zoned, Past, ClearingPolicies
<1>2. q.pc \in Reading => q.read # None /\ Loaded(q)'
    BY DEF Sure, Loaded, Past, ClearingPolicies, DlpRows
<1>3. q.pc \in Scanned /\ q.prompt \in Sensitive /\ ~q.redacted => Detected(q)' /\ Matched(q)'
    BY DEF Sure, Detected, Matched, Past, ClearingPolicies, DlpRows
<1> QED BY <1>1, <1>2, <1>3

LEMMA FreshSame ==
    ASSUME UNCHANGED <<row, writer>>, \A c \in ResidencyRules : cached'[c] = cached[c]
    PROVE  /\ \A k : Sound(k) => Sound(k)'
           /\ \A q : Sure(q) => Sure(q)'
<1>1. ASSUME NEW k, Sound(k) PROVE Sound(k)'
    <2>1. \A c : WillClear(c, k) => WillClear(c, k)'
        BY DEF WillClear
    <2> QED BY <1>1, <2>1, SoundKept
<1>2. ASSUME NEW q, Sure(q) PROVE Sure(q)'
    <2>1. \A c : WillMark(c) => WillMark(c)'
        BY DEF WillMark
    <2> QED BY <1>2, <2>1, SureKept
<1> QED BY <1>1, <1>2
-----------------------------------------------------------------------------
(* Freshness, step by step: requests. *)

\* A request that has passed no further check of these.
LEMMA SureStays ==
    ASSUME NEW q, NEW w, Sure(q),
           w.model = q.model, w.prompt = q.prompt, w.read = q.read,
           w.redacted = q.redacted, w.overtaken = q.overtaken,
           w.pc \in Located => q.pc \in Located, w.pc \in Reading => q.pc \in Reading,
           w.pc \in Scanned => q.pc \in Scanned
    PROVE  Sure(w)
BY DEF Sure, Zoned, Loaded, Detected, Matched

LEMMA RestIsSure == \A b : Sure(Rest(b))
BY DEF Sure, Rest, Located, Reading, Scanned

LEMMA RequestSure ==
    ASSUME Types, RequestsSure, NEW r \in Requests, NEW q, Sure(q),
           req' = [req EXCEPT ![r] = q], UNCHANGED <<row, cached, writer>>
    PROVE  RequestsSure'
<1>1. ASSUME NEW x \in Requests PROVE Sure(req[x])'
    <2>1. PICK w : w = req'[x]
        OBVIOUS
    <2>2. Sure(w)
        BY <2>1 DEF Types, RequestTypes, RequestsSure
    <2>3. Sure(w)'
        BY <2>2, FreshSame
    <2> QED BY <2>1, <2>3
<1> QED BY <1>1 DEF RequestsSure

\* Passing on without a look at residency, detectors or patterns.
LEMMA OnwardSure ==
    ASSUME Types, RequestsSure, NEW r \in Requests,
           \/ CheckModelPolicy(r) \/ Miss(r) \/ CheckContent(r) \/ KeepModel(r) \/ Degrade(r)
           \/ Recheck(r) \/ RecheckResidency(r) \/ Dispatch(r) \/ ProviderAnswers(r) \/ NextCandidate(r)
    PROVE  RequestsSure'
<1>0. req[r] \in Request /\ Sure(req[r])
    BY DEF Types, RequestTypes, RequestsSure
<1>1. PICK w : /\ req' = [req EXCEPT ![r] = w]
               /\ w.model = req[r].model /\ w.prompt = req[r].prompt /\ w.read = req[r].read
               /\ w.redacted = req[r].redacted /\ w.overtaken = req[r].overtaken
               /\ w.pc \in Located => req[r].pc \in Located
               /\ w.pc \in Reading => req[r].pc \in Reading
               /\ w.pc \in Scanned => req[r].pc \in Scanned
    <2>1. CASE CheckModelPolicy(r) \/ Miss(r)
        <3>1. PICK w : /\ req' = [req EXCEPT ![r] = w]
                       /\ \/ w = [req[r] EXCEPT !.pc = "lookup", !.caching = cached["caching"],
                                     !.passed = @ \cup {<<"model", req[r].model>>}]
                          \/ w = [req[r] EXCEPT !.pc = "residency", !.caching = cached["caching"],
                                     !.passed = @ \cup {<<"model", req[r].model>>}]
                          \/ w = [req[r] EXCEPT !.pc = "residency"]
            BY <2>1 DEF CheckModelPolicy, Miss, Becomes
        <3> QED BY <1>0, <3>1 DEF Request, Located, Reading, Scanned
    <2>2. CASE CheckContent(r)
        BY <1>0, <2>2 DEF CheckContent, Becomes, Request, Located, Reading, Scanned
    <2>3. CASE KeepModel(r) \/ Degrade(r)
        BY <1>0, <2>3 DEF KeepModel, Degrade, Becomes, Request, Located, Reading, Scanned
    <2>4. CASE Recheck(r) \/ RecheckResidency(r)
        BY <1>0, <2>4 DEF Recheck, RecheckResidency, Becomes, Request, Located, Reading, Scanned
    <2>5. CASE Dispatch(r) \/ ProviderAnswers(r)
        BY <1>0, <2>5 DEF Dispatch, ProviderAnswers, Becomes, Request, Located, Reading, Scanned
    <2>6. CASE NextCandidate(r)
        BY <1>0, <2>6 DEF NextCandidate, Becomes, Request, Located, Reading, Scanned
    <2> QED BY <2>1, <2>2, <2>3, <2>4, <2>5, <2>6
<1>2. Sure(w)
    BY <1>0, <1>1, SureStays
<1>3. UNCHANGED <<row, cached, writer>>
    BY DEF CheckModelPolicy, Miss, CheckContent, KeepModel, Degrade, Recheck, RecheckResidency,
           Dispatch, ProviderAnswers, NextCandidate, Becomes, others
<1> QED BY <1>1, <1>2, <1>3, RequestSure

\* The checks themselves.
LEMMA CheckedSure ==
    ASSUME Types, RequestsSure, NEW r \in Requests,
           CheckResidency(r) \/ LoadDlpPolicy(r) \/ RunDlpScan(r)
    PROVE  RequestsSure'
<1>0. req[r] \in Request /\ Sure(req[r]) /\ UNCHANGED <<row, cached, writer>>
    BY DEF Types, RequestTypes, RequestsSure, CheckResidency, LoadDlpPolicy, RunDlpScan, Becomes, others
<1>1. CASE CheckResidency(r)
    <2>1. PICK w : w = [req[r] EXCEPT !.pc = "dlp", !.passed = @ \cup {<<"residency", req[r].model>>}]
        OBVIOUS
    <2>2. w.pc = "dlp" /\ w.model = req[r].model
        BY <1>0, <2>1 DEF Request
    <2>3. Sure(w)
        BY <1>1, <2>2 DEF CheckResidency, ResidencyAllows, Sure, Zoned, Reading, Scanned
    <2> QED BY <1>0, <1>1, <2>1, <2>3, RequestSure DEF CheckResidency, Becomes
<1>2. CASE LoadDlpPolicy(r)
    <2>1. PICK w : w = [req[r] EXCEPT !.pc = "scan", !.read = row["dlp"],
                          !.passed = @ \cup Now("detectors", req[r].prompt, Models)]
        OBVIOUS
    <2>2. w.pc = "scan" /\ w.model = req[r].model /\ w.read = row["dlp"] /\ w.overtaken = req[r].overtaken
        BY <1>0, <2>1 DEF Request
    <2>3. row["dlp"] # None
        BY GatewayAssumption DEF Types, RowTypes, IsRow, Policies, DlpRows
    <2>4. Sure(w)
        BY <1>0, <1>2, <2>2, <2>3 DEF LoadDlpPolicy, Sure, Zoned, Loaded, Located, Reading, Scanned
    <2> QED BY <1>0, <1>2, <2>1, <2>4, RequestSure DEF LoadDlpPolicy, Becomes
<1>3. CASE RunDlpScan(r)
    <2> DEFINE detectors == DetectorAction(req[r].read, row["dlpTeam"])
    <2>q. PICK q \in Request : q = req[r]
        BY <1>0
    <2>0. PICK findings, redacted, s :
            /\ redacted = (q.prompt \in Sensitive /\ "redact" \in {detectors, row["pattern"]})
            /\ req' = [req EXCEPT ![r] = [q EXCEPT !.pc = "content", !.findings = findings,
                                           !.redacted = redacted, !.passed = s]]
        BY <1>3, <2>q DEF RunDlpScan, Becomes
    <2>1. PICK w : w = [q EXCEPT !.pc = "content", !.findings = findings,
                                 !.redacted = redacted, !.passed = s]
        OBVIOUS
    <2>f. /\ w.pc = "content" /\ w.model = q.model /\ w.prompt = q.prompt
          /\ w.read = q.read /\ w.overtaken = q.overtaken /\ w.redacted = redacted
        BY <2>1 DEF Request
    <2>2. w.prompt \in Sensitive /\ ~w.redacted => Harmless(detectors) /\ Harmless(row["pattern"])
        BY <1>3, <2>q, <2>0, <2>f DEF RunDlpScan, Harmless
    <2>3. ~w.overtaken => Zoned(q) /\ q.read # None /\ Loaded(q)
        BY <1>0, <1>3, <2>q, <2>f DEF RunDlpScan, Sure, Located, Reading
    <2>4. Sure(w)
        BY <2>q, <2>f, <2>2, <2>3 DEF Sure, Zoned, Loaded, Detected, Matched
    <2> QED BY <1>0, <2>0, <2>1, <2>4, RequestSure
<1> QED BY <1>1, <1>2, <1>3

\* What a request writes is as fresh as the request was sure, if it answers
\* with the asked model: only then is the answer kept.
LEMMA WrittenSound ==
    ASSUME Types, Fresh, NEW r \in Requests, WriteResponseCache(r)
    PROVE  EntriesSound'
<1>1. PICK q \in Request : q = req[r]
    BY DEF Types, RequestTypes
<1>2. /\ q.pc = "answered" /\ ~q.redacted /\ Named(q) /\ Sure(q)
      /\ entry' = [entry EXCEPT ![<<q.prompt, q.model>>] = IF q.overtaken THEN "excused" ELSE "kept"]
      /\ UNCHANGED <<row, cached, writer>>
    BY <1>1 DEF WriteResponseCache, SkipWrite, Types, RequestTypes, Fresh, RequestsSure
<1>3. q.prompt \in Prompts /\ q.model \in Models
    BY <1>2 DEF Named
<1>4. PICK k \in Keys : k = <<q.prompt, q.model>>
    BY <1>3 DEF Keys
<1>5. k[1] = q.prompt /\ k[2] = q.model
    BY <1>4
<1>6. ~q.overtaken => Sound(k)
    <2> SUFFICES ASSUME ~q.overtaken PROVE Sound(k)
        OBVIOUS
    <2>1. Zoned(q) /\ Loaded(q) /\ (q.prompt \in Sensitive => Detected(q) /\ Matched(q))
        BY <1>2 DEF Sure, Located, Reading, Scanned
    <2>2. \A c : WillMark(c) => WillClear(c, k)
        BY DEF WillMark, WillClear, Marks, Clears
    <2>3. EntryZoned(k)
        BY <1>5, <2>1, <2>2 DEF Zoned, EntryZoned
    <2>4. q.prompt \in Sensitive => EntryDetected(k) /\ EntryMatched(k)
        BY <2>1, <2>2 DEF Loaded, Detected, Matched, EntryDetected, EntryMatched
    <2> QED BY <1>5, <2>3, <2>4 DEF Sound
<1>7. ASSUME NEW x \in Keys, entry'[x] = "kept" PROVE Sound(x)'
    <2>1. Sound(x)
        BY <1>2, <1>4, <1>6, <1>7 DEF Types, Fresh, EntriesSound
    <2> QED BY <1>2, <2>1, FreshSame
<1> QED BY <1>7 DEF EntriesSound

LEMMA RequestFresh ==
    ASSUME Types, Fresh, NEW r \in Requests, RequestStep(r)
    PROVE  Fresh'
<1>0. UNCHANGED <<row, cached, writer>> /\ (entry' = entry \/ WriteResponseCache(r)) /\ RequestsSure
    BY RequestStepOthers DEF Fresh
<1>1. EntriesSound'
    <2>1. CASE entry' = entry
        BY <1>0, <2>1, FreshSame DEF EntriesSound, Fresh
    <2>2. CASE WriteResponseCache(r)
        BY <2>2, WrittenSound
    <2> QED BY <1>0, <2>1, <2>2
<1>2. RequestsSure'
    <2>1. CASE \/ CheckModelPolicy(r) \/ Miss(r) \/ CheckContent(r) \/ KeepModel(r) \/ Degrade(r)
               \/ Recheck(r) \/ RecheckResidency(r) \/ Dispatch(r) \/ ProviderAnswers(r) \/ NextCandidate(r)
        BY <1>0, <2>1, OnwardSure
    <2>2. CASE CheckResidency(r) \/ LoadDlpPolicy(r) \/ RunDlpScan(r)
        BY <1>0, <2>2, CheckedSure
    <2>3. CASE ServeHit(r) \/ WriteResponseCache(r) \/ ReturnAnswer(r) \/ Refuse(r)
        <3>1. PICK b \in BOOLEAN : req' = [req EXCEPT ![r] = Rest(b)]
            BY <2>3 DEF ServeHit, WriteResponseCache, ReturnAnswer, Refuse, Becomes
        <3> QED BY <1>0, <3>1, RestIsSure, RequestSure
    <2>4. CASE Arrive(r)
        <3>1. PICK p \in Prompts, m \in Models :
                 req' = [req EXCEPT ![r] = [Rest(@.answered) EXCEPT
                            !.pc = "policy", !.prompt = p, !.model = m, !.serving = m]]
            BY <2>4 DEF Arrive
        <3>2. PICK w : w = [Rest(req[r].answered) EXCEPT
                            !.pc = "policy", !.prompt = p, !.model = m, !.serving = m]
            OBVIOUS
        <3>3. w.pc = "policy"
            BY <3>2 DEF Rest
        <3>4. Sure(w)
            BY <3>3 DEF Sure, Located, Reading, Scanned
        <3>5. req' = [req EXCEPT ![r] = w]
            BY <3>1, <3>2 DEF Types, RequestTypes
        <3> QED BY <1>0, <3>4, <3>5, RequestSure
    <2> QED BY <2>1, <2>2, <2>3, <2>4 DEF RequestStep
<1> QED BY <1>1, <1>2 DEF Fresh
-----------------------------------------------------------------------------
(* Freshness, step by step: administrators. *)

LEMMA ClearersKept ==
    ASSUME WriterTypes, NEW w \in Writers, NEW p, writer' = [writer EXCEPT ![w] = p], NEW k, NEW c,
           writer[w].policy = c /\ Clears(writer[w], k) => p.policy = c /\ Clears(p, k),
           WillClear(c, k)
    PROVE  WillClear(c, k)'
<1>1. \A x \in Writers : writer'[x] = IF x = w THEN p ELSE writer[x]
    BY DEF WriterTypes
<1>2. PICK x \in Writers : writer[x].policy = c /\ Clears(writer[x], k)
    BY DEF WillClear
<1>3. writer'[x].policy = c /\ Clears(writer'[x], k)
    BY <1>1, <1>2
<1>4. WillClear(c, k)' <=> \E y \in Writers : writer'[y].policy = c /\ Clears(writer'[y], k)
    BY DEF WillClear, Clears
<1> QED BY <1>3, <1>4

LEMMA MarkersKept ==
    ASSUME WriterTypes, NEW w \in Writers, NEW p, writer' = [writer EXCEPT ![w] = p], NEW c,
           writer[w].policy = c => ~Marks(writer[w]), WillMark(c)
    PROVE  WillMark(c)'
<1>1. \A x \in Writers : x # w => writer'[x] = writer[x]
    BY DEF WriterTypes
<1> QED BY <1>1 DEF WillMark, Marks

\* A PUT that comes to make its list.
LEMMA NewClearer ==
    ASSUME WriterTypes, NEW w \in Writers, NEW p, writer' = [writer EXCEPT ![w] = p],
           p.pc = "scan", ~p.early
    PROVE  WillMark(p.policy)' /\ \A k : WillClear(p.policy, k)'
<1>1. writer'[w] = p
    BY DEF WriterTypes
<1> QED BY <1>1 DEF WillMark, WillClear, Marks, Clears

\* What Overtaken leaves unmarked had the check of k still to come.
LEMMA Marked ==
    ASSUME Types, AllGated, NEW r \in Requests, Sure(req[r]), NEW k, req' = Overtaken(k)
    PROVE  req'[r].overtaken \/ (req'[r] = req[r] /\ ~Past(k, req[r]))
<1>1. PICK q \in Request : q = req[r]
    BY DEF Types, RequestTypes
<1>2. req'[r] = IF InFlight(r) /\ PassedCheck(r, k) THEN [q EXCEPT !.overtaken = TRUE] ELSE q
    BY <1>1 DEF Overtaken
<1>3. CASE InFlight(r) /\ PassedCheck(r, k)
    <2>1. PICK w : w = [q EXCEPT !.overtaken = TRUE]
        OBVIOUS
    <2>2. w.overtaken
        BY <1>1, <2>1 DEF Request
    <2> QED BY <1>2, <1>3, <2>1, <2>2
<1>4. CASE ~(InFlight(r) /\ PassedCheck(r, k)) /\ ~q.overtaken
    <2>1. req'[r] = q /\ Passed(q) /\ Sure(q)
        BY <1>1, <1>2, <1>4 DEF AllGated, Gated
    <2>2. ASSUME k \in ResidencyRules, q.pc \in Located PROVE FALSE
        <3>1. q.pc \notin {"rest", "policy", "lookup", "residency"}
            BY <2>2 DEF Located, Scanned
        <3>2. <<"residency", q.model>> \in q.passed
            BY <2>1, <3>1 DEF Passed, PassedFirst
        <3>3. InFlight(r) /\ PassedCheck(r, k)
            BY <1>1, <2>2, <3>1, <3>2 DEF InFlight, PassedCheck, ResidencyRules
        <3> QED BY <1>4, <3>3
    <2>3. ~(k = "dlp" /\ q.pc \in Reading)
        BY <1>1, <1>4, <2>1 DEF Sure, InFlight, PassedCheck, Reading, Scanned, ResidencyRules
    <2>4. ~(k \in {"dlpTeam", "pattern"} /\ q.pc \in Scanned)
        BY <1>1, <1>4 DEF InFlight, PassedCheck, Scanned, ResidencyRules
    <2>5. ~Past(k, q)
        BY <2>2, <2>3, <2>4 DEF Past
    <2> QED BY <1>1, <2>1, <2>5
<1>5. CASE ~(InFlight(r) /\ PassedCheck(r, k)) /\ q.overtaken
    BY <1>2, <1>5
<1> QED BY <1>3, <1>4, <1>5

\* A PUT that marks the requests may forget about them.
LEMMA MarkingSure ==
    ASSUME Types, AllGated, RequestsSure, NEW k, req' = Overtaken(k), cached' = cached,
           \A c \in ClearingPolicies \ {k} : WillMark(c) => WillMark(c)',
           \A c \in DlpRows \ {k} : row'[c] = row[c]
    PROVE  RequestsSure'
<1>1. ASSUME NEW r \in Requests PROVE Sure(req[r])'
    <2>1. PICK q : q = req'[r]
        OBVIOUS
    <2>2. CASE q.overtaken
        <3>1. Sure(q)'
            BY <2>2 DEF Sure
        <3> QED BY <2>1, <3>1
    <2>3. CASE ~q.overtaken
        <3>1. q = req[r] /\ Sure(q) /\ ~Past(k, q)
            BY <2>1, <2>3, Marked DEF RequestsSure
        <3>2. Sure(q)'
            BY <3>1, SureKept
        <3> QED BY <2>1, <3>2
    <2> QED BY <2>2, <2>3
<1> QED BY <1>1 DEF RequestsSure

\* A PUT that has not come to its list yet, or begins it.
LEMMA ChangeFresh ==
    ASSUME WriterTypes, Fresh, NEW w \in Writers, NEW p, writer' = [writer EXCEPT ![w] = p],
           writer[w].pc \notin {"scan", "delete"}, UNCHANGED <<entry, req>>,
           \A c \in ResidencyRules : cached'[c] = cached[c] \/ (p.policy = c /\ Marks(p)),
           \A c \in DlpRows : row'[c] = row[c] \/ (p.policy = c /\ Marks(p))
    PROVE  Fresh'
<1>1. /\ \A c, x : WillClear(c, x) => WillClear(c, x)'
      /\ \A c : WillMark(c) => WillMark(c)'
    BY ClearersKept, MarkersKept DEF Clears, Marks
<1>2. ASSUME NEW c, p.policy = c, Marks(p) PROVE WillMark(c)' /\ \A x : WillClear(c, x)'
    BY <1>2, NewClearer DEF Marks
<1>3. ASSUME NEW x, Sound(x) PROVE Sound(x)'
    BY <1>1, <1>2, <1>3, SoundKept
<1>4. ASSUME NEW q, Sure(q) PROVE Sure(q)'
    BY <1>1, <1>2, <1>4, SureKept
<1>5. \A r \in Requests : Sure(req[r])'
    BY <1>4 DEF Fresh, RequestsSure
<1> QED BY <1>3, <1>5 DEF Fresh, EntriesSound, RequestsSure

\* A PUT that clears: what it no longer has before it is not kept.
LEMMA ClearingSound ==
    ASSUME WriterTypes, EntriesSound, NEW w \in Writers, NEW p,
           writer' = [writer EXCEPT ![w] = p], UNCHANGED <<row, cached>>,
           \A x \in Keys : entry'[x] = "kept" =>
               /\ entry[x] = "kept"
               /\ Clears(writer[w], x) => p.policy = writer[w].policy /\ Clears(p, x)
    PROVE  EntriesSound'
<1>1. ASSUME NEW x \in Keys, entry'[x] = "kept" PROVE Sound(x)'
    <2>1. Sound(x)
        BY <1>1 DEF EntriesSound
    <2>2. \A c : WillClear(c, x) => WillClear(c, x)'
        BY <1>1, ClearersKept
    <2> QED BY <2>1, <2>2, SoundKept
<1> QED BY <1>1 DEF EntriesSound

LEMMA RequestsKept ==
    ASSUME RequestsSure, UNCHANGED <<row, cached, req>>, \A c : WillMark(c) => WillMark(c)'
    PROVE  RequestsSure'
<1>1. ASSUME NEW q, Sure(q) PROVE Sure(q)'
    BY <1>1, SureKept
<1> QED BY <1>1 DEF RequestsSure

LEMMA PutFresh ==
    ASSUME Types, Fresh, NEW w \in Writers, NEW k, NEW v, PutPolicy(w, k, v)
    PROVE  Fresh'
<1>1. PICK p : writer' = [writer EXCEPT ![w] = p]
    BY DEF PutPolicy
<1>2. writer[w].pc = "idle" /\ UNCHANGED <<row, cached, entry, req>> /\ WriterTypes
    BY DEF PutPolicy, Types
<1> QED BY <1>1, <1>2, ChangeFresh

LEMMA CommitFresh ==
    ASSUME Types, AllGated, Fresh, NEW w \in Writers, CommitPolicy(w)
    PROVE  Fresh'
<1>1. PICK k \in Policies : k = writer[w].policy
    BY DEF Types, WriterTypes, Writing, CommitPolicy
<1>2. /\ writer[w].pc = "commit" /\ UNCHANGED cached /\ WriterTypes /\ writer[w] \in Put
      /\ \A c \in DlpRows \ {k} : row'[c] = row[c]
    BY <1>1 DEF CommitPolicy, Types, WriterTypes, RowTypes, IsRow, Policies
<1>3. CASE writer[w].early
    <2>1. /\ writer' = [writer EXCEPT ![w] = Idle]
          /\ entry' = Excused(Keys) /\ req' = Overtaken(k)
        BY <1>1, <1>3 DEF CommitPolicy, AfterCommit
    <2>2. \A c : WillMark(c) => WillMark(c)'
        BY <1>2, <2>1, MarkersKept DEF Marks
    <2>3. RequestsSure'
        BY <1>2, <2>1, <2>2, MarkingSure DEF Fresh
    <2>4. EntriesSound'
        BY <2>1 DEF Excused, EntriesSound
    <2> QED BY <2>3, <2>4 DEF Fresh
<1>4. CASE ~writer[w].early
    <2>1. PICK p : p = [writer[w] EXCEPT !.pc = IF k \in CachedPolicies THEN "refresh" ELSE "scan"]
        OBVIOUS
    <2>2. writer' = [writer EXCEPT ![w] = p] /\ UNCHANGED <<entry, req>>
        BY <1>1, <1>4, <2>1 DEF CommitPolicy, AfterCommit
    <2>3. k \in DlpRows => p.policy = k /\ Marks(p)
        <3>1. k \in DlpRows => k \notin CachedPolicies
            BY DEF DlpRows, CachedPolicies, ModelLayers, ResidencyRules
        <3> QED BY <1>1, <1>2, <1>4, <2>1, <3>1 DEF Put, Marks
    <2> QED BY <1>2, <2>2, <2>3, ChangeFresh
<1> QED BY <1>3, <1>4

LEMMA RefreshFresh ==
    ASSUME Types, Orderly, Fresh, NEW w \in Writers, RefreshCache(w)
    PROVE  Fresh'
<1>1. PICK k \in CachedPolicies : k = writer[w].policy
    BY DEF Types, WriterTypes, Writing, RefreshCache
<1>2. PICK p : p = IF k \in ClearingPolicies THEN [writer[w] EXCEPT !.pc = "scan"] ELSE Idle
    OBVIOUS
<1>3. /\ writer[w].pc = "refresh" /\ WriterTypes /\ writer[w] \in Put /\ ~writer[w].early
      /\ writer' = [writer EXCEPT ![w] = p] /\ UNCHANGED <<row, entry, req>>
    BY <1>1, <1>2 DEF RefreshCache, Types, WriterTypes, Orderly, Earlier
<1>4. \A c \in ResidencyRules \ {k} : cached'[c] = cached[c]
    BY <1>1 DEF RefreshCache, Types, CachedTypes, CachedPolicies
<1>5. k \in ResidencyRules => p.policy = k /\ Marks(p)
    BY <1>1, <1>2, <1>3 DEF ClearingPolicies, Put, Marks
<1> QED BY <1>3, <1>4, <1>5, ChangeFresh

\* What is left of a PUT that is clearing the response cache.
LEMMA RemainingClears ==
    ASSUME NEW w \in Writers, writer[w] \in Put, NEW keys
    PROVE  \E p : /\ p = Remaining(w, keys)
                  /\ ~writer[w].early =>
                        \A x \in keys : p.policy = writer[w].policy /\ Clears(p, x)
<1>1. PICK p : p = Remaining(w, keys)
    OBVIOUS
<1>2. CASE keys # {}
    <2>1. p = [writer[w] EXCEPT !.pc = "delete", !.keys = keys]
        BY <1>1, <1>2 DEF Remaining
    <2> QED BY <1>1, <2>1 DEF Put, Clears
<1> QED BY <1>1, <1>2

LEMMA ScanFresh ==
    ASSUME Types, AllGated, Fresh, NEW w \in Writers, ScanEntries(w) \/ ScanFails(w)
    PROVE  Fresh'
<1>0. /\ WriterTypes /\ writer[w] \in Put /\ writer[w].pc = "scan" /\ UNCHANGED <<row, cached>>
      /\ req' = IF writer[w].early THEN req ELSE Overtaken(writer[w].policy)
    BY DEF Types, WriterTypes, ScanEntries, ScanFails
<1>1. PICK keys : /\ writer' = [writer EXCEPT ![w] = Remaining(w, keys)]
                  /\ \A x \in Keys : entry'[x] = "kept" => entry[x] = "kept" /\ x \in keys
    <2>1. CASE ScanEntries(w)
        <3>1. PICK keys : keys = {k \in Keys : entry[k] # "none"}
            OBVIOUS
        <3> QED BY <2>1, <3>1 DEF ScanEntries
    <2>2. CASE ScanFails(w)
        BY <2>2 DEF ScanFails, Excused
    <2> QED BY <2>1, <2>2
<1>2. PICK p : /\ p = Remaining(w, keys)
               /\ ~writer[w].early =>
                     \A x \in keys : p.policy = writer[w].policy /\ Clears(p, x)
    BY <1>0, RemainingClears
<1>3. writer' = [writer EXCEPT ![w] = p]
    BY <1>1, <1>2
<1>4. EntriesSound'
    <2>1. \A x \in Keys : entry'[x] = "kept" =>
              /\ entry[x] = "kept"
              /\ Clears(writer[w], x) => p.policy = writer[w].policy /\ Clears(p, x)
        BY <1>1, <1>2 DEF Clears
    <2> QED BY <1>0, <1>3, <2>1, ClearingSound DEF Fresh
<1>5. RequestsSure'
    <2>1. CASE writer[w].early
        <3>1. \A c : WillMark(c) => WillMark(c)'
            BY <1>0, <1>3, <2>1, MarkersKept DEF Marks
        <3> QED BY <1>0, <2>1, <3>1, RequestsKept DEF Fresh
    <2>2. CASE ~writer[w].early
        <3>1. \A c \in ClearingPolicies \ {writer[w].policy} : WillMark(c) => WillMark(c)'
            BY <1>0, <1>3, MarkersKept
        <3> QED BY <1>0, <2>2, <3>1, MarkingSure DEF Fresh
    <2> QED BY <2>1, <2>2
<1> QED BY <1>4, <1>5 DEF Fresh

LEMMA DeleteFresh ==
    ASSUME Types, Fresh, NEW w \in Writers, NEW k \in Keys, DeleteEntry(w, k) \/ DeleteFails(w, k)
    PROVE  Fresh'
<1>0. /\ WriterTypes /\ writer[w] \in Put /\ writer[w].pc = "delete"
      /\ UNCHANGED <<row, cached, req>>
      /\ writer' = [writer EXCEPT ![w] = Remaining(w, writer[w].keys \ {k})]
    BY DEF Types, WriterTypes, DeleteEntry, DeleteFails
<1>1. \A x \in Keys : entry'[x] = "kept" => entry[x] = "kept" /\ x # k
    <2>1. CASE DeleteEntry(w, k)
        BY <2>1 DEF DeleteEntry, Types
    <2>2. CASE DeleteFails(w, k)
        BY <2>2 DEF DeleteFails, Excused
    <2> QED BY <2>1, <2>2
<1>2. PICK p : /\ p = Remaining(w, writer[w].keys \ {k})
               /\ ~writer[w].early =>
                     \A x \in writer[w].keys \ {k} : p.policy = writer[w].policy /\ Clears(p, x)
    BY <1>0, RemainingClears
<1>3. writer' = [writer EXCEPT ![w] = p]
    BY <1>0, <1>2
<1>4. \A x \in Keys : entry'[x] = "kept" =>
          /\ entry[x] = "kept"
          /\ Clears(writer[w], x) => p.policy = writer[w].policy /\ Clears(p, x)
    BY <1>0, <1>1, <1>2 DEF Clears
<1>5. EntriesSound'
    BY <1>0, <1>3, <1>4, ClearingSound DEF Fresh
<1>6. \A c : WillMark(c) => WillMark(c)'
    BY <1>0, <1>3, MarkersKept DEF Marks
<1> QED BY <1>0, <1>5, <1>6, RequestsKept DEF Fresh
-----------------------------------------------------------------------------
LEMMA InitFresh == Init => Fresh
<1> SUFFICES ASSUME Init PROVE Fresh
    OBVIOUS
<1>1. EntriesSound
    BY DEF Init, EntriesSound
<1>2. RequestsSure
    BY RestIsSure DEF Init, RequestsSure
<1> QED BY <1>1, <1>2 DEF Fresh

\* The steps that leave what the cache rests on alone, or remove an entry.
LEMMA OtherFresh ==
    ASSUME Types, Fresh, UNCHANGED <<row, writer, req>>,
           \A c \in ResidencyRules : cached'[c] = cached[c],
           \A x \in Keys : entry'[x] = "kept" => entry[x] = "kept"
    PROVE  Fresh'
<1>1. EntriesSound'
    BY FreshSame DEF Fresh, EntriesSound
<1>2. \A r \in Requests : Sure(req[r])'
    BY FreshSame DEF Fresh, RequestsSure
<1> QED BY <1>1, <1>2 DEF Fresh, RequestsSure

LEMMA NextFresh == Types /\ AllGated /\ Orderly /\ Fresh /\ [Next]_vars => Fresh'
<1> SUFFICES ASSUME Types, AllGated, Orderly, Fresh, [Next]_vars PROVE Fresh'
    OBVIOUS
<1>1. ASSUME NEW w \in Writers, WriterStep(w) PROVE Fresh'
    <2>1. CASE \E k \in DOMAIN Values : \E v \in Values[k] : PutPolicy(w, k, v)
        BY <2>1, PutFresh
    <2>2. CASE \E k \in Keys : DeleteEntry(w, k) \/ DeleteFails(w, k)
        BY <2>2, DeleteFresh
    <2> QED BY <1>1, <2>1, <2>2, CommitFresh, RefreshFresh, ScanFresh DEF WriterStep
<1>2. ASSUME NEW k \in Keys, Expire(k) PROVE Fresh'
    <2>1. /\ UNCHANGED <<row, cached, writer, req>>
          /\ \A x \in Keys : entry'[x] = "kept" => entry[x] = "kept"
        BY <1>2 DEF Expire, Types
    <2> QED BY <2>1, OtherFresh
<1>3. CASE Heal
    <2>1. UNCHANGED <<row, entry, writer, req>>
        BY <1>3 DEF Heal, HealRead, HealGiveUp, HealOrg, HealOverlay
    <2>2. \A c \in ResidencyRules : cached'[c] = cached[c]
        BY <1>3 DEF Heal, HealRead, HealGiveUp, HealOrg, HealOverlay, ResidencyRules,
                    Types, CachedTypes, CachedPolicies
    <2> QED BY <2>1, <2>2, OtherFresh
<1>4. CASE UNCHANGED vars
    BY <1>4, OtherFresh DEF vars, others
<1> QED BY <1>1, <1>2, <1>3, <1>4, RequestFresh DEF Next

\* For any prompts, models, zones and policies, and any number of requests
\* and administrators, an entry of the response cache that the residency
\* rules or the DLP policies would now refuse or rewrite is there only while
\* the PUT that made it so is at work: clear_response_cache lists the keys
\* after the change has landed, and what the list misses is a request that
\* had passed the check.
THEOREM EntriesStayFresh == Spec => []EntryFresh
<1>1. Types /\ Fresh => EntryFresh
    <2> SUFFICES ASSUME Types, Fresh, NEW k \in Keys, entry[k] = "kept", Stale(k) PROVE Clearing
        BY DEF EntryFresh
    <2>1. Sound(k)
        BY DEF Fresh, EntriesSound
    <2>2. \E c \in ClearingPolicies : WillClear(c, k)
        <3>1. CASE ~ResidencyAllows(k[2])
            BY <2>1, <3>1 DEF ResidencyAllows, Sound, EntryZoned, ClearingPolicies
        <3>2. CASE k[1] \in Sensitive /\ DlpActions \cap {"redact", "block"} # {}
            BY <2>1, <3>2 DEF DlpActions, Sound, EntryDetected, EntryMatched, Harmless,
                              ClearingPolicies, DlpRows
        <3> QED BY <3>1, <3>2 DEF Stale
    <2> QED BY <2>2 DEF WillClear, Clearing
<1>2. Spec => []AllGated
    BY TypesKept, InitMaps, NextMaps, PTL DEF Spec
<1>3. Spec => []Orderly
    <2>1. Healing => Orderly
        BY DEF Healing
    <2> QED BY <2>1, InitHealing, NextHealing, PTL DEF Spec
<1>4. Spec => []Fresh
    BY <1>2, <1>3, TypesKept, InitFresh, NextFresh, PTL DEF Spec
<1> QED BY <1>1, <1>4, TypesKept, PTL
=============================================================================
