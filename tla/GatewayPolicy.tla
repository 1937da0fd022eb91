---------------------------- MODULE GatewayPolicy ----------------------------
(***************************************************************************)
(* The policy pipeline of one gateway process: what a chat completion      *)
(* checks before its prompt is sent and which model it ends at, beside     *)
(* administrators who change the policies, the response cache, and the     *)
(* task that heals the model policy caches after a failed start.           *)
(*                                                                         *)
(* A request's step ends where the handler awaits: between two steps a     *)
(* policy may change.  Policies live in rows; all but the DLP ones are     *)
(* enforced from in-process caches, refreshed after the commit.            *)
(* `passed`, `overtaken` and "excused" are history: what was permitted to  *)
(* the request, and how an entry may outlive a change.                     *)
(***************************************************************************)
EXTENDS Naturals, Sequences, FiniteSets

CONSTANTS
    Requests,      \* requests in flight at once
    Writers,       \* administrators' PUTs in flight at once
    Models, Prompts, None,
    Sensitive,     \* prompts the detectors, patterns and classifiers find
    Static,        \* models of MODEL_REGISTRY; the others are custom
    Region,        \* the zone each model's provider answers from
    Fallbacks,     \* fallback_model_names of each model
    InitialRow,    \* the policies at the start
    Values,        \* what administrators write, by policy
    StoreMayFail,  \* may a call to the shared store fail?
    MaxRequests, MaxWrites    \* bounds

Zones == {Region[m] : m \in Models}
Keys == Prompts \X Models
ModelLayers == {"orgModels", "teamModels", "memberModels"}
ResidencyRules == {"orgResidency", "teamResidency"}
DlpRows == {"dlp", "dlpTeam", "pattern"}
CachedPolicies == ModelLayers \cup ResidencyRules \cup {"content", "downgrade", "caching"}
Policies == CachedPolicies \cup DlpRows
ClearingPolicies == ResidencyRules \cup DlpRows

\* A model layer is the models it lets through, a residency rule the zones
\* (all of them when it only warns), "content" the models that may see
\* classified content (all of them when no category is enabled).
ValuesOf(k) ==
    CASE k \in ModelLayers \cup {"content"} -> SUBSET Models
      [] k \in ResidencyRules -> SUBSET Zones
      [] k = "dlp" -> {"off", "log", "redact", "block"}
      [] k \in {"dlpTeam", "pattern"} -> {"unset", "log", "redact", "block"}
      [] k = "downgrade" -> Static \cup {None}
      [] k = "caching" -> BOOLEAN

IsRow(f) == /\ DOMAIN f = Policies
            /\ \A k \in Policies : f[k] \in ValuesOf(k)

ASSUME GatewayAssumption ==
    /\ IsFiniteSet(Models) /\ IsFiniteSet(Prompts)
    /\ None \notin Models \cup Prompts \cup Keys \cup ValuesOf("dlp")
    /\ Sensitive \subseteq Prompts
    /\ Static \subseteq Models
    /\ Fallbacks \in [Models -> Seq(Models)]
    /\ \A m \in Static : Fallbacks[m] = <<>>
    /\ IsRow(InitialRow)
    /\ \A k \in DOMAIN Values : k \in Policies /\ Values[k] \subseteq ValuesOf(k)
    \* an override is set or replaced, there is no removing it
    /\ "dlpTeam" \in DOMAIN Values => "unset" \notin Values["dlpTeam"]
    /\ StoreMayFail \in BOOLEAN
    /\ MaxRequests \in Nat /\ MaxWrites \in Nat

VARIABLES
    row,         \* the policy rows in the database
    cached,      \* the in-process caches
    entry,       \* response cache: none, kept, or kept with an excuse
    req,         \* the requests
    writer,      \* the administrators' PUTs
    heal,        \* _model_policy_self_heal
    generation,  \* ModelPolicyCache._generation
    arrived, writes

others == <<row, cached, entry, writer, heal, generation, arrived, writes>>
vars == <<others, req>>

RequestPcs == {"rest", "policy", "lookup", "residency", "dlp", "scan", "content", "budget",
               "recheck", "rezone", "dispatch", "sent", "answered"}
WriterPcs == {"idle", "commit", "refresh", "scan", "delete"}
HealPcs == {"over", "asleep", "exhausted", "org", "warmTeam", "team", "warmMember", "member"}

Rest(answered) ==
    [pc |-> "rest", answered |-> answered, prompt |-> None, model |-> None, serving |-> None,
     chain |-> <<>>, degraded |-> FALSE, fallback |-> FALSE, caching |-> FALSE, read |-> None,
     findings |-> FALSE, redacted |-> FALSE, overtaken |-> FALSE, passed |-> {}]
Idle == [pc |-> "idle", policy |-> None, value |-> None, keys |-> {}, early |-> FALSE]

\* A failed start leaves the model layers unconfigured and a task to heal them.
Init ==
    /\ row = InitialRow
    /\ \E failed \in BOOLEAN :
        /\ cached = [k \in CachedPolicies |->
                        IF failed /\ k \in ModelLayers THEN Models ELSE InitialRow[k]]
        /\ heal = [pc |-> IF failed THEN "asleep" ELSE "over", seen |-> None, expected |-> 0]
    /\ entry = [k \in Keys |-> "none"]
    /\ req = [r \in Requests |-> Rest(FALSE)]
    /\ writer = [w \in Writers |-> Idle]
    /\ generation = 0 /\ arrived = 0 /\ writes = 0
-----------------------------------------------------------------------------
(* What the policies let pass. *)

ModelAllowed(m) == \A k \in ModelLayers : m \in cached[k]
ResidencyAllows(m) == \A k \in ResidencyRules : Region[m] \in cached[k]
ContentAllows(m) == m \in cached["content"]

\* A team's override replaces the action of detectors that are on.
DetectorAction(policy, override) ==
    IF policy = "off" \/ override = "unset" THEN policy ELSE override

DlpActions == {DetectorAction(row["dlp"], row["dlpTeam"]), row["pattern"]}

Lets(c, p, m) ==
    CASE c = "model" -> ModelAllowed(m)
      [] c = "residency" -> ResidencyAllows(m)
      [] c = "detectors" ->
            p \in Sensitive => DetectorAction(row["dlp"], row["dlpTeam"]) # "block"
      [] c = "patterns" -> p \in Sensitive => row["pattern"] # "block"
      [] c = "content" -> p \in Sensitive => ContentAllows(m)

\* What a request has been let through, for all models when the check looks
\* at the prompt alone.
Now(c, p, ms) == {<<c, m>> : m \in {x \in ms : Lets(c, p, x)}}
-----------------------------------------------------------------------------
(* Requests. *)

InFlight(r) == req[r].pc # "rest"
Becomes(r, record) == req' = [req EXCEPT ![r] = record] /\ UNCHANGED others

Arrive(r) ==
    /\ ~InFlight(r) /\ arrived < MaxRequests
    /\ \E p \in Prompts, m \in Models :
        req' = [req EXCEPT ![r] = [Rest(@.answered) EXCEPT
                    !.pc = "policy", !.prompt = p, !.model = m, !.serving = m]]
    /\ arrived' = arrived + 1
    /\ UNCHANGED <<row, cached, entry, writer, heal, generation, writes>>

\* The caching settings are read in the same breath as the model policy.
CheckModelPolicy(r) ==
    /\ req[r].pc = "policy"
    /\ ModelAllowed(req[r].model)
    /\ Becomes(r, [req[r] EXCEPT
            !.pc = IF cached["caching"] THEN "lookup" ELSE "residency",
            !.caching = cached["caching"],
            !.passed = @ \cup {<<"model", req[r].model>>}])

ServeHit(r) ==
    /\ req[r].pc = "lookup"
    /\ entry[<<req[r].prompt, req[r].model>>] # "none"
    /\ Becomes(r, Rest(TRUE))

\* A store that fails or an entry past its expiry is a miss too.
Miss(r) ==
    /\ req[r].pc = "lookup"
    /\ StoreMayFail \/ entry[<<req[r].prompt, req[r].model>>] = "none"
    /\ Becomes(r, [req[r] EXCEPT !.pc = "residency"])

CheckResidency(r) ==
    /\ req[r].pc = "residency"
    /\ ResidencyAllows(req[r].model)
    /\ Becomes(r, [req[r] EXCEPT !.pc = "dlp", !.passed = @ \cup {<<"residency", req[r].model>>}])

LoadDlpPolicy(r) ==
    /\ req[r].pc = "dlp"
    /\ Becomes(r, [req[r] EXCEPT !.pc = "scan", !.read = row["dlp"],
            !.passed = @ \cup Now("detectors", req[r].prompt, Models)])

\* The classifiers run for the categories enabled now; a model the category
\* excludes is refused at the next step.
RunDlpScan(r) ==
    LET actions == {DetectorAction(req[r].read, row["dlpTeam"]), row["pattern"]}
        sensitive == req[r].prompt \in Sensitive
        findings == sensitive /\ cached["content"] # Models
    IN  /\ req[r].pc = "scan"
        /\ sensitive => "block" \notin actions
        /\ Becomes(r, [req[r] EXCEPT !.pc = "content",
                !.findings = findings,
                !.redacted = sensitive /\ "redact" \in actions,
                !.passed = @ \cup Now("detectors", req[r].prompt, Models)
                             \cup Now("patterns", req[r].prompt, Models)
                             \cup (IF findings THEN {} ELSE {"content"} \X Models)])

CheckContent(r) ==
    /\ req[r].pc = "content"
    /\ req[r].findings => ContentAllows(req[r].model)
    /\ Becomes(r, [req[r] EXCEPT !.pc = "budget", !.passed = @ \cup {<<"content", req[r].model>>}])

\* The budget allows the request; near its end the model is replaced.
KeepModel(r) ==
    /\ req[r].pc = "budget"
    /\ Becomes(r, [req[r] EXCEPT !.pc = "dispatch"])

Degrade(r) ==
    /\ req[r].pc = "budget"
    /\ cached["downgrade"] # None
    /\ Becomes(r, [req[r] EXCEPT !.pc = "recheck", !.degraded = TRUE,
                                 !.serving = cached["downgrade"]])

\* The substitute, degraded to or next in the chain, passes the checks that
\* depend on the model; the findings are those of the one scan.
Recheck(r) ==
    LET m == req[r].serving IN
    /\ req[r].pc = "recheck"
    /\ ModelAllowed(m)
    /\ req[r].findings => ContentAllows(m)
    /\ Becomes(r, [req[r] EXCEPT !.pc = "rezone",
            !.passed = @ \cup {<<"model", m>>, <<"content", m>>}])

RecheckResidency(r) ==
    LET m == req[r].serving IN
    /\ req[r].pc = "rezone"
    /\ ResidencyAllows(m)
    /\ Becomes(r, [req[r] EXCEPT !.pc = "dispatch", !.passed = @ \cup {<<"residency", m>>}])

Dispatch(r) ==
    /\ req[r].pc = "dispatch"
    /\ Becomes(r, [req[r] EXCEPT !.pc = "sent"])

ProviderAnswers(r) ==
    /\ req[r].pc = "sent"
    /\ Becomes(r, [req[r] EXCEPT !.pc = "answered"])

\* Faulty: a candidate is dispatched without the checks of its own.
NextCandidate_Unchecked(r) ==
    LET chain == IF req[r].fallback THEN req[r].chain ELSE Fallbacks[req[r].serving]
    IN  /\ req[r].pc = "sent" /\ chain # <<>>
        /\ Becomes(r, [req[r] EXCEPT !.pc = "dispatch", !.fallback = TRUE,
                                     !.serving = Head(chain), !.chain = Tail(chain)])

\* The chain is bound once, when the first model's provider fails; a
\* candidate that fails in any way makes room for the next.
NextCandidate(r) ==
    LET first == req[r].pc = "sent" /\ ~req[r].fallback
        chain == IF first THEN Fallbacks[req[r].serving] ELSE req[r].chain
    IN  /\ first \/ (req[r].fallback /\ req[r].pc \in {"recheck", "rezone", "dispatch", "sent"})
        /\ chain # <<>>
        /\ Becomes(r, [req[r] EXCEPT !.pc = "recheck", !.fallback = TRUE,
                                     !.serving = Head(chain), !.chain = Tail(chain)])

\* Faulty: a degraded or fallback answer is kept under the asked model's key.
SkipWrite_RedactedOnly(r) == req[r].redacted

SkipWrite(r) == req[r].redacted \/ req[r].degraded \/ req[r].fallback

WriteResponseCache(r) ==
    /\ req[r].pc = "answered"
    /\ req[r].caching /\ ~SkipWrite(r)
    /\ entry' = [entry EXCEPT ![<<req[r].prompt, req[r].model>>] =
                    IF req[r].overtaken THEN "excused" ELSE "kept"]
    /\ req' = [req EXCEPT ![r] = Rest(TRUE)]
    /\ UNCHANGED <<row, cached, writer, heal, generation, arrived, writes>>

\* Nothing is written: not wanted, streamed, or the store failed.
ReturnAnswer(r) ==
    /\ req[r].pc = "answered"
    /\ Becomes(r, Rest(TRUE))

\* A check that denies, a limit, an error or a caller that hangs up.
Refuse(r) ==
    /\ InFlight(r)
    /\ Becomes(r, Rest(FALSE))
-----------------------------------------------------------------------------
(* Administrators. *)

\* A narrower layer may not list what a wider one denies; the rows are read
\* without a lock.  A residency rule that only warns lists no wider zones.
WithinOrg(v) == v \subseteq row["orgModels"]
WithinTeam(v) == WithinOrg(v) /\ v \subseteq row["teamModels"]
NarrowsZones(v) == v = Zones \/ v \subseteq row["orgResidency"]
MayDowngradeTo(v) == v # None => v \in row["orgModels"]

Valid(k, v) ==
    /\ k = "teamModels" => WithinOrg(v)
    /\ k = "memberModels" => WithinTeam(v)
    /\ k = "teamResidency" => NarrowsZones(v)
    /\ k = "downgrade" => MayDowngradeTo(v)

\* Creating a pattern clears the response cache before it commits.
Early(k) == k = "pattern" /\ row["pattern"] = "unset"

\* Two PUTs of one policy at once are left out, as ModelPolicyCache.set does.
PutPolicy(w, k, v) ==
    /\ writer[w].pc = "idle" /\ writes < MaxWrites
    /\ \A x \in Writers : writer[x].policy # k
    /\ Valid(k, v)
    /\ writer' = [writer EXCEPT ![w] =
            [pc |-> IF Early(k) THEN "scan" ELSE "commit",
             policy |-> k, value |-> v, keys |-> {}, early |-> Early(k)]]
    /\ writes' = writes + 1
    /\ UNCHANGED <<row, cached, entry, req, heal, generation, arrived>>

AfterCommit(w) ==
    IF writer[w].early THEN Idle
    ELSE [writer[w] EXCEPT !.pc = IF writer[w].policy \in CachedPolicies THEN "refresh" ELSE "scan"]

\* The answers a request was let on to before the change, by the rule that
\* changed, may be kept after the cache was cleared for it.
PassedCheck(r, k) ==
    CASE k \in ResidencyRules -> <<"residency", req[r].model>> \in req[r].passed
      [] k = "dlp" -> req[r].read # None
      [] OTHER -> req[r].pc \notin {"rest", "policy", "lookup", "residency", "dlp", "scan"}

Overtaken(k) == [r \in Requests |->
    IF InFlight(r) /\ PassedCheck(r, k) THEN [req[r] EXCEPT !.overtaken = TRUE] ELSE req[r]]
Excused(keys) == [k \in Keys |-> IF k \in keys /\ entry[k] = "kept" THEN "excused" ELSE entry[k]]

CommitPolicy(w) ==
    LET k == writer[w].policy IN
    /\ writer[w].pc = "commit"
    /\ row' = [row EXCEPT ![k] = writer[w].value]
    /\ writer' = [writer EXCEPT ![w] = AfterCommit(w)]
    /\ entry' = IF writer[w].early THEN Excused(Keys) ELSE entry
    /\ req' = IF writer[w].early THEN Overtaken(k) ELSE req
    /\ UNCHANGED <<cached, heal, generation, arrived, writes>>

\* Faulty: a residency rule is refreshed but the response cache not cleared.
RefreshCache_NoClear(w) ==
    LET k == writer[w].policy IN
    /\ writer[w].pc = "refresh"
    /\ cached' = [cached EXCEPT ![k] = writer[w].value]
    /\ generation' = IF k = "orgModels" THEN generation + 1 ELSE generation
    /\ writer' = [writer EXCEPT ![w] = Idle]
    /\ UNCHANGED <<row, entry, req, heal, arrived, writes>>

RefreshCache(w) ==
    LET k == writer[w].policy IN
    /\ writer[w].pc = "refresh"
    /\ cached' = [cached EXCEPT ![k] = writer[w].value]
    /\ generation' = IF k = "orgModels" THEN generation + 1 ELSE generation
    /\ writer' = [writer EXCEPT ![w] =
            IF k \in ClearingPolicies THEN [@ EXCEPT !.pc = "scan"] ELSE Idle]
    /\ UNCHANGED <<row, entry, req, heal, arrived, writes>>

\* What is left of a PUT that has still to delete keys.
Remaining(w, keys) ==
    IF keys # {} THEN [writer[w] EXCEPT !.pc = "delete", !.keys = keys]
    ELSE IF writer[w].early THEN [writer[w] EXCEPT !.pc = "commit", !.keys = {}]
    ELSE Idle

ScanEntries(w) ==
    /\ writer[w].pc = "scan"
    /\ writer' = [writer EXCEPT ![w] = Remaining(w, {k \in Keys : entry[k] # "none"})]
    /\ req' = IF writer[w].early THEN req ELSE Overtaken(writer[w].policy)
    /\ UNCHANGED <<row, cached, entry, heal, generation, arrived, writes>>

DeleteEntry(w, k) ==
    /\ writer[w].pc = "delete" /\ k \in writer[w].keys
    /\ entry' = [entry EXCEPT ![k] = "none"]
    /\ writer' = [writer EXCEPT ![w] = Remaining(w, writer[w].keys \ {k})]
    /\ UNCHANGED <<row, cached, req, heal, generation, arrived, writes>>

\* The store fails: clearing is given up for all keys or for one.
ScanFails(w) ==
    /\ StoreMayFail /\ writer[w].pc = "scan"
    /\ writer' = [writer EXCEPT ![w] = Remaining(w, {})]
    /\ entry' = Excused(Keys)
    /\ req' = IF writer[w].early THEN req ELSE Overtaken(writer[w].policy)
    /\ UNCHANGED <<row, cached, heal, generation, arrived, writes>>

DeleteFails(w, k) ==
    /\ StoreMayFail /\ writer[w].pc = "delete" /\ k \in writer[w].keys
    /\ writer' = [writer EXCEPT ![w] = Remaining(w, writer[w].keys \ {k})]
    /\ entry' = Excused({k})
    /\ UNCHANGED <<row, cached, req, heal, generation, arrived, writes>>

\* The entry's time to live ends, or an administrator clears it.
Expire(k) ==
    /\ entry[k] # "none"
    /\ entry' = [entry EXCEPT ![k] = "none"]
    /\ UNCHANGED <<row, cached, req, writer, heal, generation, arrived, writes>>
-----------------------------------------------------------------------------
(* _model_policy_self_heal *)

HealTo(pc, seen, expected) ==
    heal' = [pc |-> pc, seen |-> seen, expected |-> expected]

HealRead ==
    /\ heal.pc = "asleep"
    /\ HealTo("org", row["orgModels"], generation)
    /\ UNCHANGED <<row, cached, entry, req, writer, generation, arrived, writes>>

HealGiveUp ==
    /\ heal.pc = "asleep"
    /\ HealTo("exhausted", None, 0)
    /\ UNCHANGED <<row, cached, entry, req, writer, generation, arrived, writes>>

\* Faulty: the value read is set without comparing the generation.
HealOrg_Unconditional ==
    /\ heal.pc = "org"
    /\ cached' = [cached EXCEPT !["orgModels"] = heal.seen]
    /\ generation' = generation + 1
    /\ HealTo("warmTeam", None, 0)
    /\ UNCHANGED <<row, entry, req, writer, arrived, writes>>

\* set_if_current: a PUT that landed since the read supersedes it.
HealOrg ==
    /\ heal.pc = "org"
    /\ IF generation = heal.expected
       THEN /\ cached' = [cached EXCEPT !["orgModels"] = heal.seen]
            /\ generation' = generation + 1
            /\ HealTo("warmTeam", None, 0)
       ELSE HealTo("over", None, 0) /\ UNCHANGED <<cached, generation>>
    /\ UNCHANGED <<row, entry, req, writer, arrived, writes>>

\* The overlays are read, then replaced whole, without a comparison.
HealOverlay(k, reading, setting, next) ==
    /\ \/ heal.pc = reading /\ HealTo(setting, row[k], 0) /\ UNCHANGED cached
       \/ heal.pc = reading /\ HealTo(next, None, 0) /\ UNCHANGED cached
       \/ /\ heal.pc = setting /\ HealTo(next, None, 0)
          /\ cached' = [cached EXCEPT ![k] = heal.seen]
    /\ UNCHANGED <<row, entry, req, writer, generation, arrived, writes>>

Heal ==
    \/ HealRead \/ HealGiveUp \/ HealOrg
    \/ HealOverlay("teamModels", "warmTeam", "team", "warmMember")
    \/ HealOverlay("memberModels", "warmMember", "member", "over")
-----------------------------------------------------------------------------
RequestStep(r) ==
    \/ Arrive(r) \/ CheckModelPolicy(r) \/ ServeHit(r) \/ Miss(r)
    \/ CheckResidency(r) \/ LoadDlpPolicy(r) \/ RunDlpScan(r) \/ CheckContent(r)
    \/ KeepModel(r) \/ Degrade(r) \/ Recheck(r) \/ RecheckResidency(r)
    \/ Dispatch(r) \/ ProviderAnswers(r) \/ NextCandidate(r)
    \/ WriteResponseCache(r) \/ ReturnAnswer(r) \/ Refuse(r)

WriterStep(w) ==
    \/ \E k \in DOMAIN Values : \E v \in Values[k] : PutPolicy(w, k, v)
    \/ CommitPolicy(w) \/ RefreshCache(w) \/ ScanEntries(w) \/ ScanFails(w)
    \/ \E k \in Keys : DeleteEntry(w, k) \/ DeleteFails(w, k)

Next ==
    \/ \E r \in Requests : RequestStep(r)
    \/ \E w \in Writers : WriterStep(w)
    \/ \E k \in Keys : Expire(k)
    \/ Heal

Spec == Init /\ [][Next]_vars
-----------------------------------------------------------------------------
(* Properties. *)

\* Types: a substitute is always a model, and what a PUT has yet to delete
\* are keys of the response cache.
TypeOK ==
    /\ IsRow(row)
    /\ DOMAIN cached = CachedPolicies
    /\ \A k \in CachedPolicies : cached[k] \in ValuesOf(k)
    /\ entry \in [Keys -> {"none", "kept", "excused"}]
    /\ DOMAIN req = Requests
    /\ \A r \in Requests :
        LET q == req[r] IN
        /\ q.pc \in RequestPcs
        /\ {q.answered, q.degraded, q.fallback, q.caching, q.findings, q.redacted, q.overtaken}
              \subseteq BOOLEAN
        /\ InFlight(r) => <<q.prompt, q.model>> \in Keys /\ q.serving \in Models
        /\ q.chain \in Seq(Models)
        /\ q.read \in ValuesOf("dlp") \cup {None}
    /\ DOMAIN writer = Writers
    /\ \A w \in Writers :
        /\ writer[w].pc \in WriterPcs /\ writer[w].keys \subseteq Keys
        /\ writer[w].pc # "idle" => writer[w].value \in ValuesOf(writer[w].policy)
    /\ heal.pc \in HealPcs /\ heal.seen \in (SUBSET Models) \cup {None}
    /\ generation \in Nat /\ heal.expected \in Nat

\* What PolicyGate sees of the state.
Permits == [c \in {"model", "residency", "detectors", "patterns", "content"} |->
                {q \in Keys : Lets(c, q[1], q[2])}]
Asked == [r \in Requests |-> IF InFlight(r) THEN <<req[r].prompt, req[r].model>> ELSE None]
Approved == [r \in Requests |-> req[r].passed]
At == [r \in Requests |->
        IF req[r].pc \in {"sent", "answered"} THEN req[r].serving ELSE None]
Told == [r \in Requests |-> req[r].answered]
Memory == {k \in Keys : entry[k] # "none"}

Gate == INSTANCE PolicyGate WITH
    permits <- Permits, asked <- Asked, approved <- Approved,
    at <- At, told <- Told, memory <- Memory

\* The pipeline keeps PolicyGate's promise: whatever substitutes, changes of
\* policy and heals come between, a prompt is sent to a model only after
\* every check let that model have it during this request, and an answer is
\* kept only under the model that gave it.
GateSpec == Gate!GateSpec

\* An entry the residency rules or the DLP policies would now refuse or
\* rewrite.
Stale(k) ==
    \/ ~ResidencyAllows(k[2])
    \/ k[1] \in Sensitive /\ DlpActions \cap {"redact", "block"} # {}

Clearing == \E w \in Writers : writer[w].policy \in ClearingPolicies

\* A stale entry is left only while the change that made it so is being
\* applied, unless the store failed, the answer was on its way past the
\* check when the cache was cleared, or a new pattern cleared it too early.
EntryFresh == \A k \in Keys : entry[k] = "kept" /\ Stale(k) => Clearing

\* Once no PUT and no healing is at work, the organisation's model policy
\* and every other policy but the team and member overlays, which a heal
\* may overwrite, is enforced as committed (unless the heal gave up).
EnforcedAsCommitted ==
    heal.pc = "over" =>
        \A k \in CachedPolicies \ {"teamModels", "memberModels"} :
            cached[k] = row[k] \/ \E w \in Writers : writer[w].policy = k

=============================================================================
