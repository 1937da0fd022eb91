------------------------------ MODULE Metering ------------------------------
(***************************************************************************)
(* From an admitted gateway call to its books: the provider's answer, the  *)
(* charge in two commits (team, then organisation), the usage log row, the *)
(* degradation event and the threshold alerts that go out once the answer  *)
(* is on the wire.  Three endpoints share this path; chat completions may  *)
(* stream, and then the charge happens after the last byte, in a generator *)
(* the client can abandon.                                                 *)
(***************************************************************************)
EXTENDS ProviderStream, Integers, FiniteSets

CONSTANTS
    Calls,        \* gateway calls, each made once
    Models,       \* model names
    ProviderOf,   \* the provider each name routes to
    Registry,     \* names compiled in and priced there; the others are catalogued
    Embedders,    \* names whose capability is embeddings
    Chain,        \* fallback names of each model
    Ceiling,      \* budget ceiling of each level
    MaxCost,      \* bound: cost of a call
    MaxEdits,     \* bound: console writes
    Absent

ASSUME RegistryAssumption == Registry \subseteq Models /\ Embedders \subseteq Models

Levels == {"team", "org"}

ASSUME MeterAssumption == IsFiniteSet(Calls) /\ Ceiling \in [Levels -> Nat] /\ MaxCost \in Nat
                          /\ Absent \notin Nat

Channels == {"webhook", "email"}
Thresholds(level) == IF level = "team" THEN {80, 100} ELSE {50, 75, 100}
\* Bound: an edit changes the channels, or leaves only the last threshold on.
Settings(level) == ((SUBSET Channels) \X {Thresholds(level)}) \cup {<<Channels, {100}>>}

VARIABLES
    call,      \* the calls' own state
    catalog,   \* names the route caches hold beside the registry
    spend,     \* the counter of each level
    rows,      \* usage_logs, in commit order
    alerts,    \* alert settings of each level: channels, thresholds switched on
    edits      \* console writes so far

meterVars == <<call, catalog, spend, rows, alerts, edits>>

Nothing == [l \in Levels |-> {}]

\* Fields of the answer, then of the books, then of the alerts.
NewCall ==
    [pc |-> "idle", surface |-> Absent, model |-> Absent, served |-> Absent, stream |-> FALSE,
     degraded |-> FALSE, priced |-> FALSE, at |-> 1, st |-> NewAdapter, buf |-> <<>>,
     first |-> TRUE, gone |-> FALSE, usage |-> FALSE, whole |-> FALSE, lost |-> FALSE,
     reported |-> FALSE, ended |-> FALSE, broken |-> "no", done |-> FALSE,
     status |-> Absent, hit |-> FALSE, abandoned |-> FALSE, charged |-> 0, orgCharged |-> 0,
     taken |-> {}, crossed |-> Nothing, due |-> Nothing, plan |-> {}, owed |-> {}, tried |-> {}]

MeterInit ==
    /\ call = [c \in Calls |-> NewCall]
    /\ catalog = Models \ Registry
    /\ spend = [l \in Levels |-> 0]
    /\ rows = <<>>
    /\ alerts = [l \in Levels |->
                    [channels |-> Channels, on |-> Thresholds(l), once |-> Thresholds(l)]]
    /\ edits = 0

Routable == Registry \cup catalog
books == <<catalog, spend, rows, alerts, edits>>
Put(c, q) == call' = [call EXCEPT ![c] = q]

\* What outlives a call: the charges it made, at which levels they are committed,
\* and the thresholds it crossed; and what outlives its answer: how it was asked
\* for, and how it came out.
Kept(q) ==
    [NewCall EXCEPT !.charged = q.charged, !.orgCharged = q.orgCharged, !.taken = q.taken,
                    !.crossed = q.crossed]
Answered(q, pc) ==
    [Kept(q) EXCEPT !.pc = pc, !.stream = q.stream, !.gone = q.gone, !.degraded = q.degraded,
                    !.whole = q.whole, !.lost = q.lost, !.reported = q.reported,
                    !.broken = q.broken, !.priced = q.priced, !.due = q.due]
Finished(q) == [Kept(q) EXCEPT !.pc = "done"]

\* What the finally block yields before it logs: an error frame, [DONE], or,
\* to a client that has left, nothing.
Closing(q, status) ==
    q.stream /\ status \notin {"client_disconnected", "provider_error", "refused"}

ToLog(q, status) ==
    [Answered(q, "log") EXCEPT !.status = status, !.done = Closing(q, status), !.priced = FALSE]

-----------------------------------------------------------------------------
(* Admission: what the gates decide is GatewayPolicy's and BudgetLedger's. *)

\* The model asked for, or the registry model a degradation policy puts in its place.
Effective(m) == {m} \cup (Registry \ Embedders)

ChatCompletion(c) ==
    /\ call[c].pc = "idle"
    /\ \E m \in Routable \ Embedders, stream \in BOOLEAN :
       \E effective \in Effective(m) :
          Put(c, [NewCall EXCEPT !.pc = "dispatch", !.surface = "chat", !.model = effective,
                                 !.stream = stream, !.degraded = (effective # m)])
    /\ UNCHANGED books

Completion(c) ==
    /\ call[c].pc = "idle"
    /\ \E m \in Registry \ Embedders :
          /\ ProviderOf[m] = "openai"
          /\ Put(c, [NewCall EXCEPT !.pc = "dispatch", !.surface = "completions", !.model = m])
    /\ UNCHANGED books

Embeddings(c) ==
    /\ call[c].pc = "idle"
    /\ \E m \in Routable \cap Embedders :
          Put(c, [NewCall EXCEPT !.pc = "dispatch", !.surface = "embeddings", !.model = m])
    /\ UNCHANGED books

\* A stored answer costs nothing and is logged as such; a stream never hits.
ServeHit(c) ==
    /\ call[c].pc = "idle"
    /\ Put(c, [ToLog(NewCall, "ok") EXCEPT !.hit = TRUE])
    /\ UNCHANGED books

\* Any gate's GatekeyError: one row without cost, and the error goes out.
RefuseCall(c) ==
    /\ call[c].pc = "idle"
    /\ Put(c, ToLog(NewCall, "refused"))
    /\ UNCHANGED books

-----------------------------------------------------------------------------
(* The answer.                                                             *)

\* The model asked for, or a routable member of its chain once it has failed.
Serving(q) ==
    {q.model} \cup (IF q.surface = "completions" THEN {} ELSE Chain[q.model] \cap Routable)

AnswerKinds(q, m) ==
    CASE q.surface = "completions" -> OpenAiCompletion
      [] q.surface = "embeddings"  -> CreateEmbeddings(ProviderOf[m])
      [] OTHER                     -> CreateNonStreaming(ProviderOf[m])

\* The price of a catalogued model is read from the cache after it answered.
PricedNow(m) == m \in Registry \/ m \in catalog

Answer(c) ==
    LET q == call[c] IN
    /\ q.pc = "dispatch" /\ ~q.stream
    /\ \E m \in Serving(q) : \E out \in AnswerKinds(q, m) :
          Put(c, CASE out = "answer" -> [Answered(q, "charge") EXCEPT !.priced = PricedNow(m),
                                                                   !.reported = TRUE]
                   [] out = "other"  -> Finished(q)
                   [] OTHER          -> ToLog(q, "refused"))
    /\ UNCHANGED books

OpenStream(c) ==
    LET q == call[c] IN
    /\ q.pc = "dispatch" /\ q.stream
    /\ \E m \in Serving(q) : Put(c, [q EXCEPT !.pc = "opening", !.served = m])
    /\ UNCHANGED books

\* One upstream frame through the adapter.
Pulled(q, frame) ==
    LET s == CreateStreaming(ProviderOf[q.served], q.st, frame)
        whole == q.whole \/ frame \in Finishing
    IN [q EXCEPT !.at = @ + 1, !.st = s.st, !.buf = s.chunks, !.whole = whole,
                 !.ended = s.ends, !.broken = IF s.ends /\ s.raises = "no" /\ ~whole
                                              THEN "short" ELSE s.raises,
                 !.reported = @ \/ \E i \in DOMAIN s.chunks : s.chunks[i].usage]

\* Until the first chunk is there nothing has been sent, and a failure is an
\* ordinary refusal; an exception that is no ProviderCallError leaves no row.
AwaitFirst(c) ==
    LET q == call[c] IN
    /\ q.pc = "opening"
    /\ \E frame \in UpstreamFrames(ProviderOf[q.served], q.at) :
          LET p == Pulled(q, frame) IN
          Put(c, CASE p.broken = "call"  -> ToLog(q, "refused")
                   [] p.broken = "other" -> Finished(q)
                   [] p.broken \in {"no", "short"} /\ (p.buf # <<>> \/ p.ended) ->
                         [p EXCEPT !.pc = "streaming", !.first = (p.buf # <<>>),
                                   !.priced = PricedNow(q.served)]
                   [] OTHER -> p)
    /\ UNCHANGED books

Pull(c) ==
    LET q == call[c] IN
    /\ q.pc = "streaming" /\ q.buf = <<>> /\ ~q.ended
    /\ \E frame \in UpstreamFrames(ProviderOf[q.served], q.at) : Put(c, Pulled(q, frame))
    /\ UNCHANGED books

\* Faulty: whatever carries usage is taken for the extra frame.
IsDedicatedUsageChunk_AnyUsage(chunk) == chunk.usage
IsDedicatedUsageChunk(chunk) == ~chunk.choices /\ chunk.usage

\* Usage is taken off any chunk it rides on.
\* Faulty: only off the frame made for it.
CapturesUsage_Dedicated(chunk) == IsDedicatedUsageChunk(chunk)
CapturesUsage(chunk) == chunk.usage

\* The client is looked for before every chunk but the first; the extra usage
\* frame is withheld from a client that did not ask for it.
Relay(c) ==
    LET q == call[c] IN
    /\ q.pc = "streaming" /\ q.buf # <<>>
    /\ IF q.gone /\ ~q.first
       THEN Put(c, ToLog(q, "client_disconnected"))
       ELSE \E wanted \in BOOLEAN :
            LET chunk == Head(q.buf)
                withheld == IsDedicatedUsageChunk(chunk) /\ ~wanted
            IN Put(c, [q EXCEPT !.buf = Tail(@), !.first = FALSE,
                                !.usage = @ \/ CapturesUsage(chunk),
                                !.lost = @ \/ (withheld /\ chunk.choices)])
    /\ UNCHANGED books

\* The finally block of a stream that ended by itself.
EndStream(c) ==
    LET q == call[c] IN
    /\ q.pc = "streaming" /\ q.buf = <<>> /\ q.ended
    /\ Put(c, CASE q.broken = "call"            -> ToLog(q, "provider_error")
                [] q.broken # "call" /\ q.usage -> Answered(q, "charge")
                [] OTHER                        -> ToLog(q, "usage_unavailable"))
    /\ UNCHANGED books

Streaming == {"opening", "streaming", "charge", "org", "log", "event"}

ClientLeaves(c) ==
    /\ call[c].pc \in Streaming /\ call[c].stream /\ ~call[c].gone
    /\ Put(c, [call[c] EXCEPT !.gone = TRUE])
    /\ UNCHANGED books

\* The server gives the generator up: at an await nothing more of it runs; at
\* a yield its finally block still charges, and dies on the yield after that.
Abandon(c) ==
    LET q == call[c] IN
    /\ q.gone /\ q.pc \in Streaming \ {"opening"}
    /\ \/ Put(c, Finished(q))
       \/ /\ q.pc = "streaming" /\ q.usage
          /\ Put(c, [Answered(q, "charge") EXCEPT !.abandoned = TRUE])
    /\ UNCHANGED books

-----------------------------------------------------------------------------
(* The charge.                                                             *)

CrossedThresholds(level, old, new) ==
    {pct \in alerts[level].on : 100 * old < pct * Ceiling[level]
                                 /\ pct * Ceiling[level] <= 100 * new}

\* Crossings are judged on what the counter's own UPDATE returned, totals and
\* switches, and put in the background only if a channel is enabled then.
Alerted(q, level, cost) ==
    LET crossed == CrossedThresholds(level, spend[level], spend[level] + cost)
    IN [q EXCEPT !.crossed[level] = crossed,
                 !.due[level] = IF alerts[level].channels = {} THEN {} ELSE crossed]

\* What a call comes to is any cost up to the bound; an Ollama model's price is 0,
\* and a charge of 0 is committed at both levels like any other.
Costs == 0 .. MaxCost

\* A stream has already answered and can only note the failure; otherwise the
\* exception goes out, with a row only if it is the missing price.
ChargeFails(q) ==
    CASE q.abandoned \/ (~q.stream /\ q.priced) -> Finished(q)
      [] ~q.abandoned /\ q.stream               -> ToLog(q, "charge_failed")
      [] OTHER                                  -> ToLog(q, "internal_error")

Charge(c) ==
    LET q == call[c] IN
    /\ q.pc = "charge"
    /\ \/ /\ q.priced
          /\ \E cost \in Costs :
                /\ spend' = [spend EXCEPT !["team"] = @ + cost]
                /\ Put(c, [Alerted(q, "team", cost) EXCEPT !.pc = "org", !.charged = cost,
                                                        !.taken = {"team"}])
       \/ Put(c, ChargeFails(q)) /\ UNCHANGED spend
    /\ UNCHANGED <<catalog, rows, alerts, edits>>

\* Its own commit, so the team may be charged and the organisation not.
\* Faulty: a failure of the second commit is passed over.
ChargeOrg_Shrugs(c) ==
    LET q == call[c] IN
    /\ q.pc = "org"
    /\ \/ /\ spend' = [spend EXCEPT !["org"] = @ + q.charged]
          /\ Put(c, [ToLog(Alerted(q, "org", q.charged), "ok") EXCEPT !.orgCharged = q.charged,
                                                                    !.taken = Levels])
       \/ Put(c, ToLog(q, "ok")) /\ UNCHANGED spend
    /\ UNCHANGED <<catalog, rows, alerts, edits>>
ChargeOrg(c) ==
    LET q == call[c]
        charged == [Alerted(q, "org", q.charged) EXCEPT !.orgCharged = q.charged,
                                                        !.taken = Levels]
    IN
    /\ q.pc = "org"
    /\ \/ /\ spend' = [spend EXCEPT !["org"] = @ + q.charged]
          /\ Put(c, IF q.abandoned THEN Finished(charged)
                    ELSE ToLog(charged, "ok"))
       \/ Put(c, ChargeFails(q)) /\ UNCHANGED spend
    /\ UNCHANGED <<catalog, rows, alerts, edits>>

-----------------------------------------------------------------------------
(* The books.                                                              *)

\* Faulty: what the call spent, whatever became of it.
RowCost_Charged(q) == q.charged
RowCost(q) == IF q.status = "ok" THEN q.charged ELSE Absent

UsageLog(c, q) == [call |-> c, status |-> q.status, cost |-> RowCost(q), hit |-> q.hit]

\* What the caller sees as an error, and Starlette as a reason to run no tasks.
Raised(q) == q.status \in {"refused", "internal_error"} \/ q.broken = "other"

AfterBooks(q) ==
    IF Raised(q) THEN Finished(q) ELSE [Kept(q) EXCEPT !.pc = "tasks", !.due = q.due]

\* record_usage_log never raises; a failed insert loses the row.
Log(c) ==
    LET q == call[c] IN
    /\ q.pc = "log"
    /\ Put(c, IF q.status = "ok" /\ q.degraded THEN [q EXCEPT !.pc = "event"] ELSE AfterBooks(q))
    /\ rows' \in {Append(rows, UsageLog(c, q)), rows}
    /\ UNCHANGED <<catalog, spend, alerts, edits>>

\* Another commit of its own; whether it succeeds changes nothing that follows.
LogDegradationEvent(c) ==
    LET q == call[c] IN
    /\ q.pc = "event"
    /\ Put(c, AfterBooks(q))
    /\ UNCHANGED books

-----------------------------------------------------------------------------
(* Background tasks: first the team's, then the organisation's.            *)

NextLevel(q) == IF q.due["team"] # {} THEN "team" ELSE "org"

\* Channels are those enabled by now, not those that caused the task.
LoadAlerts(c) ==
    LET q == call[c]
        level == NextLevel(q)
        plan == {level} \X q.due[level] \X alerts[level].channels
    IN
    /\ q.pc = "tasks" /\ q.plan = {} /\ q.due[level] # {}
    /\ Put(c, [q EXCEPT !.due[level] = {}, !.plan = plan, !.owed = plan, !.tried = {}])
    /\ UNCHANGED books

\* A channel that fails is logged and the next one tried.
\* Faulty: a failure ends the round.
Dispatched_StopsAtFailure(q, alert) ==
    {[q EXCEPT !.plan = @ \ {alert}, !.tried = @ \cup {alert}],
     [q EXCEPT !.plan = {}, !.tried = @ \cup {alert}]}
Dispatched(q, alert) == {[q EXCEPT !.plan = @ \ {alert}, !.tried = @ \cup {alert}]}

\* By threshold, and for each the webhook before the mail.
Before(a, b) == a[2] < b[2] \/ (a[2] = b[2] /\ a[3] = "webhook")

SendAlert(c) ==
    LET q == call[c] IN
    /\ q.pc = "tasks" /\ q.plan # {}
    /\ \E q2 \in Dispatched(q, CHOOSE a \in q.plan : \A b \in q.plan \ {a} : Before(a, b)) :
          Put(c, q2)
    /\ UNCHANGED books

TasksDone(c) ==
    LET q == call[c] IN
    /\ q.pc = "tasks" /\ q.plan = {} /\ q.due = Nothing
    /\ Put(c, Finished(q))
    /\ UNCHANGED books

-----------------------------------------------------------------------------
(* Around the calls.                                                       *)

\* The process dies: what is committed stays, what was to follow does not.
Crash ==
    /\ \E c \in Calls : call[c].pc \notin {"idle", "done"}
    /\ call' = [c \in Calls |-> IF call[c].pc \in {"idle", "done"} THEN call[c]
                                ELSE Finished(call[c])]
    /\ UNCHANGED books

Edit == edits < MaxEdits /\ edits' = edits + 1

\* One write of both channels and every switch; a webhook is on only with an
\* address.  "once" remembers the thresholds that have never been off.
SetChannels(level, chosen, on) ==
    /\ Edit
    /\ alerts' = [alerts EXCEPT ![level] =
                    [channels |-> chosen, on |-> on, once |-> @.once \cap on]]
    /\ UNCHANGED <<call, catalog, spend, rows>>

SetTeamAlertConfig == \E new \in Settings("team") : SetChannels("team", new[1], new[2])
SetOrgAlertConfig == \E new \in Settings("org") : SetChannels("org", new[1], new[2])

\* A catalogue write reaches this process's caches.
Recatalogue(m) ==
    /\ Edit
    /\ m \notin Registry
    /\ catalog' \in {catalog \cup {m}, catalog \ {m}}
    /\ UNCHANGED <<call, spend, rows, alerts>>

MeterNext ==
    \/ \E c \in Calls :
          \/ ChatCompletion(c) \/ Completion(c) \/ Embeddings(c)
          \/ ServeHit(c) \/ RefuseCall(c)
          \/ Answer(c) \/ OpenStream(c) \/ AwaitFirst(c) \/ Pull(c) \/ Relay(c) \/ EndStream(c)
          \/ ClientLeaves(c) \/ Abandon(c)
          \/ Charge(c) \/ ChargeOrg(c) \/ Log(c) \/ LogDegradationEvent(c)
          \/ LoadAlerts(c) \/ SendAlert(c) \/ TasksDone(c)
    \/ Crash
    \/ SetTeamAlertConfig \/ SetOrgAlertConfig
    \/ \E m \in Models : Recatalogue(m)

MeterSpec == MeterInit /\ [][MeterNext]_meterVars

-----------------------------------------------------------------------------
(* Properties.                                                             *)

\* record_usage_charge, then record_usage_log: a call has at most one row; a row
\* marked ok costs exactly what both counters took for that call, which was
\* committed at both levels although it may be 0, or nothing for a stored answer,
\* which was charged nowhere; and a row marked anything else has no cost.
RowsMatchCharges ==
    \A i \in DOMAIN rows :
        LET r == rows[i]
            q == call[r.call]
        IN /\ \A j \in DOMAIN rows : rows[j].call = r.call => j = i
           /\ IF r.status = "ok"
              THEN /\ r.cost = q.charged /\ q.orgCharged = q.charged
                   /\ q.taken = (IF r.hit THEN {} ELSE Levels) /\ (r.hit => r.cost = 0)
              ELSE r.cost = Absent

\* The post-ship fix of _handle: a call whose provider reported usage reaches its
\* log with its cost committed at both levels, unless the charge failed or the client had left.
NoFreeAnswer ==
    \A c \in Calls :
        LET q == call[c] IN
        q.pc = "log" /\ q.reported /\ q.broken = "no"
            => \/ q.taken = Levels /\ q.orgCharged = q.charged
               \/ q.status \in {"charge_failed", "internal_error", "client_disconnected"}

\* "[DONE] received" means the client got all of it: the finish frame came and
\* no chunk with choices was withheld.  Excused are the two endings the
\* gateway cannot tell from a complete one: a provider that closes early, and
\* one that reports its error in the place of a chunk.
DoneMeansComplete ==
    \A c \in Calls :
        call[c].done => /\ ~call[c].lost
                        /\ call[c].whole \/ call[c].broken \in {"short", "other"}

\* Threshold alerts: a threshold is crossed by no two calls, by none while the
\* counter is below it, and by one once it is past, unless it was switched off
\* meanwhile; and a round of alerts that is over has tried every channel found
\* enabled, for every threshold it was about.
AlertsOnce ==
    /\ \A l \in Levels : \A pct \in Thresholds(l) :
          LET crossers == Cardinality({c \in Calls : pct \in call[c].crossed[l]})
              past == Ceiling[l] > 0 /\ 100 * spend[l] >= pct * Ceiling[l]
          IN  crossers <= 1 /\ (crossers = 1 => past) /\ (past /\ pct \in alerts[l].once => crossers = 1)
    /\ \A c \in Calls : call[c].plan = {} => call[c].tried = call[c].owed
=============================================================================
