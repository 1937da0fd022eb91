------------------------------ MODULE RateLimit ------------------------------
(***************************************************************************)
(* Rate limits: the rules of the organisation, of teams and of users, the  *)
(* counters of the shared store that requests consume and tokens are       *)
(* charged to, and the requests that wait for a limit to clear.            *)
(*                                                                         *)
(* A request resolves its rules once per attempt from the cache of this    *)
(* process and then makes one call to the store per limit, between which   *)
(* other requests run; every call to the store is atomic.  A counter       *)
(* starts its window when it is created.  A meter is what a rule limits: a *)
(* team for a team's rule, a user for the others.  `passed` is history:    *)
(* how many requests a meter's rule let pass at each time.                 *)
(***************************************************************************)
EXTENDS Naturals, Sequences, FiniteSets, FiniteSetsExt, Functions

CONSTANTS
    Users, Teams,
    UserTeams,      \* the (user, team) pairs that call; the team may be None
    Calls,          \* requests in flight at once
    Admins, None,
    Org,            \* the scope of the organisation's default per user
    Rules,          \* the limits an administrator types
    InitialRule,
    Writable,       \* the scopes whose rules change in this instance
    Window,         \* _WINDOW_SECONDS, in ticks
    MaxPolls,       \* max_queue_wait_seconds over the poll interval
    TokensUsed,     \* what an answer may cost
    MaxTime, MaxWrites,
    MaxFaults       \* bounds; the last of store faults and restarts together

Time == 0..MaxTime
Scopes == {Org} \cup Teams \cup Users
Limits == Nat \cup {None}
Axes == {"requests", "tokens"}
RateLimitRules == [requests : Limits, tokens : Limits, queue : BOOLEAN]

\* A rule limits requests, tokens or both.
ValidRule(rule) == rule.requests # None \/ rule.tokens # None

ASSUME RateAssumption ==
    /\ UserTeams \subseteq Users \X (Teams \cup {None})
    /\ IsFiniteSet(Rules) /\ Rules \subseteq RateLimitRules /\ \A rule \in Rules : ValidRule(rule)
    /\ Writable \subseteq Scopes
    /\ InitialRule \in [Scopes -> Rules \cup {None}]
    /\ None \notin Scopes \cup Rules \cup [count : Nat, until : Nat]
    /\ Org \notin Users \cup Teams
    /\ Window \in Nat \ {0} /\ MaxPolls \in Nat /\ TokensUsed \subseteq Nat
    /\ MaxTime \in Nat /\ MaxWrites \in Nat /\ MaxFaults \in Nat

\* Whom a rule of scope s meters when user u calls.
Meters == (Teams \X {None}) \cup ((Users \cup {Org}) \X Users)
Meter(s, u) == IF s \in Teams THEN <<s, None>> ELSE <<s, u>>
Keys == Meters \X Axes

VARIABLES
    rule, cached,      \* rate_limit_rules and RateLimitCache
    counter,           \* the counters of the shared store
    call, admin, clock, writes, faults, restarts, passed

ruleVars == <<rule, cached, admin, writes>>
limitVars == <<ruleVars, counter, call, clock, faults, restarts, passed>>

Idle == [scope |-> None, value |-> None]
Rest(outcome) == [pc |-> outcome, user |-> None, team |-> None, todo |-> <<>>,
                  queued |-> FALSE, polls |-> 0]
Outcomes == {"rest", "refused"}    \* refused: 429, and its event is written

LimitInit ==
    /\ rule = InitialRule /\ cached = InitialRule
    /\ counter = [k \in Keys |-> None]
    /\ call = [r \in Calls |-> Rest("rest")]
    /\ admin = [a \in Admins |-> Idle]
    /\ clock = 0 /\ writes = 0 /\ faults = 0 /\ restarts = 0
    /\ passed = [m \in Meters |-> [t \in Time |-> 0]]

-----------------------------------------------------------------------------
(* The counters of the shared store.                                       *)

Live(k) == counter[k] # None /\ clock < counter[k].until
GetInt(k) == IF Live(k) THEN counter[k].count ELSE 0

\* A new counter, or one whose window is over, starts a window of its own.
IncrBy(k, amount) ==
    counter' = [counter EXCEPT ![k] =
        [count |-> GetInt(k) + amount, until |-> IF Live(k) THEN @.until ELSE clock + Window]]

\* Increments unless the limit is reached, in one call.
TryConsume(k, limit) ==
    IF GetInt(k) >= limit THEN UNCHANGED counter ELSE IncrBy(k, 1)

-----------------------------------------------------------------------------
(* Requests.                                                               *)

\* The team's rule, or else the organisation's default.
PoolScope(t) == IF t # None /\ cached[t] # None THEN t ELSE Org

\* Faulty: a team's counter is kept for each of its users.
PoolKey_PerUser(s, u, axis) == <<<<Org, u>>, axis>>

\* A team shares one counter; the organisation's default has one per user.
PoolKey(s, u, axis) == <<Meter(s, u), axis>>
PersonalKey(u, axis) == <<Meter(u, u), axis>>

\* The store calls that one rule asks for, requests before tokens.
Limit(s, key, axis, limit) ==
    IF cached[s] = None \/ limit = None THEN <<>>
    ELSE <<[scope |-> s, key |-> key, axis |-> axis, limit |-> limit,
            queue |-> cached[s].queue]>>
LimitsOf(s, axis) == IF cached[s] = None THEN None ELSE cached[s][axis]

PoolLimit(u, t, axis) ==
    LET s == PoolScope(t) IN Limit(s, PoolKey(s, u, axis), axis, LimitsOf(s, axis))
OwnLimit(u, axis) == Limit(u, PersonalKey(u, axis), axis, LimitsOf(u, axis))

\* check_and_consume_rate_limit: the pool's limits, then the user's.
Checks(u, t) ==
    PoolLimit(u, t, "requests") \o PoolLimit(u, t, "tokens")
        \o OwnLimit(u, "requests") \o OwnLimit(u, "tokens")

\* record_tokens looks the rules up again: they may have changed.
Charges(u, t) == PoolLimit(u, t, "tokens") \o OwnLimit(u, "tokens")

\* A request that has these store calls left: without one, its limits have all
\* passed, or its tokens are charged.
Left(q, todo) ==
    IF todo # <<>> THEN [q EXCEPT !.todo = todo]
    ELSE IF q.pc = "check" THEN [q EXCEPT !.pc = "call", !.todo = <<>>] ELSE Rest("rest")

Attempt(q) == Left([q EXCEPT !.pc = "check"], Checks(q.user, q.team))

CheckRateLimit(r, u, t) ==
    /\ call[r].pc \in Outcomes
    /\ call' = [call EXCEPT ![r] = Attempt([Rest("rest") EXCEPT !.user = u, !.team = t])]
    /\ UNCHANGED <<ruleVars, counter, clock, faults, restarts, passed>>

Passes(c) == GetInt(c.key) < c.limit

\* The next limit: requests are consumed, tokens only read.
PassLimit(r) ==
    LET q == call[r]  c == Head(q.todo) IN
    /\ q.pc = "check" /\ Passes(c)
    /\ IF c.axis = "requests"
       THEN /\ TryConsume(c.key, c.limit)
            /\ passed' = [passed EXCEPT ![Meter(c.scope, q.user)][clock] = @ + 1]
       ELSE UNCHANGED <<counter, passed>>
    /\ call' = [call EXCEPT ![r] = Left(q, Tail(q.todo))]
    /\ UNCHANGED <<ruleVars, clock, faults, restarts>>

\* The first limit that trips ends the attempt: what it consumed stays consumed.
\* A queued request stays queued whatever the rule that trips it now says.
TripLimit(r) ==
    LET q == call[r]  c == Head(q.todo) IN
    /\ q.pc = "check" /\ ~Passes(c)
    /\ call' = [call EXCEPT ![r] =
          IF q.queued THEN [q EXCEPT !.pc = "queue", !.todo = <<>>]
          ELSE IF c.queue
               THEN [q EXCEPT !.pc = "queue", !.todo = <<>>, !.queued = TRUE, !.polls = MaxPolls]
               ELSE Rest("refused")]
    /\ UNCHANGED <<ruleVars, counter, clock, faults, restarts, passed>>

\* Faulty: every poll waits the rule's time anew.
Poll_Anew(r) ==
    /\ call[r].pc = "queue"
    /\ call' = [call EXCEPT ![r] =
          IF call[r].polls = 0 THEN Rest("refused")
          ELSE [Attempt(call[r]) EXCEPT !.polls = MaxPolls]]
    /\ UNCHANGED <<ruleVars, counter, clock, faults, restarts, passed>>

\* Until its deadline a queued request tries again, with the rules as they are.
Poll(r) ==
    /\ call[r].pc = "queue"
    /\ call' = [call EXCEPT ![r] =
          IF call[r].polls = 0 THEN Rest("refused")
          ELSE [Attempt(call[r]) EXCEPT !.polls = @ - 1]]
    /\ UNCHANGED <<ruleVars, counter, clock, faults, restarts, passed>>

\* The provider answers, and the tokens are charged one counter at a time; or it fails.
Answer(r) ==
    /\ call[r].pc = "call"
    /\ \/ call' = [call EXCEPT ![r] = Rest("rest")]
       \/ call' = [call EXCEPT ![r] =
              Left([@ EXCEPT !.pc = "charge"], Charges(@.user, @.team))]
    /\ UNCHANGED <<ruleVars, counter, clock, faults, restarts, passed>>

RecordTokenUsage(r) ==
    LET q == call[r] IN
    /\ q.pc = "charge"
    /\ \E n \in TokensUsed : IncrBy(Head(q.todo).key, n)
    /\ call' = [call EXCEPT ![r] = Left(q, Tail(q.todo))]
    /\ UNCHANGED <<ruleVars, clock, faults, restarts, passed>>

\* The store fails: a limit passes unconsumed, what is left to charge is dropped.
StoreFails(r) ==
    LET q == call[r] IN
    /\ faults + restarts < MaxFaults /\ q.todo # <<>>
    /\ call' = [call EXCEPT ![r] =
          IF q.pc = "check" THEN Left(q, Tail(q.todo)) ELSE Rest("rest")]
    /\ faults' = faults + 1
    /\ UNCHANGED <<ruleVars, counter, clock, restarts, passed>>

-----------------------------------------------------------------------------
(* Administrators, the clock, and restarts.                                *)

WriteRule(a, s, value) ==
    /\ admin[a] = Idle /\ writes < MaxWrites
    /\ rule' = [rule EXCEPT ![s] = value]
    /\ admin' = [admin EXCEPT ![a] = [scope |-> s, value |-> value]]
    /\ writes' = writes + 1
    /\ UNCHANGED <<cached, counter, call, clock, faults, restarts, passed>>

\* One rule per scope: a second one is refused.
InsertRule(a, s, value) == rule[s] = None /\ WriteRule(a, s, value)
DeleteRule(a, s) == rule[s] # None /\ WriteRule(a, s, None)
UpdateRule(a, s, value) == rule[s] # None /\ rule[s] # value /\ WriteRule(a, s, value)

\* The cache replaces or drops the rule of one scope.
SetRule(s, value) == cached' = [cached EXCEPT ![s] = value]

\* After the commit the cache is set to what was written.
RefreshCache(a) ==
    /\ admin[a] # Idle
    /\ SetRule(admin[a].scope, admin[a].value)
    /\ admin' = [admin EXCEPT ![a] = Idle]
    /\ UNCHANGED <<rule, writes, counter, call, clock, faults, restarts, passed>>

ClockTick ==
    /\ clock < MaxTime
    /\ clock' = clock + 1
    /\ UNCHANGED <<ruleVars, counter, call, faults, restarts, passed>>

\* The process starts again, with the counters lost or kept in Redis; a warm-up
\* that fails leaves no limit at all.
Restart ==
    /\ faults + restarts < MaxFaults
    /\ restarts' = restarts + 1
    /\ cached' \in {rule, [s \in Scopes |-> None]}
    /\ counter' \in {counter, [k \in Keys |-> None]}
    /\ call' = [r \in Calls |-> Rest("rest")]
    /\ admin' = [a \in Admins |-> Idle]
    /\ UNCHANGED <<rule, writes, clock, faults, passed>>

Step(r) == PassLimit(r) \/ TripLimit(r) \/ Poll(r) \/ Answer(r)
           \/ RecordTokenUsage(r) \/ StoreFails(r)

LimitNext ==
    \/ \E r \in Calls : Step(r) \/ \E c \in UserTeams : CheckRateLimit(r, c[1], c[2])
    \/ \E a \in Admins :
          \/ RefreshCache(a)
          \/ \E s \in Writable :
                \/ DeleteRule(a, s)
                \/ \E value \in Rules : InsertRule(a, s, value) \/ UpdateRule(a, s, value)
    \/ ClockTick \/ Restart

LimitSpec == LimitInit /\ [][LimitNext]_limitVars

\* A request that has begun goes on: the store, the provider and the sleep of a
\* poll return.
FairSpec == LimitSpec /\ \A r \in Calls : WF_limitVars(Step(r))

-----------------------------------------------------------------------------
(* Properties.                                                             *)

\* The most a scope's rule may be set to let pass in one window.
LargestLimit(s) ==
    Max({0} \cup {rl.requests : rl \in {x \in Rules \cup {InitialRule[s]} : x # None /\ x.requests # None}})

\* The times of one window's length that begins at t.
Stretch(t) == t..Min({t + Window - 1, MaxTime})

\* try_consume and _pool_rate_limit_key: whoever shares a limit and however
\* their calls interleave, a stretch of one window's length sees fewer requests
\* pass than two windows allow, and than one more for each time counters are lost.
BurstBounded ==
    \A m \in Meters, t \in Time :
        LET burst == SumFunctionOnSet(passed[m], Stretch(t)) IN
        burst = 0 \/ burst < (2 + restarts) * LargestLimit(m[1])

\* check_rate_limit: whatever the rules become, a request that waits is let
\* through or refused.
QueuedIsAnswered ==
    \A r \in Calls : call[r].pc = "queue" ~> call[r].pc \in Outcomes \cup {"call"}
=============================================================================
