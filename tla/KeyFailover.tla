----------------------------- MODULE KeyFailover -----------------------------
(***************************************************************************)
(* The keys of one provider: their rows, the health state the gateway      *)
(* keeps of each in the shared store, the requests that choose a key,      *)
(* call and fail over, the health checks of the scheduler and the console, *)
(* and the administrators who add, rotate, configure, group and delete     *)
(* keys meanwhile.                                                         *)
(*                                                                         *)
(* record_failure reads the state and writes it back, two calls to the     *)
(* store: with Redis another request runs between them.  A credential is   *)
(* the version of its row; whether the provider accepts an outdated one is *)
(* open.  `fails` is history: the failures seen at each time, forgotten    *)
(* when a success that races with no failure is recorded.                  *)
(***************************************************************************)
EXTENDS Naturals, FiniteSets, FiniteSetsExt

CONSTANTS
    Keys,           \* ids of key rows, each used once
    Label,          \* the label each id is created under
    Requests, Admins, Teams, None,
    Window,         \* DEFAULT_FAILURE_WINDOW_SECONDS, in ticks
    DownThreshold,  \* DEFAULT_DOWN_THRESHOLD
    InitialTables,  \* the tables of keys a start may find
    MaxTime, MaxWrites, MaxFaults    \* bounds

Time == 0..MaxTime
Versions == 0..MaxWrites
Row == [primary : BOOLEAN, enabled : BOOLEAN, target : Keys \cup {None},
        group : BOOLEAN, version : Versions]
\* Failures beyond the threshold are not told apart.
Health == [failures : 0..DownThreshold, since : Time]

\* At most one key is primary, and a target is another key that exists.
Consistent(rows) ==
    LET live == {k \in Keys : rows[k] # None} IN
    /\ \A k, l \in live : rows[k].primary /\ rows[l].primary => k = l
    /\ \A k \in live : rows[k].target \in (live \ {k}) \cup {None}

ASSUME FailoverAssumption ==
    /\ IsFiniteSet(Keys) /\ DOMAIN Label = Keys
    /\ None \notin Keys \cup Teams \cup Row /\ None \notin [Time -> 0..DownThreshold]
    /\ Window \in Nat /\ DownThreshold \in Nat \ {0}
    /\ MaxTime \in Nat /\ MaxWrites \in Nat /\ MaxFaults \in Nat
    /\ InitialTables \subseteq [Keys -> Row \cup {None}]
    /\ \A rows \in InitialTables : Consistent(rows)

VARIABLES
    row,       \* provider_keys
    health,    \* health:{id} in the shared store
    optedOut,  \* TeamFailoverOverrideCache
    req, checker, admin,
    outage,    \* keys whose current credential the provider rejects
    now, writes, faults, fails

keyVars == <<row, writes>>
healthVars == <<health, fails>>
vars == <<keyVars, healthVars, optedOut, req, checker, admin, outage, now, faults>>

OneMore(n, cap) == IF n < cap THEN n + 1 ELSE cap

Live == {k \in Keys : row[k] # None}
Primaries == {k \in Live : row[k].primary}
Unused == {k \in Keys : fails[k] = None}
Noted == [t \in Time |-> 0]

\* _status_for
Status(k) == IF health[k] = None \/ health[k].failures = 0 THEN "healthy"
             ELSE IF health[k].failures >= DownThreshold THEN "down" ELSE "degraded"

\* A request or checker that read a key's health and has not written it back.
Recording(k) == \/ \E r \in Requests : req[r].pc \in {"record", "rerecord"} /\ req[r].key = k
                \/ checker.pc = "record" /\ checker.key = k

\* record_failure up to its read, for a caller that keeps what it saw.
ReadHealth(k) == fails' = [fails EXCEPT ![k][now] = OneMore(@, DownThreshold)]

\* Faulty: a failure counts however old the window is.
Failed_NoWindow(saw, at) ==
    IF saw # None THEN [saw EXCEPT !.failures = OneMore(@, DownThreshold)]
    ELSE [failures |-> 1, since |-> at]

\* The state record_failure writes: what it saw counts while its window is open.
Failed(saw, at) ==
    IF saw # None /\ at <= saw.since + Window
    THEN [saw EXCEPT !.failures = OneMore(@, DownThreshold)]
    ELSE [failures |-> 1, since |-> at]

RecordSuccess(k) ==
    /\ health' = [health EXCEPT ![k] = [failures |-> 0, since |-> now]]
    /\ fails' = IF Recording(k) THEN fails ELSE [fails EXCEPT ![k] = Noted]

\* What the provider may do with credential v of key k.
Accepts(k, v) == ~ (row[k] # None /\ row[k].version = v /\ k \in outage)
Rejects(k, v) == ~ (row[k] # None /\ row[k].version = v /\ k \notin outage)

Outcomes == {"unconfigured", "answered", "failed"}
Idle(outcome) == [pc |-> outcome, key |-> None, from |-> None, target |-> None,
                  applies |-> FALSE, version |-> 0, saw |-> None, at |-> 0]
Resting == [pc |-> "rest", todo |-> {}, seen |-> [k \in Keys |-> 0],
            key |-> None, saw |-> None, at |-> 0]
NoCall == [pc |-> "rest", label |-> None, first |-> FALSE]

-----------------------------------------------------------------------------
(* Requests: call_provider_with_failover *)

\* get_primary_key, then resolve_failover_opt_in: the key and the team both allow it.
ReadPrimary(r) ==
    /\ req[r].pc \in Outcomes
    /\ \/ /\ Primaries = {}
          /\ req' = [req EXCEPT ![r] = Idle("unconfigured")]
       \/ \E k \in Primaries, t \in Teams \cup {None} :
            req' = [req EXCEPT ![r] =
                [Idle("choose") EXCEPT !.key = k, !.target = row[k].target,
                    !.version = row[k].version,
                    !.applies = row[k].enabled /\ (t # None => ~optedOut[t])]]
    /\ UNCHANGED <<keyVars, healthVars, optedOut, checker, admin, outage, now, faults>>

\* A primary known to be down is passed over, when its backup is still there.
SkipsPrimary(q) == /\ q.applies /\ q.target # None
                   /\ Status(q.key) = "down" /\ row[q.target] # None

SelectProviderKey(r) ==
    LET q == req[r] IN
    /\ q.pc = "choose"
    /\ req' = [req EXCEPT ![r] =
          IF SkipsPrimary(q)
          THEN [q EXCEPT !.pc = "call", !.key = q.target, !.version = row[q.target].version,
                   !.applies = FALSE, !.target = None]    \* not the primary: no second hop
          ELSE [q EXCEPT !.pc = "call"]]
    /\ UNCHANGED <<keyVars, healthVars, optedOut, checker, admin, outage, now, faults>>

\* The provider answers: the key's health is reset; a retry has its event to write.
CallSucceeds(r) ==
    LET q == req[r] IN
    /\ q.pc \in {"call", "retry"}
    /\ Accepts(q.key, q.version)
    /\ RecordSuccess(q.key)
    /\ req' = [req EXCEPT ![r] = IF q.pc = "call" THEN Idle("answered")
                                 ELSE [q EXCEPT !.pc = "event"]]
    /\ UNCHANGED <<keyVars, optedOut, checker, admin, outage, now, faults>>

\* ProviderCallError: record_failure reads the key's health.
CallFails(r) ==
    LET q == req[r] IN
    /\ q.pc \in {"call", "retry"}
    /\ Rejects(q.key, q.version)
    /\ ReadHealth(q.key)
    /\ req' = [req EXCEPT ![r].pc = IF q.pc = "call" THEN "record" ELSE "rerecord",
                          ![r].saw = health[q.key], ![r].at = now]
    /\ UNCHANGED <<keyVars, health, optedOut, checker, admin, outage, now, faults>>

\* Any other exception passes through and touches no health state.
CallUnsupported(r) ==
    /\ req[r].pc \in {"call", "retry"}
    /\ req' = [req EXCEPT ![r] = Idle("failed")]
    /\ UNCHANGED <<keyVars, healthVars, optedOut, checker, admin, outage, now, faults>>

\* record_failure writes, and the backup named when the primary was read is
\* fetched for the one retry.
RecordFailure(r) ==
    LET q == req[r]
        retries == q.pc = "record" /\ q.applies /\ q.target # None /\ row[q.target] # None
    IN
    /\ q.pc \in {"record", "rerecord"}
    /\ health' = [health EXCEPT ![q.key] = Failed(q.saw, q.at)]
    /\ req' = [req EXCEPT ![r] =
          IF retries
          THEN [Idle("retry") EXCEPT !.from = q.key, !.key = q.target,
                    !.version = row[q.target].version]
          ELSE Idle("failed")]
    /\ UNCHANGED <<keyVars, fails, optedOut, checker, admin, outage, now, faults>>

\* The failover event references both keys: one deleted meanwhile fails the
\* commit, and the request with it.
WriteEvent(r) ==
    LET q == req[r] IN
    /\ q.pc = "event"
    /\ req' = [req EXCEPT ![r] =
          Idle(IF {q.from, q.key} \subseteq Live THEN "answered" ELSE "failed")]
    /\ UNCHANGED <<keyVars, healthVars, optedOut, checker, admin, outage, now, faults>>

\* A call to the shared store raises and the request ends, answered or not.
StoreFails(r) ==
    LET q == req[r] IN
    /\ faults < MaxFaults
    /\ \/ q.pc = "choose" /\ q.applies /\ q.target # None
       \/ q.pc \in {"call", "retry", "record", "rerecord"}
    /\ faults' = faults + 1
    /\ req' = [req EXCEPT ![r] = Idle("failed")]
    /\ UNCHANGED <<keyVars, healthVars, optedOut, checker, admin, outage, now>>

RequestStep(r) == \/ ReadPrimary(r) \/ SelectProviderKey(r) \/ CallSucceeds(r) \/ CallFails(r)
                  \/ CallUnsupported(r) \/ RecordFailure(r) \/ WriteEvent(r) \/ StoreFails(r)

-----------------------------------------------------------------------------
(* Health checks *)

\* Faulty: only primaries are checked.
StartSweep_Primaries ==
    LET due == {k \in Primaries : row[k].group} IN
    /\ checker.pc = "rest"
    /\ due # {}
    /\ checker' = [Resting EXCEPT !.pc = "check", !.todo = due]
    /\ UNCHANGED <<keyVars, healthVars, optedOut, req, admin, outage, now, faults>>

\* The scheduler's sweep loads every key in a backup group, credentials too.
StartSweep ==
    LET due == {k \in Live : row[k].group} IN
    /\ checker.pc = "rest"
    /\ due # {}
    /\ checker' = [Resting EXCEPT !.pc = "check", !.todo = due,
                       !.seen = [k \in Keys |-> IF k \in due THEN row[k].version ELSE 0]]
    /\ UNCHANGED <<keyVars, healthVars, optedOut, req, admin, outage, now, faults>>

After(k) == LET left == checker.todo \ {k}
            IN IF left = {} THEN Resting
               ELSE [checker EXCEPT !.pc = "check", !.todo = left, !.key = None,
                                    !.saw = None, !.at = 0]

\* refresh_single_provider_key_health: the stored credential is validated ...
CheckPasses ==
    /\ checker.pc = "check"
    /\ \E k \in checker.todo :
         /\ Accepts(k, checker.seen[k])
         /\ RecordSuccess(k)
         /\ checker' = After(k)
    /\ UNCHANGED <<keyVars, optedOut, req, admin, outage, now, faults>>

CheckFailing(k) ==
    /\ ReadHealth(k)
    /\ checker' = [checker EXCEPT !.pc = "record", !.key = k,
                                  !.saw = health[k], !.at = now]

CheckFails ==
    /\ checker.pc = "check"
    /\ \E k \in checker.todo : Rejects(k, checker.seen[k]) /\ CheckFailing(k)
    /\ UNCHANGED <<keyVars, health, optedOut, req, admin, outage, now, faults>>

RecordCheck ==
    LET k == checker.key IN
    /\ checker.pc = "record"
    /\ health' = [health EXCEPT ![k] = Failed(checker.saw, checker.at)]
    /\ checker' = After(k)
    /\ UNCHANGED <<keyVars, fails, optedOut, req, admin, outage, now, faults>>

\* ... and a store that raises while the outcome is recorded lands in the
\* handler that records a failure, or raises there too and ends the sweep.
StoreFailsCheck ==
    /\ faults < MaxFaults
    /\ faults' = faults + 1
    /\ \/ /\ checker.pc = "check"
          /\ \E k \in checker.todo : CheckFailing(k)
       \/ /\ checker.pc = "record"
          /\ CheckFailing(checker.key)
       \/ /\ checker.pc \in {"check", "record"}
          /\ checker' = Resting
          /\ UNCHANGED fails
    /\ UNCHANGED <<keyVars, health, optedOut, req, admin, outage, now>>

\* The console's check of one key, the same function on a row just read; its
\* read and write of the state are one step here, the sweep's are two.
CheckFromConsole ==
    /\ \E k \in Live :
         \/ /\ Accepts(k, row[k].version)
            /\ RecordSuccess(k)
         \/ /\ Rejects(k, row[k].version)
            /\ ReadHealth(k)
            /\ health' = [health EXCEPT ![k] = Failed(health[k], now)]
    /\ UNCHANGED <<keyVars, optedOut, req, checker, admin, outage, now, faults>>

CheckStep == CheckPasses \/ CheckFails \/ RecordCheck

-----------------------------------------------------------------------------
(* Administrators *)

WritesLeft == writes < MaxWrites
Counted == writes' = writes + 1
Calling(a, call) == admin' = [admin EXCEPT ![a] = call]
OnlyKeys == UNCHANGED <<health, optedOut, req, checker, outage, now, faults>>

\* add_or_replace_key validates, then counts: the provider's first key is primary.
PutProviderKey(a) ==
    /\ admin[a].pc = "rest" /\ WritesLeft /\ Counted
    /\ \E k \in Keys : Calling(a, [NoCall EXCEPT !.pc = "upsert", !.label = Label[k],
                                                 !.first = Live = {}])
    /\ UNCHANGED <<row, fails>> /\ OnlyKeys

\* Faulty: the partial unique index on the primary is missing.
SecondPrimary_Unnoticed(first) == FALSE

\* Two first keys that each counted none: the unique index refuses the later.
SecondPrimary(first) == first /\ Primaries # {}

\* The upsert on the label.  It names no backup group, so a key it replaces
\* leaves its group; an insert that would be a second primary is refused.
Upsert(a) ==
    LET first == admin[a].first IN
    /\ admin[a].pc = "upsert"
    /\ \/ \E k \in Live :
            /\ Label[k] = admin[a].label
            /\ row' = [row EXCEPT ![k].version = OneMore(@, MaxWrites), ![k].group = FALSE]
            /\ UNCHANGED fails
       \/ /\ \A k \in Live : Label[k] # admin[a].label
          /\ IF SecondPrimary(first) THEN UNCHANGED <<row, fails>>
             ELSE \E k \in Unused :
                    /\ Label[k] = admin[a].label
                    /\ row' = [row EXCEPT ![k] =
                          [primary |-> first, enabled |-> FALSE, target |-> None,
                           group |-> FALSE, version |-> 0]]
                    /\ fails' = [fails EXCEPT ![k] = Noted]
       \/ /\ \A k \in Live \cup Unused : Label[k] # admin[a].label   \* out of ids
          /\ UNCHANGED <<row, fails>>
    /\ Calling(a, NoCall)
    /\ UNCHANGED writes /\ OnlyKeys

\* rotate_provider_key needs a primary, validates the new credential ...
RotateProviderKey(a) ==
    /\ admin[a].pc = "rest" /\ WritesLeft /\ Counted
    /\ Primaries # {}
    /\ Calling(a, [NoCall EXCEPT !.pc = "rotate"])
    /\ UNCHANGED <<row, fails>> /\ OnlyKeys

\* ... and updates the provider's rows, all of them: scalar_one raises unless
\* that is one row, and nothing is committed.
FinishRotation(a) ==
    /\ admin[a].pc = "rotate"
    /\ row' = IF Cardinality(Live) # 1 THEN row
              ELSE [k \in Keys |-> IF k \notin Live THEN None
                                   ELSE [row[k] EXCEPT !.version = OneMore(@, MaxWrites)]]
    /\ Calling(a, NoCall)
    /\ UNCHANGED <<writes, fails>> /\ OnlyKeys

\* The key and its target, another key of the provider, are looked up and the
\* row updated; one deleted in between leaves no row to update or breaks the
\* foreign key, and nothing changes.
SetFailoverConfig ==
    /\ WritesLeft /\ Counted
    /\ \E k \in Live, on \in BOOLEAN : \E t \in {None} \cup (Live \ {k}) :
         row' = [row EXCEPT ![k].enabled = on, ![k].target = t]
    /\ UNCHANGED <<admin, fails>> /\ OnlyKeys

\* A deleted key's references become null.
Without(gone) ==
    [k \in Keys |-> IF row[k] = None \/ k \in gone THEN None
                    ELSE [row[k] EXCEPT !.target = IF @ \in gone THEN None ELSE @]]

DeleteKeyById ==
    /\ WritesLeft /\ Counted
    /\ \E k \in Live : row' = Without({k})
    /\ UNCHANGED <<admin, fails>> /\ OnlyKeys

DeleteProvider ==
    /\ WritesLeft /\ Counted
    /\ Live # {}
    /\ row' = Without(Live)
    /\ UNCHANGED <<admin, fails>> /\ OnlyKeys

\* The keys a new backup group names join it one commit at a time: a call that
\* names several is several of these.
CreateBackupGroup ==
    /\ WritesLeft /\ Counted
    /\ \E k \in Live : row' = [row EXCEPT ![k].group = TRUE]
    /\ UNCHANGED <<admin, fails>> /\ OnlyKeys

DeleteBackupGroup ==
    /\ WritesLeft /\ Counted
    /\ \E ks \in SUBSET {k \in Live : row[k].group} :
         /\ ks # {}
         /\ row' = [k \in Keys |-> IF k \in ks THEN [row[k] EXCEPT !.group = FALSE] ELSE row[k]]
    /\ UNCHANGED <<admin, fails>> /\ OnlyKeys

\* The override is committed, then put in the cache the gateway reads.
SetTeamOverride ==
    /\ WritesLeft /\ Counted
    /\ \E t \in Teams, off \in BOOLEAN : optedOut' = [optedOut EXCEPT ![t] = off]
    /\ UNCHANGED <<row, healthVars, req, checker, admin, outage, now, faults>>

AdminStep ==
    \/ \E a \in Admins : \/ PutProviderKey(a) \/ Upsert(a)
                         \/ RotateProviderKey(a) \/ FinishRotation(a)
    \/ SetFailoverConfig \/ DeleteKeyById \/ DeleteProvider
    \/ CreateBackupGroup \/ DeleteBackupGroup \/ SetTeamOverride

-----------------------------------------------------------------------------
(* The provider's side *)

Outage(k) ==
    /\ faults < MaxFaults
    /\ faults' = faults + 1
    /\ outage' = outage \cup {k}
    /\ UNCHANGED <<keyVars, healthVars, optedOut, req, checker, admin, now>>

Recover(k) ==
    /\ k \in outage
    /\ outage' = outage \ {k}
    /\ UNCHANGED <<keyVars, healthVars, optedOut, req, checker, admin, now, faults>>

Tick ==
    /\ now < MaxTime
    /\ now' = now + 1
    /\ UNCHANGED <<keyVars, healthVars, optedOut, req, checker, admin, outage, faults>>

-----------------------------------------------------------------------------
\* A key that is configured at the start counts as a write.
Init ==
    /\ row \in InitialTables
    /\ health = [k \in Keys |-> None]
    /\ optedOut = [t \in Teams |-> FALSE]
    /\ req = [r \in Requests |-> Idle("answered")]
    /\ checker = Resting
    /\ admin = [a \in Admins |-> NoCall]
    /\ outage = {}
    /\ now = 0 /\ writes = Cardinality(Live) /\ faults = 0
    /\ fails = [k \in Keys |-> IF row[k] = None THEN None ELSE Noted]

Next == \/ \E r \in Requests : RequestStep(r)
        \/ StartSweep
        \/ CheckStep \/ StoreFailsCheck \/ CheckFromConsole
        \/ AdminStep
        \/ \E k \in Keys : Outage(k) \/ Recover(k)
        \/ Tick

\* The scheduler polls for as long as the process runs.
Fairness == WF_vars(StartSweep) /\ WF_vars(CheckStep)

Spec == Init /\ [][Next]_vars
FairSpec == Spec /\ Fairness

-----------------------------------------------------------------------------
(* Properties *)

\* However puts, deletes and configurations interleave between their reads and
\* their writes, two first keys at once among them, the provider has at most one primary and no key fails over to
\* itself or to a key that is gone (provider_keys.py's checks and the schema).
KeysConsistent == Consistent(row)

\* A key is only "down", and traffic steered away from it, on that many
\* failures inside the window that is open, with no success in between but
\* one that raced with a failure (record_failure is a read and a write).
WindowOf(k) == {t \in Time : health[k].since <= t /\ t <= health[k].since + Window}
DownIsEarned ==
    \A k \in Keys : Status(k) = "down" =>
        SumFunctionOnSet(fails[k], WindowOf(k)) >= DownThreshold

\* A key that is down gets no traffic that could show it recovered: in a backup
\* group the sweep notices, once its credential is accepted for good.
DownKeyRecovers ==
    \A k \in Keys :
        <>[](k \in Live /\ row[k].group /\ k \notin outage) => <>[](Status(k) # "down")

=============================================================================
