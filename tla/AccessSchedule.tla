---------------------------- MODULE AccessSchedule ----------------------------
(***************************************************************************)
(* When a service account may call the gateway: the windows of the         *)
(* organisation, the team and the account, the holidays, the time zone,    *)
(* and the emergency overrides that let a call through outside them.       *)
(*                                                                         *)
(* The gateway decides from a cache of this process.  An administrator's   *)
(* request commits its row, then updates the cache: another one may commit *)
(* in between.  A restart warms the cache from the rows, or fails to and   *)
(* leaves it empty.  A slot is a layer or a day that may be a holiday.     *)
(* `excused` is history: the slots whose writers overlapped, or whose      *)
(* cache was never warmed.                                                 *)
(***************************************************************************)
EXTENDS Integers, FiniteSets

CONSTANTS
    Accounts, Teams, TeamOf,  \* service accounts, and the team of each, if any
    Days, HoursPerDay,        \* local dates, and hours in one
    Windows,                  \* the schedules an administrator types
    Zones,                    \* hours that local time is ahead of UTC
    Overrides,                \* ids of emergency_overrides
    Requests, Admins, Unset,
    Org, Zone,                \* the slots of the organisation and of its time zone
    InitialRow,
    MaxClock, MaxWrites, MaxRestarts    \* bounds

Clock == 0..MaxClock
Hours == 0..(HoursPerDay - 1)
Layers == {Org} \cup Teams \cup Accounts
Slots == Layers \cup Days
Ids == 0..MaxWrites       \* of holiday_dates rows, by creation
AccessSchedules == [enabled : BOOLEAN, days : SUBSET Days,
                    start : Hours \cup {Unset}, end : Hours \cup {Unset}]

\* AccessSchedulePutRequest: both hours or neither.
ValidWindow(w) == (w.start = Unset) = (w.end = Unset)

\* A layer has a schedule, a day the id of its holiday.
Values(s) == IF s \in Days THEN Ids ELSE Windows

ASSUME ScheduleAssumption ==
    /\ Days \subseteq Int /\ HoursPerDay \in Nat \ {0}
    /\ Windows \subseteq AccessSchedules /\ \A w \in Windows : ValidWindow(w)
    /\ TeamOf \in [Accounts -> Teams \cup {Unset}]
    /\ Zones \subseteq Nat /\ 0 \in Zones
    /\ Layers \cap Days = {} /\ Zone \notin Slots
    /\ Unset \notin Slots \cup Ids \cup Overrides /\ Unset \notin Windows
    /\ InitialRow = [s \in Slots |-> InitialRow[s]]
    /\ \A s \in Slots : InitialRow[s] \in Values(s) \cup {Unset}
    /\ MaxClock \in Nat /\ MaxWrites \in Nat /\ MaxRestarts \in Nat

VARIABLES
    row, zone,              \* access_schedules and holiday_dates; the settings' zone
    cache, cacheZone,       \* AccessScheduleCache
    override,               \* emergency_overrides
    req, admin, clock, writes, restarts, excused

scheduleVars == <<row, zone, cache, cacheZone, writes, excused>>
accessVars == <<scheduleVars, override, req, admin, clock, restarts>>

Idle == [pc |-> "idle", slot |-> Unset, value |-> Unset, seen |-> Unset]
Rest(outcome) == [pc |-> outcome, account |-> Unset, at |-> 0, by |-> Unset]
Outcomes == {"ready", "allowed", "blocked", "error"}

ScheduleInit ==
    /\ row = InitialRow /\ cache = InitialRow
    /\ zone = 0 /\ cacheZone = 0
    /\ override = [o \in Overrides |-> Unset]
    /\ req = [r \in Requests |-> Rest("ready")]
    /\ admin = [a \in Admins |-> Idle]
    /\ clock = 0 /\ writes = 0 /\ restarts = 0
    /\ excused = {}

-----------------------------------------------------------------------------
(* The decision.                                                           *)

\* Both ends count; a window that ends before it starts runs over midnight.
WithinHours(hour, start, end) ==
    start # Unset /\ end # Unset =>
        IF start <= end THEN start <= hour /\ hour <= end
        ELSE hour >= start \/ hour <= end

\* Is the schedule w, in a cache or table c of slots, open at UTC time t?
IsWithinSchedule(w, c, z, t) ==
    LET day == (t + z) \div HoursPerDay
        hour == (t + z) % HoursPerDay
    IN  w # Unset /\ w.enabled =>
            /\ day \notin {d \in Days : c[d] # Unset}
            /\ day \in w.days
            /\ WithinHours(hour, w.start, w.end)

LayersOf(a) == {Org, a} \cup ({TeamOf[a]} \ {Unset})

\* Faulty: the innermost enabled layer alone decides.
ScheduleAllows_Innermost(c, z, a, t) ==
    LET on(l) == c[l] # Unset /\ c[l].enabled
        layer == IF on(a) THEN a
                 ELSE IF TeamOf[a] # Unset /\ on(TeamOf[a]) THEN TeamOf[a] ELSE Org
    IN  IsWithinSchedule(c[layer], c, z, t)

\* Every enabled layer has to be open, not the innermost alone.
ScheduleAllows(c, z, a, t) == \A l \in LayersOf(a) : IsWithinSchedule(c[l], c, z, t)

\* check_access_schedule: the cache decides; a blocked call asks for an override.
CheckAccessSchedule(r, a) ==
    /\ req[r].pc \in Outcomes
    /\ req' = [req EXCEPT ![r] =
          IF ScheduleAllows(cache, cacheZone, a, clock)
          THEN [Rest("allowed") EXCEPT !.account = a, !.at = clock]
          ELSE [pc |-> "override", account |-> a, at |-> clock, by |-> Unset]]
    /\ UNCHANGED <<scheduleVars, override, admin, clock, restarts>>

ActiveOverrides(a, t) ==
    {o \in Overrides : /\ override[o] # Unset
                       /\ override[o].account = a
                       /\ ~override[o].revoked
                       /\ override[o].expires > t}

\* get_active_override expects at most one row; a block is audited, then raised.
GetActiveOverride(r) ==
    LET q == req[r]
        active == ActiveOverrides(q.account, q.at)
    IN  /\ q.pc = "override"
        /\ req' = [req EXCEPT ![r] =
              IF Cardinality(active) > 1 THEN Rest("error")
              ELSE IF active = {} THEN Rest("blocked")
              ELSE [q EXCEPT !.pc = "allowed", !.by = CHOOSE o \in active : TRUE]]
        /\ UNCHANGED <<scheduleVars, override, admin, clock, restarts>>

-----------------------------------------------------------------------------
(* Administrators: schedules, holidays and the time zone.                  *)

HoursSubset(w, p) ==
    p.start # Unset /\ p.end # Unset =>
        /\ w.start # Unset /\ w.end # Unset
        /\ w.start >= p.start /\ w.end <= p.end

NarrowsParent(w, p) == p # Unset => w.days \subseteq p.days /\ HoursSubset(w, p)

EnabledRow(l) == IF row[l] # Unset /\ row[l].enabled THEN row[l] ELSE Unset

\* The schedule that one of account a has to narrow: its team's, or the organisation's.
Parent(a) == IF TeamOf[a] # Unset /\ EnabledRow(TeamOf[a]) # Unset
             THEN EnabledRow(TeamOf[a]) ELSE EnabledRow(Org)

\* Some writer of s has committed and not reached the cache yet.
Committed(s) == \E a \in Admins : admin[a].pc = "cache" /\ admin[a].slot = s

Begin(a, pc, s, v) ==
    /\ admin[a].pc = "idle" /\ writes < MaxWrites
    /\ writes' = writes + 1
    /\ admin' = [admin EXCEPT ![a] = [pc |-> pc, slot |-> s, value |-> v, seen |-> row[s]]]
    /\ UNCHANGED <<row, zone, cache, cacheZone, excused, override, req, clock, restarts>>

\* The parent is read before the write, and may change until then.
PutOrgSchedule(a, w) == Begin(a, "write", Org, w)
PutTeamSchedule(a, t, w) == NarrowsParent(w, EnabledRow(Org)) /\ Begin(a, "write", t, w)
PutAccountSchedule(a, s, w) == NarrowsParent(w, Parent(s)) /\ Begin(a, "write", s, w)

\* A second row of one date violates its unique constraint at the commit.
AddHoliday(a, d) == row[d] = Unset /\ Begin(a, "write", d, writes + 1)

\* The handlers answer 404 when they find no row.
DeleteSchedule(a, l) == row[l] # Unset /\ Begin(a, "write", l, Unset)
DeleteHoliday(a, d) == row[d] # Unset /\ Begin(a, "write", d, Unset)

\* A holiday is deleted by the id that was read, a schedule by its scope.
DeletesNothing(k) == k.value = Unset /\ row[k.slot] # k.seen /\ k.slot \in Days
FindsNoRow(k) == k.value = Unset /\ k.slot \in Layers /\ row[k.slot] = Unset
Conflicts(k) == k.value # Unset /\ k.slot \in Days /\ row[k.slot] # Unset

\* A schedule's cache entry is dropped only by the delete that found the row.
Commit(a) ==
    LET k == admin[a] IN
    /\ k.pc = "write"
    /\ row' = IF Conflicts(k) \/ DeletesNothing(k) THEN row
              ELSE [row EXCEPT ![k.slot] = k.value]
    /\ admin' = [admin EXCEPT ![a] =
          IF Conflicts(k) \/ FindsNoRow(k)
          THEN Idle ELSE [k EXCEPT !.pc = "cache"]]
    /\ excused' = IF Committed(k.slot) \/ DeletesNothing(k)
                  THEN excused \cup {k.slot} ELSE excused
    /\ UNCHANGED <<zone, cache, cacheZone, writes, override, req, clock, restarts>>

\* Faulty: the upsert hands back the row the session read before it.
SetCache_StaleRow(a) ==
    LET k == admin[a] IN
    /\ k.pc = "cache"
    /\ cache' = [cache EXCEPT ![k.slot] = IF k.seen = Unset THEN k.value ELSE k.seen]
    /\ admin' = [admin EXCEPT ![a] = Idle]
    /\ UNCHANGED <<row, zone, cacheZone, writes, excused, override, req, clock, restarts>>

SetCache(a) ==
    LET k == admin[a] IN
    /\ k.pc = "cache"
    /\ cache' = [cache EXCEPT ![k.slot] = k.value]
    /\ admin' = [admin EXCEPT ![a] = Idle]
    /\ UNCHANGED <<row, zone, cacheZone, writes, excused, override, req, clock, restarts>>

\* set_compliance_settings: the zone is stored; nothing tells the cache.
SetZone(z) ==
    /\ writes < MaxWrites
    /\ z # zone
    /\ zone' = z
    /\ excused' = excused \cup {Zone}
    /\ writes' = writes + 1
    /\ UNCHANGED <<row, cache, cacheZone, override, req, admin, clock, restarts>>

-----------------------------------------------------------------------------
(* Emergency overrides, the clock, and restarts.                           *)

\* A team lead acts on the accounts of the team.
GrantOverride(o, a, t) ==
    /\ override[o] = Unset /\ TeamOf[a] # Unset
    /\ override' = [override EXCEPT ![o] = [account |-> a, expires |-> t, revoked |-> FALSE]]
    /\ UNCHANGED <<scheduleVars, req, admin, clock, restarts>>

RevokeOverride(o) ==
    /\ override[o] # Unset /\ ~override[o].revoked
    /\ override' = [override EXCEPT ![o].revoked = TRUE]
    /\ UNCHANGED <<scheduleVars, req, admin, clock, restarts>>

HourPasses ==
    /\ clock < MaxClock
    /\ clock' = clock + 1
    /\ UNCHANGED <<scheduleVars, override, req, admin, restarts>>

\* The process starts again and warms its cache; what it was doing is lost.
Warm ==
    \/ cache' = row /\ cacheZone' = zone /\ excused' = {}
    \/ /\ cache' = [s \in Slots |-> Unset] /\ cacheZone' = 0
       /\ excused' = Slots \cup {Zone}

Restart ==
    /\ restarts < MaxRestarts
    /\ restarts' = restarts + 1
    /\ Warm
    /\ req' = [r \in Requests |-> Rest("ready")]
    /\ admin' = [a \in Admins |-> Idle]
    /\ UNCHANGED <<row, zone, writes, override, clock>>

ScheduleNext ==
    \/ \E r \in Requests : GetActiveOverride(r) \/ \E a \in Accounts : CheckAccessSchedule(r, a)
    \/ \E a \in Admins :
          \/ \E w \in Windows :
                \/ PutOrgSchedule(a, w)
                \/ \E t \in Teams : PutTeamSchedule(a, t, w)
                \/ \E s \in Accounts : PutAccountSchedule(a, s, w)
          \/ \E l \in Layers : DeleteSchedule(a, l)
          \/ \E d \in Days : AddHoliday(a, d) \/ DeleteHoliday(a, d)
          \/ Commit(a) \/ SetCache(a)
    \/ \E z \in Zones : SetZone(z)
    \/ \E o \in Overrides : RevokeOverride(o) \/ \E a \in Accounts, t \in Clock : GrantOverride(o, a, t)
    \/ HourPasses \/ Restart

ScheduleSpec == ScheduleInit /\ [][ScheduleNext]_accessVars

-----------------------------------------------------------------------------
(* Properties.                                                             *)

Settled(s) == s \notin excused /\ ~Committed(s)

\* set_*_access_schedule, delete_*_access_schedule and the holiday handlers:
\* once writers that did not overlap are done, the cache holds what the table
\* holds, for every layer and date.
CacheAsCommitted == \A s \in Slots : Settled(s) => cache[s] = row[s]

\* What the committed schedules say of a call of account a now.
OpenByCommitted(a) == \A l \in LayersOf(a) : IsWithinSchedule(row[l], row, zone, clock)

\* resolve_access_schedule_decision: no call is let in at a time that a
\* committed schedule of its organisation, team or account forbids, whichever
\* of them was changed last.
CommittedWindowsHold ==
    [][\A r \in Requests, a \in Accounts :
          /\ CheckAccessSchedule(r, a) /\ req'[r].pc = "allowed"
          /\ \A s \in LayersOf(a) \cup Days \cup {Zone} : Settled(s)
          => OpenByCommitted(a)]_accessVars

=============================================================================
