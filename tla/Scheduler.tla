------------------------------ MODULE Scheduler ------------------------------
(***************************************************************************)
(* The background loop each process runs, the service-account keys it      *)
(* rotates, the rotation policies that say when, and the endpoints that    *)
(* edit both.                                                              *)
(*                                                                         *)
(* A tick of the loop is a sequence of jobs: due rotations, the purge of   *)
(* the usage logs and DLP results, the purge of the shadow AI events.      *)
(* Between two steps of it other processes tick, administrators commit,    *)
(* the clock moves and the process may die.  A job that fails ends alone.  *)
(* A purge fixes its cutoff and deletes in batches; what commits between   *)
(* them cannot change what it deletes, so it is one step.                  *)
(*                                                                         *)
(* Time is counted in ticks of which Day make a day, and a rotation falls  *)
(* on an anchor within the day.  `ends` is history: when each superseded   *)
(* secret still in a row has to stop working.                              *)
(***************************************************************************)
EXTENDS ShadowAi, FiniteSetsExt

CONSTANTS
    Keys, Procs,
    Calls,               \* console calls that read a key before they change it
    Day,
    Anchors,             \* off-hours moments and ends of access windows
    Intervals, Overlaps, \* days between rotations, ticks both secrets work
    DefaultOverlap,      \* DEFAULT_OVERLAP_BUFFER_MINUTES
    InitialKeys,         \* keys that exist at the start
    InitialPolicy,
    RotationBatch,
    MaxSecrets, MaxFaults    \* bounds

Tables == {"usage_logs", "dlp_scan_results"}
Due == 0..(MaxTime + (Max(Intervals) + 1) * Day)
Secrets == 1..MaxSecrets
Policy == [enabled : BOOLEAN, interval : Intervals \cup {None}, next : Due \cup {None},
           overlap : Overlaps]
AccountKey == [status : {"free", "live", "revoked"}, secret : 0..MaxSecrets,
               previous : 0..MaxSecrets, until : 0..(MaxTime + Max(Overlaps))]
\* A due policy as the loop read it.
Candidate == [key : Keys, due : Due, interval : Intervals \cup {None}]
Loop == [pc : {"sleep", "rotations", "claimed", "logs", "shadow"},
         at : Time, todo : SUBSET Candidate, key : Keys \cup {None}, overlap : Overlaps]
Call == [pc : {"idle", "rotateNow", "regenerate"}, key : Keys \cup {None}, overlap : Overlaps]

ASSUME SchedulerAssumption ==
    /\ \A S \in {Keys, Procs, Calls, Intervals, Overlaps} : IsFiniteSet(S) /\ None \notin S
    /\ Day \in Nat \ {0} /\ Anchors \subseteq 0..(Day - 1)
    /\ Intervals \subseteq Nat \ {0} /\ Intervals # {}
    /\ Overlaps \subseteq Nat \ {0} /\ DefaultOverlap \in Overlaps
    /\ InitialKeys \subseteq Keys /\ InitialPolicy \in [Keys -> Policy]
    /\ \A k \in Keys : InitialPolicy[k].next # None =>
          InitialPolicy[k].enabled /\ InitialPolicy[k].interval # None
    /\ None \notin Nat
    /\ RotationBatch \in Nat \ {0}
    /\ MaxSecrets \in Nat /\ MaxSecrets >= Cardinality(InitialKeys) /\ MaxFaults \in Nat

VARIABLES
    sa,           \* service_account_keys
    policy,       \* rotation_policies; a missing row is a disabled one
    orgInterval,  \* interval_days of the organisation's row
    retention,    \* log_prompt_retention_days
    log,          \* the times of the rows of each table
    loop, call,
    made, ends, faults

keyVars == <<sa, made, ends>>
tables == <<policy, orgInterval, retention, log>>
vars == <<shadowVars, now, commands, keyVars, tables, loop, call, faults>>

Asleep == [pc |-> "sleep", at |-> 0, todo |-> {}, key |-> None, overlap |-> DefaultOverlap]
NoCall == [pc |-> "idle", key |-> None, overlap |-> DefaultOverlap]
NoKey == [status |-> "free", secret |-> 0, previous |-> 0, until |-> 0]
Live(k) == sa[k].status = "live"

Init ==
    /\ ShadowInit /\ now = 0 /\ commands = 0 /\ faults = 0
    /\ LET secret == CHOOSE f \in Bijection(InitialKeys, 1..Cardinality(InitialKeys)) : TRUE IN
       sa = [k \in Keys |-> IF k \in InitialKeys
                            THEN [NoKey EXCEPT !.status = "live", !.secret = secret[k]]
                            ELSE NoKey]
    /\ made = Cardinality(InitialKeys)
    /\ ends = [s \in Secrets |-> None]
    /\ policy = InitialPolicy /\ orgInterval = None
    /\ retention = CHOOSE r \in Retentions : TRUE
    /\ log = [t \in Tables |-> {}]
    /\ loop = [p \in Procs |-> Asleep] /\ call = [c \in Calls |-> NoCall]

Tick ==
    /\ now < MaxTime /\ now' = now + 1
    /\ UNCHANGED <<shadowVars, commands, keyVars, tables, loop, call, faults>>

Quiet == UNCHANGED <<shadowVars, now>>

----------------------------------------------------------------------------
(* Service-account keys                                                    *)

\* The current secret, or the previous one within its overlap.
Accepts(k, s) ==
    /\ Live(k)
    /\ \/ s = sa[k].secret
       \/ s = sa[k].previous /\ sa[k].until > now

Fresh == made < MaxSecrets /\ made' = made + 1
\* The secret of k is superseded and has until `time`.
Supersede(k, time) ==
    LET kept == {sa'[x].secret : x \in Keys} \cup {sa'[x].previous : x \in Keys} IN
    ends' = [s \in Secrets |-> IF s = sa[k].secret /\ s \in kept THEN time
                               ELSE IF s \in kept THEN ends[s] ELSE None]

\* create_service_account, for a member of the team it is for
Insert(k) ==
    /\ sa[k].status = "free" /\ Fresh
    /\ sa' = [sa EXCEPT ![k] = [NoKey EXCEPT !.status = "live", !.secret = made']]
CreateServiceAccount(k) ==
    /\ Command /\ Insert(k)
    /\ UNCHANGED <<ends, tables, loop, call, faults>> /\ Quiet

\* Faulty: a previous secret still in its overlap is kept, and its time moved.
RotateSecret_KeepsOldest(k, overlap) ==
    IF Live(k)
    THEN /\ Fresh
         /\ sa' = [sa EXCEPT ![k].previous = IF sa[k].until > now THEN @ ELSE sa[k].secret,
                             ![k].until = now + overlap, ![k].secret = made']
         /\ Supersede(k, now + overlap)
    ELSE UNCHANGED keyVars
\* rotate_service_account_key: one UPDATE, which no revoked row matches.
RotateSecret(k, overlap) ==
    IF Live(k)
    THEN /\ Fresh
         /\ sa' = [sa EXCEPT ![k].previous = sa[k].secret, ![k].until = now + overlap,
                             ![k].secret = made']
         /\ Supersede(k, now + overlap)
    ELSE UNCHANGED keyVars

IdleCall == CHOOSE c \in Calls : call[c].pc = "idle"
\* rotate_key_now up to the read of the policy, 404 or 409 without a live key.
OverlapOf(k) == policy[k].overlap
RotateNow(c, k) ==
    /\ Command /\ call[c].pc = "idle" /\ c = IdleCall /\ Live(k)
    /\ call' = [call EXCEPT ![c] = [pc |-> "rotateNow", key |-> k, overlap |-> OverlapOf(k)]]
    /\ UNCHANGED <<keyVars, tables, loop, faults>> /\ Quiet

CommitRotateNow(c) ==
    /\ call[c].pc = "rotateNow"
    /\ RotateSecret(call[c].key, call[c].overlap)
    /\ call' = [call EXCEPT ![c] = NoCall]
    /\ UNCHANGED <<commands, tables, loop, faults>> /\ Quiet

\* admin_regenerate_key loads the row, 404 if it is revoked.
Regenerate(c, k) ==
    /\ Command /\ call[c].pc = "idle" /\ c = IdleCall /\ Live(k)
    /\ call' = [call EXCEPT ![c] = [NoCall EXCEPT !.pc = "regenerate", !.key = k]]
    /\ UNCHANGED <<keyVars, tables, loop, faults>> /\ Quiet

\* regenerate_service_account_key
ReplaceSecret(k) == Fresh /\ sa' = [sa EXCEPT ![k].secret = made'] /\ Supersede(k, now)
\* It replaces the secret, whatever became of the row, and leaves the overlap.
CommitRegenerate(c) ==
    LET k == call[c].key IN
    /\ call[c].pc = "regenerate" /\ ReplaceSecret(k)
    /\ call' = [call EXCEPT ![c] = NoCall]
    /\ UNCHANGED <<commands, tables, loop, faults>> /\ Quiet

\* revoke_service_account
Revoke(k) == Live(k) /\ sa' = [sa EXCEPT ![k].status = "revoked"]
RevokeServiceAccount(k) ==
    /\ Command /\ Revoke(k)
    /\ UNCHANGED <<made, ends, tables, loop, call, faults>> /\ Quiet

----------------------------------------------------------------------------
(* Rotation policies                                                       *)

\* Faulty: the interval is counted from midnight of the same day.
NextRotation_SameDay(t, interval, anchor) == (t \div Day + interval - 1) * Day + anchor
\* compute_next_rotation: the anchor of the day that is `interval` days on.
NextRotation(t, interval, anchor) == (t \div Day + interval) * Day + anchor

\* set_org_rotation_policy: a template, which the loop never reads
SetOrgPolicy(interval) == orgInterval # interval /\ orgInterval' = interval
PutOrgPolicy(interval) ==
    /\ Command /\ SetOrgPolicy(interval)
    /\ UNCHANGED <<keyVars, policy, retention, log, loop, call, faults>> /\ Quiet

NextDate(k, enabled, interval, anchor) ==
    IF enabled /\ interval # None THEN NextRotation(now, interval, anchor) ELSE None

\* set_service_account_rotation_policy: without an interval of its own the key
\* takes the organisation's.
SetKeyPolicy(k, enabled, interval, overlap, anchor) ==
    LET days == IF interval = None THEN orgInterval ELSE interval IN
    policy' = [policy EXCEPT ![k] = [enabled |-> enabled, interval |-> days, overlap |-> overlap,
                                     next |-> NextDate(k, enabled, days, anchor)]]
PutKeyPolicy(k, enabled, interval, overlap, anchor) ==
    /\ Command /\ sa[k].status # "free"
    /\ SetKeyPolicy(k, enabled, interval, overlap, anchor)
    /\ UNCHANGED <<keyVars, orgInterval, retention, log, loop, call, faults>> /\ Quiet

PutRetention(r) ==
    /\ Command /\ r # retention /\ retention' = r
    /\ UNCHANGED <<keyVars, policy, orgInterval, log, loop, call, faults>> /\ Quiet

\* The gateway logs a request.
LogRequest(t) ==
    /\ Command /\ log' = [log EXCEPT ![t] = @ \cup {now}]
    /\ UNCHANGED <<keyVars, policy, orgInterval, retention, loop, call, faults>> /\ Quiet

----------------------------------------------------------------------------
(* The loop                                                                *)

\* The end of the access window in force, else the hour of the policy or the
\* organisation.
AnchorsFor(k) == Anchors
IsDue(k) == policy[k].enabled /\ policy[k].next # None /\ policy[k].next <= now
AsRead(k) == [key |-> k, due |-> policy[k].next, interval |-> policy[k].interval]
Goto(p, pc) == loop' = [loop EXCEPT ![p].pc = pc]

\* The candidates that are left, then the next job.
Rotations(p, todo) ==
    IF todo = {} THEN [Asleep EXCEPT !.pc = "logs"]
    ELSE [Asleep EXCEPT !.pc = "rotations", !.at = loop[p].at, !.todo = todo]

\* run_due_rotations: the oldest due policies, at most a batch of them.
BeginRotations(p) ==
    LET due == {k \in Keys : IsDue(k)}
        size == Min({RotationBatch, Cardinality(due)})
    IN
    /\ loop[p].pc = "sleep"
    /\ \E S \in kSubset(size, due) :
          /\ \A k \in S, l \in due \ S : policy[k].next <= policy[l].next
          /\ loop' = [loop EXCEPT ![p] =
                         IF S = {} THEN Rotations(p, {})
                         ELSE [Rotations(p, {AsRead(k) : k \in S}) EXCEPT !.at = now]]
    /\ UNCHANGED <<commands, keyVars, tables, call, faults>> /\ Quiet

\* Faulty: the row is updated by its id alone.
Unclaimed_ById(q) == policy[q.key].next # None
\* The claim's WHERE: nobody has moved the date since it was read.
Unclaimed(q) == policy[q.key].next = q.due

\* Claim and advance the oldest candidate, and commit; a lost claim is skipped.
Claim(p, q, anchor) ==
    LET rest == loop[p].todo \ {q} IN
    /\ loop[p].pc = "rotations" /\ q \in loop[p].todo
    /\ \A other \in loop[p].todo : q.due <= other.due
    /\ IF Unclaimed(q)
       THEN /\ policy' = [policy EXCEPT ![q.key].next =
                              NextRotation(loop[p].at, q.interval, anchor)]
            /\ loop' = [loop EXCEPT ![p] = [@ EXCEPT !.pc = "claimed", !.todo = rest,
                            !.key = q.key, !.overlap = policy[q.key].overlap]]
       ELSE loop' = [loop EXCEPT ![p] = Rotations(p, rest)] /\ UNCHANGED policy
    /\ UNCHANGED <<commands, keyVars, orgInterval, retention, log, call, faults>> /\ Quiet

\* The rotation of a claimed key, in a transaction of its own; then the owner
\* is notified, which never fails.
RotateClaimed(p) ==
    /\ loop[p].pc = "claimed"
    /\ RotateSecret(loop[p].key, loop[p].overlap)
    /\ loop' = [loop EXCEPT ![p] = Rotations(p, loop[p].todo)]
    /\ UNCHANGED <<commands, tables, call, faults>> /\ Quiet

ExpiredLog(t, at) == at \in log[t] /\ at + retention < now
ExpiredEvent(e) == event[e].status = "stored" /\ event[e].at + config.retention < now

\* run_log_prompt_purge_if_due: the usage logs, then the DLP results.
PurgeLogs(p) ==
    /\ loop[p].pc = "logs" /\ Goto(p, "shadow")
    /\ log' = [t \in Tables |-> {at \in log[t] : ~ExpiredLog(t, at)}]
    /\ UNCHANGED <<commands, keyVars, policy, orgInterval, retention, call, faults>> /\ Quiet

\* run_shadow_ai_purge_if_due
PurgeEvents(p) ==
    /\ loop[p].pc = "shadow" /\ Goto(p, "sleep")
    /\ event' = [e \in EventIds |-> IF ExpiredEvent(e) THEN [event[e] EXCEPT !.status = "gone"]
                                    ELSE event[e]]
    /\ UNCHANGED <<config, known, edit, alerting, sent, confirmed, now,
                   commands, keyVars, tables, call, faults>>

\* Where the loop goes on when a job raises.
AfterFailure(pc) ==
    CASE pc \in {"rotations", "claimed"} -> "logs"
      [] pc = "logs" -> "shadow"
      [] OTHER -> "sleep"

\* run_scheduler_loop catches what a job raises; its session rolls back.
JobFails(p) ==
    /\ faults < MaxFaults /\ faults' = faults + 1
    /\ loop[p].pc # "sleep"
    /\ loop' = [loop EXCEPT ![p] = [Asleep EXCEPT !.pc = AfterFailure(loop[p].pc)]]
    /\ UNCHANGED <<commands, keyVars, tables, call>> /\ Quiet

\* A process dies in the middle of its loop, with the calls and the background
\* tasks it serves.
Crash(p) ==
    /\ faults < MaxFaults /\ faults' = faults + 1
    /\ loop' = [loop EXCEPT ![p] = Asleep]
    /\ loop[p].pc # "sleep"
    /\ call' = [c \in Calls |-> NoCall] /\ ShadowCrash
    /\ UNCHANGED <<now, commands, keyVars, tables>>

LoopStep(p) ==
    \/ BeginRotations(p)
    \/ \E q \in loop[p].todo : \E a \in AnchorsFor(q.key) : Claim(p, q, a)
    \/ RotateClaimed(p)
    \/ PurgeLogs(p)
    \/ PurgeEvents(p)

KeyStep ==
    \/ \E k \in Keys : CreateServiceAccount(k)
    \/ \E c \in Calls, k \in Keys : RotateNow(c, k)
    \/ \E c \in Calls : CommitRotateNow(c)
    \/ \E c \in Calls, k \in Keys : Regenerate(c, k)
    \/ \E c \in Calls : CommitRegenerate(c)
    \/ \E k \in Keys : RevokeServiceAccount(k)

SettingsStep ==
    \/ \E i \in Intervals \cup {None} : PutOrgPolicy(i)
    \/ \E k \in Keys, b \in BOOLEAN, i \in Intervals \cup {None}, o \in Overlaps, a \in Anchors :
          PutKeyPolicy(k, b, i, o, a)
    \/ \E r \in Retentions : PutRetention(r)
    \/ \E t \in Tables : LogRequest(t)

Next ==
    \/ Tick
    \/ KeyStep
    \/ SettingsStep
    \/ ShadowNext /\ UNCHANGED <<now, keyVars, tables, loop, call, faults>>
    \/ \E p \in Procs : LoopStep(p)
    \/ \E p \in Procs : JobFails(p)
    \/ \E p \in Procs : Crash(p)

Spec == Init /\ [][Next]_vars
\* Each process runs its loop.
FairSpec == Spec /\ \A p \in Procs : WF_vars(LoopStep(p))

----------------------------------------------------------------------------
\* A rotation is claimed only for a policy that is enabled and due as it
\* stands, and moves it by the interval it then has: once per due date,
\* however many processes read it, and whatever a PUT has changed since.
ClaimHonoursPolicy ==
    [][\A p \in Procs : loop[p].pc = "rotations" /\ loop'[p].pc = "claimed" =>
          LET k == loop'[p].key IN
          /\ policy[k].enabled /\ policy[k].next <= now
          /\ \E a \in Anchors :
                policy'[k].next = NextRotation(loop[p].at, policy[k].interval, a)]_vars

\* A secret that was superseded is dead by the time announced when it was,
\* or at once if it was regenerated, whatever rotations follow.
SupersededDies ==
    \A k \in Keys, s \in Secrets :
        Accepts(k, s) /\ s # sa[k].secret => ends[s] # None /\ now < ends[s]

Behind ==
    \/ \E k \in Keys : IsDue(k)
    \/ \E t \in Tables, at \in Time : ExpiredLog(t, at)
    \/ \E e \in EventIds : ExpiredEvent(e)

\* Again and again nothing is left to do: due rotations are taken and rows past
\* their retention purged, although jobs fail and processes die.
LoopKeepsUp == []<>~Behind
=============================================================================
