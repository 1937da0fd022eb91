--------------------------- MODULE SchedulerProofs ---------------------------
(***************************************************************************)
(* What holds of Scheduler for any number of processes, keys, calls and    *)
(* faults, and of AccessSchedule, whose windows the scheduler asks for the *)
(* dates of its rotations, for any number of administrators and layers.    *)
(*                                                                         *)
(* Secrets.  `SecretsKnown` says whose a secret is and that the row's end  *)
(* of a previous secret is the recorded one.                               *)
(*                                                                         *)
(* Dates.  A loop may hold a date it read long ago.  `Steady` says that    *)
(* the row's date is that one or a later one: a date that is set lies      *)
(* ahead of the clock, and a claim moves it past what any loop has read.   *)
(* So a date that stands is the very one that was read.                    *)
(*                                                                         *)
(* Confirmations.  A PUT in flight may carry a mode that is no longer in   *)
(* force; `Confirmations` says that it has been confirmed at some time.    *)
(*                                                                         *)
(* Windows.  The cache says nothing of a slot whose writer has committed   *)
(* and not reached it yet.  `Following` does: there is one such writer,    *)
(* and what it brings is what the table holds.                             *)
(***************************************************************************)
EXTENDS Scheduler, AccessSchedule, FiniteSetTheorems, FunctionTheorems, TLAPS

-----------------------------------------------------------------------------
(* Rows, loops and calls.                                                  *)

KeyRows == [status : {"free", "live", "revoked"}, secret : Nat, previous : Nat, until : Nat]
PolicyRows == [enabled : BOOLEAN, interval : Intervals \cup {None}, next : Nat \cup {None},
               overlap : Overlaps]
Candidates == [key : Keys, due : Nat, interval : Intervals \cup {None}]
Loops == [pc : {"sleep", "rotations", "claimed", "logs", "shadow"},
          at : Nat, todo : SUBSET Candidates, key : Keys \cup {None}, overlap : Overlaps]

\* What the rows, loops and calls look like, without the bounds of time.
Rows ==
    /\ now \in Nat /\ made \in 0..MaxSecrets
    /\ sa \in [Keys -> KeyRows] /\ policy \in [Keys -> PolicyRows]
    /\ orgInterval \in Intervals \cup {None}
Running ==
    /\ loop \in [Procs -> Loops] /\ call \in [Calls -> Call]
    /\ \A p \in Procs : loop[p].pc = "claimed" => loop[p].key \in Keys
    /\ \A c \in Calls : call[c].pc # "idle" =>
          call[c].key \in Keys /\ sa[call[c].key].status # "free"

LEMMA Numbers ==
    /\ Intervals \subseteq Nat \ {0} /\ Overlaps \subseteq Nat \ {0}
    /\ Anchors \subseteq Nat /\ Day \in Nat \ {0} /\ None \notin Nat
    /\ DefaultOverlap \in Overlaps /\ MaxSecrets \in Nat /\ Anchors \subseteq 0..(Day - 1)
BY SchedulerAssumption

\* The initial keys carry the numbers from one up.
LEMMA InitialSecrets ==
    ASSUME Init
    PROVE  /\ made \in 0..MaxSecrets
           /\ sa \in [Keys -> KeyRows]
           /\ \A k \in Keys : sa[k].secret <= made /\ sa[k].previous = 0
           /\ \A k \in Keys : sa[k].status # "free" => sa[k].secret # 0
           /\ \A k, l \in Keys : sa[k].secret = sa[l].secret /\ sa[k].secret # 0 => k = l
<1> DEFINE n == Cardinality(InitialKeys)
           secret == CHOOSE f \in Bijection(InitialKeys, 1..n) : TRUE
<1>1. IsFiniteSet(InitialKeys)
    BY SchedulerAssumption, FS_Subset
<1>2. n \in Nat /\ ExistsBijection(1..n, InitialKeys)
    BY <1>1, FS_CardinalityType
<1>3. Bijection(InitialKeys, 1..n) # {}
    BY <1>2, Fun_ExistsBijSymmetric DEF ExistsBijection
<1>4. secret \in Bijection(InitialKeys, 1..n)
    BY <1>3
<1>5. /\ secret \in [InitialKeys -> 1..n]
      /\ \A a, b \in InitialKeys : secret[a] = secret[b] => a = b
    BY <1>4 DEF Bijection, Injection, IsInjective
<1>6. sa = [k \in Keys |-> IF k \in InitialKeys
                            THEN [NoKey EXCEPT !.status = "live", !.secret = secret[k]]
                            ELSE NoKey]
    BY DEF Init
<1>7. made = n /\ n <= MaxSecrets
    BY SchedulerAssumption DEF Init
<1> HIDE DEF n, secret
<1>8. /\ \A k \in InitialKeys : /\ sa[k].status = "live" /\ sa[k].secret = secret[k]
                                  /\ sa[k].previous = 0 /\ sa[k].until = 0
                                  /\ DOMAIN sa[k] = {"status", "secret", "previous", "until"}
      /\ \A k \in Keys \ InitialKeys : sa[k] = NoKey
    BY <1>6, SchedulerAssumption DEF NoKey
<1>9. \A k \in InitialKeys : secret[k] \in Nat /\ secret[k] # 0 /\ secret[k] <= n
    BY <1>2, <1>5
<1>10. \A k \in Keys : sa[k] \in KeyRows
    <2>1. ASSUME NEW k \in InitialKeys PROVE sa[k] \in KeyRows
        <3>1. sa[k] = [status |-> "live", secret |-> secret[k], previous |-> 0, until |-> 0]
            BY <1>6, SchedulerAssumption DEF NoKey
        <3> QED BY <1>9, <3>1 DEF KeyRows
    <2>2. NoKey \in KeyRows
        BY DEF NoKey, KeyRows
    <2> QED BY <1>8, <2>1, <2>2
<1>11. made \in 0..MaxSecrets
    BY <1>2, <1>7, Numbers
<1>12. sa \in [Keys -> KeyRows]
    BY <1>6, <1>10
<1>13. ASSUME NEW k \in Keys
       PROVE  /\ sa[k].secret \in Nat /\ sa[k].secret <= made /\ sa[k].previous = 0
              /\ sa[k].status # "free" => sa[k].secret # 0
              /\ sa[k].secret # 0 => k \in InitialKeys /\ sa[k].secret = secret[k]
    BY <1>2, <1>7, <1>8, <1>9 DEF NoKey
<1>14. ASSUME NEW k \in Keys, NEW l \in Keys, sa[k].secret = sa[l].secret, sa[k].secret # 0
       PROVE  k = l
    <2>1. /\ k \in InitialKeys /\ sa[k].secret = secret[k]
          /\ l \in InitialKeys /\ sa[l].secret = secret[l]
        BY <1>13, <1>14
    <2> QED BY <1>5, <1>14, <2>1
<1>15. \A k \in Keys : sa[k].secret <= made /\ sa[k].previous = 0
    BY <1>13
<1>16. \A k \in Keys : sa[k].status # "free" => sa[k].secret # 0
    BY <1>13
<1> QED BY <1>11, <1>12, <1>14, <1>15, <1>16

-----------------------------------------------------------------------------
(* Secrets.                                                                *)

\* Every secret is one key's, and a previous secret's end is on record.
SecretsKnown ==
    /\ \A k \in Keys : sa[k].secret <= made /\ sa[k].previous <= made
    /\ \A k \in Keys : sa[k].status # "free" => sa[k].secret # 0
    /\ \A k, l \in Keys : sa[k].secret = sa[l].secret /\ sa[k].secret # 0 => k = l
    /\ \A k, l \in Keys : sa[k].previous = sa[l].secret => sa[k].previous = 0
    /\ \A k \in Keys : sa[k].previous # 0 => ends[sa[k].previous] = sa[k].until

\* A superseded secret's end is recorded; the previous secrets of other keys
\* keep theirs.
LEMMA SupersedeRecords ==
    ASSUME Rows, SecretsKnown, NEW k \in Keys, NEW t, Supersede(k, t), sa[k].secret # 0,
           NEW l \in Keys, sa'[l].previous # 0, sa'[l].previous \in Secrets,
           sa' = [x \in Keys |-> sa'[x]]
    PROVE  /\ sa'[l].previous = sa[k].secret => ends'[sa'[l].previous] = t
           /\ sa'[l].previous # sa[k].secret => ends'[sa'[l].previous] = ends[sa'[l].previous]
<1>1. sa'[l].previous \in {sa'[x].secret : x \in Keys} \cup {sa'[x].previous : x \in Keys}
    OBVIOUS
<1> QED BY <1>1 DEF Supersede

LEMMA Rotated ==
    ASSUME Rows, SecretsKnown, NEW k \in Keys, NEW overlap \in Overlaps, RotateSecret(k, overlap), Live(k)
    PROVE  /\ made' = made + 1 /\ made' \in 0..MaxSecrets
           /\ \A l \in Keys : l # k => sa'[l] = sa[l]
           /\ sa'[k].status = "live" /\ sa'[k].secret = made' /\ sa'[k].previous = sa[k].secret
           /\ sa'[k].until = now + overlap /\ sa' \in [Keys -> KeyRows]
           /\ Supersede(k, now + overlap)
<1>1. /\ made' = made + 1 /\ made < MaxSecrets
      /\ sa' = [sa EXCEPT ![k].previous = sa[k].secret, ![k].until = now + overlap,
                          ![k].secret = made']
      /\ Supersede(k, now + overlap)
    BY DEF RotateSecret, Fresh
<1>2. made' \in 0..MaxSecrets /\ made' \in Nat /\ now + overlap \in Nat
    BY <1>1, Numbers DEF Rows
<1>3. sa[k] \in KeyRows /\ sa[k].status = "live"
    BY DEF Rows, Live
<1>4. sa' \in [Keys -> KeyRows]
    BY <1>1, <1>2, <1>3 DEF Rows, KeyRows
<1>5. \A l \in Keys : l # k => sa'[l] = sa[l]
    BY <1>1 DEF Rows
<1>6. /\ sa'[k].status = "live" /\ sa'[k].secret = made' /\ sa'[k].previous = sa[k].secret
      /\ sa'[k].until = now + overlap
    BY <1>1, <1>3 DEF Rows, KeyRows
<1> QED BY <1>1, <1>2, <1>4, <1>5, <1>6

\* A row is never free again.
RowsStay == \A l \in Keys : sa[l].status # "free" => sa'[l].status # "free"

LEMMA RotateKeeps ==
    ASSUME Rows, SecretsKnown, NEW k \in Keys, NEW overlap \in Overlaps, RotateSecret(k, overlap)
    PROVE  sa' \in [Keys -> KeyRows] /\ made' \in 0..MaxSecrets /\ SecretsKnown' /\ RowsStay
<1>1. CASE ~Live(k)
    BY <1>1 DEF RotateSecret, keyVars, Rows, SecretsKnown, RowsStay
<1>2. CASE Live(k)
    <2>1. /\ made' = made + 1 /\ made' \in 0..MaxSecrets
          /\ \A l \in Keys : l # k => sa'[l] = sa[l]
          /\ sa'[k].status = "live" /\ sa'[k].secret = made' /\ sa'[k].previous = sa[k].secret
          /\ sa'[k].until = now + overlap /\ sa' \in [Keys -> KeyRows]
          /\ Supersede(k, now + overlap)
        BY <1>2, Rotated
    <2>2. /\ sa[k].secret # 0 /\ made \in Nat
          /\ \A l \in Keys : sa[l].secret \in Nat /\ sa[l].previous \in Nat
          /\ \A l \in Keys : sa'[l].secret \in Nat /\ sa'[l].previous \in Nat
        BY <1>2, <2>1 DEF SecretsKnown, Live, Rows, KeyRows
    <2>3. \A l \in Keys : sa'[l].secret <= made' /\ sa'[l].previous <= made'
        BY <2>1, <2>2 DEF SecretsKnown
    <2>4. \A l \in Keys : sa'[l].status # "free" => sa'[l].secret # 0
        BY <2>1, <2>2 DEF SecretsKnown
    <2>5. \A l, x \in Keys : sa'[l].secret = sa'[x].secret /\ sa'[l].secret # 0 => l = x
        BY <2>1, <2>2 DEF SecretsKnown
    <2>6. \A l, x \in Keys : sa'[l].previous = sa'[x].secret => sa'[l].previous = 0
        BY <2>1, <2>2 DEF SecretsKnown
    <2>7. ASSUME NEW l \in Keys, sa'[l].previous # 0
          PROVE  ends'[sa'[l].previous] = sa'[l].until
        <3>1. sa'[l].previous \in Secrets
            BY <2>1, <2>2, <2>3, <2>7, Numbers DEF Secrets
        <3>2. /\ sa'[l].previous = sa[k].secret => ends'[sa'[l].previous] = now + overlap
              /\ sa'[l].previous # sa[k].secret => ends'[sa'[l].previous] = ends[sa'[l].previous]
            BY <2>1, <2>2, <2>7, <3>1, SupersedeRecords
        <3>3. CASE l = k
            BY <2>1, <3>2, <3>3
        <3>4. CASE l # k
            <4>1. sa'[l] = sa[l] /\ sa[l].previous # sa[k].secret
                BY <2>1, <2>7, <3>4 DEF SecretsKnown
            <4> QED BY <2>7, <3>2, <4>1 DEF SecretsKnown
        <3> QED BY <3>3, <3>4
    <2> QED BY <2>1, <2>3, <2>4, <2>5, <2>6, <2>7 DEF SecretsKnown, RowsStay
<1> QED BY <1>1, <1>2

LEMMA ReplaceKeeps ==
    ASSUME Rows, SecretsKnown, NEW k \in Keys, ReplaceSecret(k), sa[k].secret # 0
    PROVE  sa' \in [Keys -> KeyRows] /\ made' \in 0..MaxSecrets /\ SecretsKnown' /\ RowsStay
<1>1. /\ made' = made + 1 /\ made < MaxSecrets /\ sa' = [sa EXCEPT ![k].secret = made']
      /\ Supersede(k, now)
    BY DEF ReplaceSecret, Fresh
<1>2. made' \in 0..MaxSecrets /\ made' \in Nat /\ made \in Nat
    BY <1>1, Numbers DEF Rows
<1>3. sa' \in [Keys -> KeyRows]
    BY <1>1, <1>2 DEF Rows, KeyRows
<1>4. /\ \A l \in Keys : l # k => sa'[l] = sa[l]
      /\ sa'[k].secret = made' /\ sa'[k].status = sa[k].status
      /\ sa'[k].previous = sa[k].previous /\ sa'[k].until = sa[k].until
    BY <1>1 DEF Rows, KeyRows
<1>5. /\ \A l \in Keys : sa[l].secret \in Nat /\ sa[l].previous \in Nat
      /\ \A l \in Keys : sa'[l].previous = sa[l].previous /\ sa'[l].until = sa[l].until
    BY <1>4 DEF Rows, KeyRows
<1>6. /\ \A l \in Keys : sa'[l].secret <= made' /\ sa'[l].previous <= made'
      /\ \A l \in Keys : sa'[l].status # "free" => sa'[l].secret # 0
      /\ \A l, x \in Keys : sa'[l].secret = sa'[x].secret /\ sa'[l].secret # 0 => l = x
      /\ \A l, x \in Keys : sa'[l].previous = sa'[x].secret => sa'[l].previous = 0
    BY <1>1, <1>2, <1>4, <1>5 DEF SecretsKnown
<1>7. ASSUME NEW l \in Keys, sa'[l].previous # 0
      PROVE  ends'[sa'[l].previous] = sa'[l].until
    <2>1. sa'[l].previous \in Secrets /\ sa'[l].previous # sa[k].secret
        BY <1>1, <1>2, <1>5, <1>6, <1>7, Numbers DEF Secrets, SecretsKnown
    <2>2. ends'[sa'[l].previous] = ends[sa'[l].previous]
        BY <1>1, <1>3, <1>7, <2>1, SupersedeRecords
    <2> QED BY <1>5, <1>7, <2>2 DEF SecretsKnown
<1> QED BY <1>2, <1>3, <1>4, <1>6, <1>7 DEF SecretsKnown, RowsStay

LEMMA InsertKeeps ==
    ASSUME Rows, SecretsKnown, NEW k \in Keys, Insert(k), UNCHANGED ends
    PROVE  sa' \in [Keys -> KeyRows] /\ made' \in 0..MaxSecrets /\ SecretsKnown' /\ RowsStay
<1>1. /\ made' = made + 1 /\ made < MaxSecrets
      /\ sa' = [sa EXCEPT ![k] = [NoKey EXCEPT !.status = "live", !.secret = made']]
    BY DEF Insert, Fresh
<1>2. made' \in 0..MaxSecrets /\ made' \in Nat /\ made \in Nat
    BY <1>1, Numbers DEF Rows
<1>0. PICK m : m = made'
    OBVIOUS
<1>a. PICK w : w = [NoKey EXCEPT !.status = "live", !.secret = m]
    OBVIOUS
<1>3. w = [status |-> "live", secret |-> m, previous |-> 0, until |-> 0]
    BY <1>a DEF NoKey
<1>4. sa' \in [Keys -> KeyRows]
    <2>1. [status |-> "live", secret |-> m, previous |-> 0, until |-> 0] \in KeyRows
        BY <1>0, <1>2 DEF KeyRows
    <2> QED BY <1>0, <1>1, <1>a, <1>3, <2>1 DEF Rows
<1>5. /\ \A l \in Keys : l # k => sa'[l] = sa[l]
      /\ sa'[k].secret = made' /\ sa'[k].previous = 0
    <2>1. sa'[k] = [status |-> "live", secret |-> m, previous |-> 0, until |-> 0]
        BY <1>0, <1>1, <1>a, <1>3 DEF Rows
    <2> QED BY <1>0, <1>1, <2>1 DEF Rows
<1>6. \A l \in Keys : sa[l].secret \in Nat /\ sa[l].previous \in Nat
    BY DEF Rows, KeyRows
<1>7. /\ \A l \in Keys : sa'[l].secret <= made' /\ sa'[l].previous <= made'
      /\ \A l \in Keys : sa'[l].status # "free" => sa'[l].secret # 0
      /\ \A l, x \in Keys : sa'[l].secret = sa'[x].secret /\ sa'[l].secret # 0 => l = x
      /\ \A l, x \in Keys : sa'[l].previous = sa'[x].secret => sa'[l].previous = 0
    BY <1>1, <1>2, <1>5, <1>6 DEF SecretsKnown
<1>8. \A l \in Keys : sa'[l].previous # 0 => ends'[sa'[l].previous] = sa'[l].until
    BY <1>5 DEF SecretsKnown
<1>9. RowsStay
    BY <1>0, <1>1, <1>a, <1>3 DEF RowsStay, Rows
<1> QED BY <1>2, <1>4, <1>7, <1>8, <1>9 DEF SecretsKnown

LEMMA RevokeKeeps ==
    ASSUME Rows, SecretsKnown, NEW k \in Keys, Revoke(k), UNCHANGED <<made, ends>>
    PROVE  sa' \in [Keys -> KeyRows] /\ made' \in 0..MaxSecrets /\ SecretsKnown' /\ RowsStay
<1>1. sa' = [sa EXCEPT ![k].status = "revoked"] /\ sa[k].status = "live"
    BY DEF Revoke, Live
<1>2. sa' \in [Keys -> KeyRows]
    BY <1>1 DEF Rows, KeyRows
<1>3. \A l \in Keys : /\ sa'[l].secret = sa[l].secret /\ sa'[l].previous = sa[l].previous
                      /\ sa'[l].until = sa[l].until
                      /\ sa'[l].status # "free" => sa[l].status # "free"
    BY <1>1 DEF Rows, KeyRows
<1>4. RowsStay
    BY <1>1 DEF RowsStay, Rows, KeyRows
<1> QED BY <1>2, <1>3, <1>4 DEF Rows, SecretsKnown

-----------------------------------------------------------------------------
(* Dates.                                                                  *)

\* A date that was read for q stands, or a later one has been set since; as
\* long as it stands, so does the interval.
Steady(q) ==
    policy[q.key].next # None =>
        /\ q.due <= policy[q.key].next
        /\ policy[q.key].next = q.due => q.interval = policy[q.key].interval

Dates ==
    /\ \A k \in Keys : policy[k].next # None =>
          policy[k].enabled /\ policy[k].interval \in Intervals
    /\ \A p \in Procs : loop[p].at <= now
    /\ \A p \in Procs : loop[p].pc \notin {"rotations", "claimed"} => loop[p].todo = {}
    /\ \A p \in Procs : \A q \in loop[p].todo : q.due <= loop[p].at /\ Steady(q)

\* compute_next_rotation: the date is past the day it was computed on.
LEMMA NextIsLater ==
    ASSUME NEW t \in Nat, NEW i \in Intervals, NEW a \in Anchors
    PROVE  NextRotation(t, i, a) \in Nat /\ t < NextRotation(t, i, a)
<1>1. i \in Nat /\ i >= 1 /\ a \in Nat /\ Day \in Nat /\ Day > 0
    BY Numbers
<1>2. PICK d \in Nat : d = t \div Day
    BY <1>1
<1>3. t = d * Day + (t % Day) /\ t % Day \in 0..(Day - 1)
    BY <1>1, <1>2
<1>4. (d + i) * Day = d * Day + Day + (i - 1) * Day /\ (i - 1) * Day \in Nat /\ d * Day \in Nat
    BY <1>1
<1> QED BY <1>1, <1>2, <1>3, <1>4 DEF NextRotation

\* A loop that goes on with what is left of its candidates.
LEMMA LoopMoves ==
    ASSUME loop \in [Procs -> Loops], \A p \in Procs : loop[p].pc = "claimed" => loop[p].key \in Keys,
           Dates, UNCHANGED <<policy, now>>, now \in Nat,
           NEW p \in Procs, NEW w \in Loops, loop' = [loop EXCEPT ![p] = w],
           w.todo \subseteq loop[p].todo, w.at <= now,
           w.todo # {} => w.at = loop[p].at /\ w.pc \in {"rotations", "claimed"},
           w.pc = "claimed" => w.key \in Keys
    PROVE  /\ loop' \in [Procs -> Loops]
           /\ \A x \in Procs : loop'[x].pc = "claimed" => loop'[x].key \in Keys
           /\ Dates'
<1>1. loop'[p] = w /\ \A x \in Procs : x # p => loop'[x] = loop[x]
    OBVIOUS
<1>2. \A x \in Procs : \A q \in loop'[x].todo : q.due <= loop'[x].at /\ Steady(q)
    BY <1>1 DEF Dates
<1>3. \A x \in Procs : \A q \in loop'[x].todo : Steady(q)'
    BY <1>2 DEF Steady
<1>4. \A x \in Procs : loop'[x].at <= now'
    BY <1>1 DEF Dates
<1>5. \A x \in Procs : loop'[x].pc \notin {"rotations", "claimed"} => loop'[x].todo = {}
    BY <1>1 DEF Dates
<1>6. \A x \in Procs : loop'[x].pc = "claimed" => loop'[x].key \in Keys
    BY <1>1
<1>7. \A k \in Keys : policy'[k].next # None => policy'[k].enabled /\ policy'[k].interval \in Intervals
    BY DEF Dates
<1> QED BY <1>2, <1>3, <1>4, <1>5, <1>6, <1>7 DEF Dates

\* What is left, or the next job.
LEMMA RotationsLeft ==
    ASSUME Running, Dates, now \in Nat, NEW p \in Procs, NEW T \in SUBSET loop[p].todo
    PROVE  LET w == Rotations(p, T) IN
           /\ w \in Loops /\ w.todo = T /\ w.at <= now /\ w.pc \in {"rotations", "logs"}
           /\ w.pc = "logs" <=> T = {}
           /\ T # {} => w.at = loop[p].at /\ w.pc = "rotations"
<1>1. loop[p] \in Loops /\ loop[p].at <= now /\ DefaultOverlap \in Overlaps
    BY Numbers DEF Running, Dates
<1>2. CASE T = {}
    <2>1. PICK w : w = [Asleep EXCEPT !.pc = "logs"]
        OBVIOUS
    <2>2. w = [pc |-> "logs", at |-> 0, todo |-> {}, key |-> None, overlap |-> DefaultOverlap]
        BY <2>1 DEF Asleep
    <2>3. Rotations(p, T) = w
        BY <1>2, <2>1 DEF Rotations
    <2> QED BY <1>1, <1>2, <2>2, <2>3 DEF Loops
<1>3. CASE T # {}
    <2>1. PICK w : w = [Asleep EXCEPT !.pc = "rotations", !.at = loop[p].at, !.todo = T]
        OBVIOUS
    <2>2. w = [pc |-> "rotations", at |-> loop[p].at, todo |-> T, key |-> None, overlap |-> DefaultOverlap]
        BY <2>1 DEF Asleep
    <2>3. Rotations(p, T) = w
        BY <1>3, <2>1 DEF Rotations
    <2>4. loop[p].at \in Nat /\ T \in SUBSET Candidates
        BY <1>1 DEF Loops
    <2> QED BY <1>1, <1>3, <2>2, <2>3, <2>4 DEF Loops
<1> QED BY <1>2, <1>3

\* set_service_account_rotation_policy: a date that is set lies ahead, so no
\* loop has read it.
LEMMA PutKeeps ==
    ASSUME Rows, Running, Dates, NEW k \in Keys, NEW b \in BOOLEAN,
           NEW i \in Intervals \cup {None}, NEW o \in Overlaps, NEW a \in Anchors,
           SetKeyPolicy(k, b, i, o, a), UNCHANGED <<loop, now>>
    PROVE  policy' \in [Keys -> PolicyRows] /\ Dates'
<1>1. PICK days \in Intervals \cup {None} :
          policy' = [policy EXCEPT ![k] = [enabled |-> b, interval |-> days, overlap |-> o,
                                           next |-> NextDate(k, b, days, a)]]
    BY DEF SetKeyPolicy, Rows
<1>2. PICK next : next = NextDate(k, b, days, a)
    OBVIOUS
<1>3. next # None => next \in Nat /\ next > now /\ b = TRUE /\ days \in Intervals
    BY <1>2, NextIsLater DEF NextDate, Rows
<1>4. policy' \in [Keys -> PolicyRows]
    BY <1>1, <1>2, <1>3 DEF Rows, PolicyRows
<1>5. /\ policy'[k].next = next /\ policy'[k].enabled = b /\ policy'[k].interval = days
      /\ \A l \in Keys : l # k => policy'[l] = policy[l]
    BY <1>1, <1>2 DEF Rows
<1>6. \A l \in Keys : policy'[l].next # None => policy'[l].enabled /\ policy'[l].interval \in Intervals
    BY <1>3, <1>5 DEF Dates
<1>7. ASSUME NEW p \in Procs, NEW q \in loop[p].todo PROVE Steady(q)'
    <2>1. /\ q.key \in Keys /\ q.due \in Nat /\ now \in Nat /\ loop[p].at \in Nat
          /\ q.due <= loop[p].at /\ loop[p].at <= now /\ Steady(q)
        BY <1>7 DEF Running, Loops, Candidates, Dates, Rows
    <2>2. CASE q.key = k
        BY <1>3, <1>5, <2>1, <2>2 DEF Steady
    <2>3. CASE q.key # k
        BY <1>5, <2>1, <2>3 DEF Steady
    <2> QED BY <2>2, <2>3
<1> QED BY <1>4, <1>6, <1>7 DEF Dates

\* run_due_rotations reads the candidates in the transaction of its tick.
LEMMA BeginKeeps ==
    ASSUME Rows, Running, Dates, NEW p \in Procs, BeginRotations(p)
    PROVE  /\ loop' \in [Procs -> Loops] /\ Dates'
           /\ \A x \in Procs : loop'[x].pc = "claimed" => loop'[x].key \in Keys
           /\ loop'[p].pc # "claimed"
<1> DEFINE due == {k \in Keys : IsDue(k)}
           size == Min({RotationBatch, Cardinality(due)})
<1>1. PICK S \in kSubset(size, due) :
          loop' = [loop EXCEPT ![p] = IF S = {} THEN Rotations(p, {})
                                      ELSE [Rotations(p, {AsRead(k) : k \in S}) EXCEPT !.at = now]]
    BY DEF BeginRotations
<1>2. S \subseteq due
    BY <1>1 DEF kSubset
<1>a. UNCHANGED <<policy, now>> /\ now \in Nat
    BY DEF BeginRotations, Quiet, tables, Rows
<1>3. CASE S = {}
    <2>1. PICK w : w = Rotations(p, {})
        OBVIOUS
    <2>2. w \in Loops /\ w.todo = {} /\ w.at <= now /\ w.pc = "logs"
        BY <1>a, <2>1, RotationsLeft
    <2>3. loop' = [loop EXCEPT ![p] = w]
        BY <1>1, <1>3, <2>1
    <2> QED BY <1>a, <2>2, <2>3, LoopMoves DEF Running
<1>4. CASE S # {}
    <2>1. PICK T : T = {AsRead(k) : k \in S}
        OBVIOUS
    <2>2. PICK w : w = [Asleep EXCEPT !.pc = "rotations", !.at = now, !.todo = T]
        OBVIOUS
    <2>3. w = [pc |-> "rotations", at |-> now, todo |-> T, key |-> None, overlap |-> DefaultOverlap]
        BY <2>2 DEF Asleep
    <2>4. PICK v : v = [Asleep EXCEPT !.pc = "rotations", !.at = loop[p].at, !.todo = T]
        OBVIOUS
    <2>5. v = [pc |-> "rotations", at |-> loop[p].at, todo |-> T, key |-> None, overlap |-> DefaultOverlap]
        BY <2>4 DEF Asleep
    <2>6. T # {} /\ Rotations(p, T) = v
        BY <1>4, <2>1, <2>4 DEF Rotations
    <2>7. PICK u : u = [v EXCEPT !.at = now]
        OBVIOUS
    <2>8. u = [pc |-> "rotations", at |-> now, todo |-> T, key |-> None, overlap |-> DefaultOverlap]
        BY <2>5, <2>7
    <2>9. loop' = [loop EXCEPT ![p] = u]
        BY <1>1, <1>4, <2>1, <2>6, <2>7
    <2>10. \A q \in T : /\ q \in Candidates /\ q.due <= now /\ Steady(q)
        <3>1. ASSUME NEW k \in S PROVE AsRead(k) \in Candidates /\ AsRead(k).due <= now /\ Steady(AsRead(k))
            <4>1. k \in Keys /\ policy[k].next # None /\ policy[k].next <= now
                BY <1>2, <3>1 DEF IsDue
            <4>2. policy[k] \in PolicyRows
                BY <4>1 DEF Rows
            <4> QED BY <4>1, <4>2, Numbers DEF AsRead, Candidates, PolicyRows, Steady
        <3> QED BY <2>1, <3>1
    <2>11. u \in Loops
        BY <1>a, <2>8, <2>10, Numbers DEF Loops
    <2>12. loop' \in [Procs -> Loops] /\ loop'[p] = u /\ \A x \in Procs : x # p => loop'[x] = loop[x]
        BY <2>9, <2>11 DEF Running
    <2>13. \A x \in Procs : \A q \in loop'[x].todo : q.due <= loop'[x].at /\ Steady(q)
        BY <2>8, <2>10, <2>12 DEF Dates
    <2>14. \A x \in Procs : \A q \in loop'[x].todo : Steady(q)'
        BY <1>a, <2>13 DEF Steady
    <2>15. /\ \A x \in Procs : loop'[x].at <= now'
           /\ \A x \in Procs : loop'[x].pc \notin {"rotations", "claimed"} => loop'[x].todo = {}
           /\ \A x \in Procs : loop'[x].pc = "claimed" => loop'[x].key \in Keys
           /\ loop'[p].pc # "claimed"
        BY <1>a, <2>8, <2>12 DEF Dates, Running
    <2>16. \A k \in Keys : policy'[k].next # None => policy'[k].enabled /\ policy'[k].interval \in Intervals
        BY <1>a DEF Dates
    <2> QED BY <2>12, <2>13, <2>14, <2>15, <2>16 DEF Dates
<1> QED BY <1>3, <1>4

\* The claim's UPDATE moves the date past every other loop's reading.
LEMMA ClaimKeeps ==
    ASSUME Rows, Running, Dates, NEW p \in Procs, NEW q \in loop[p].todo, NEW a \in Anchors,
           Claim(p, q, a)
    PROVE  /\ loop' \in [Procs -> Loops] /\ policy' \in [Keys -> PolicyRows] /\ Dates'
           /\ \A x \in Procs : loop'[x].pc = "claimed" => loop'[x].key \in Keys
<1>1. /\ q \in Candidates /\ q.key \in Keys /\ q.due \in Nat /\ loop[p] \in Loops /\ loop[p].at \in Nat
      /\ q.due <= loop[p].at /\ loop[p].at <= now /\ Steady(q) /\ now \in Nat /\ now' = now
    BY DEF Running, Loops, Candidates, Dates, Rows, Claim, Quiet
<1>2. PICK rest : rest = loop[p].todo \ {q}
    OBVIOUS
<1>3. CASE ~Unclaimed(q)
    <2>1. PICK w : w = Rotations(p, rest)
        OBVIOUS
    <2>2. /\ w \in Loops /\ w.todo = rest /\ w.at <= now /\ w.pc \in {"rotations", "logs"}
          /\ rest # {} => w.at = loop[p].at /\ w.pc = "rotations"
        BY <1>1, <1>2, <2>1, RotationsLeft
    <2>3. loop' = [loop EXCEPT ![p] = w] /\ policy' = policy
        BY <1>2, <1>3, <2>1 DEF Claim
    <2>4. w.todo \subseteq loop[p].todo /\ (w.todo # {} => w.at = loop[p].at /\ w.pc \in {"rotations", "claimed"})
          /\ w.pc # "claimed"
        BY <1>2, <2>2
    <2> QED BY <1>1, <2>2, <2>3, <2>4, LoopMoves DEF Running, Rows
<1>4. CASE Unclaimed(q)
    <2>1. PICK next : next = NextRotation(loop[p].at, q.interval, a)
        OBVIOUS
    <2>2. policy[q.key].next = q.due /\ q.interval = policy[q.key].interval /\ q.interval \in Intervals
          /\ policy[q.key] \in PolicyRows /\ policy[q.key].enabled
        BY <1>1, <1>4, Numbers DEF Unclaimed, Steady, Dates, Rows
    <2>3. next \in Nat /\ loop[p].at < next
        BY <1>1, <2>1, <2>2, NextIsLater
    <2>4. policy' = [policy EXCEPT ![q.key].next = next]
        BY <1>4, <2>1 DEF Claim
    <2>5. policy' \in [Keys -> PolicyRows]
        BY <2>2, <2>3, <2>4 DEF Rows, PolicyRows
    <2>6. /\ policy'[q.key].next = next /\ policy'[q.key].enabled = policy[q.key].enabled
          /\ policy'[q.key].interval = policy[q.key].interval
          /\ \A k \in Keys : k # q.key => policy'[k] = policy[k]
        BY <1>1, <2>2, <2>4 DEF Rows, PolicyRows
    <2>7. PICK w : w = [loop[p] EXCEPT !.pc = "claimed", !.todo = rest, !.key = q.key,
                                       !.overlap = policy[q.key].overlap]
        OBVIOUS
    <2>8. loop' = [loop EXCEPT ![p] = w]
        BY <1>2, <1>4, <2>7 DEF Claim
    <2>9. w = [pc |-> "claimed", at |-> loop[p].at, todo |-> rest, key |-> q.key,
               overlap |-> policy[q.key].overlap]
        BY <1>1, <2>7 DEF Loops
    <2>10. w \in Loops
        BY <1>1, <1>2, <2>2, <2>9 DEF Loops, PolicyRows
    <2>11. loop' \in [Procs -> Loops] /\ loop'[p] = w /\ \A x \in Procs : x # p => loop'[x] = loop[x]
        BY <2>8, <2>10 DEF Running
    <2>12. \A x \in Procs : loop'[x].todo \subseteq loop[x].todo /\ loop'[x].at = loop[x].at
        BY <1>2, <2>9, <2>11
    <2>13. ASSUME NEW x \in Procs, NEW c \in loop[x].todo PROVE Steady(c)'
        <3>1. c.key \in Keys /\ c.due \in Nat /\ Steady(c)
            BY <2>13 DEF Running, Loops, Candidates, Dates
        <3>2. CASE c.key = q.key
            <4>1. c.due <= q.due
                BY <1>1, <2>2, <3>1, <3>2, Numbers DEF Steady
            <4>2. c.due < next
                BY <1>1, <2>3, <3>1, <4>1
            <4> QED BY <2>3, <2>6, <3>1, <3>2, <4>2 DEF Steady
        <3>3. CASE c.key # q.key
            BY <2>6, <3>1, <3>3 DEF Steady
        <3> QED BY <3>2, <3>3
    <2>14. \A x \in Procs : \A c \in loop'[x].todo : c.due <= loop'[x].at /\ Steady(c)'
        BY <2>12, <2>13 DEF Dates
    <2>15. /\ \A x \in Procs : loop'[x].at <= now'
           /\ \A x \in Procs : loop'[x].pc \notin {"rotations", "claimed"} => loop'[x].todo = {}
           /\ \A x \in Procs : loop'[x].pc = "claimed" => loop'[x].key \in Keys
        BY <1>1, <2>9, <2>11 DEF Dates, Running
    <2>16. \A k \in Keys : policy'[k].next # None => policy'[k].enabled /\ policy'[k].interval \in Intervals
        BY <2>2, <2>6 DEF Dates
    <2> QED BY <2>5, <2>11, <2>14, <2>15, <2>16 DEF Dates
<1> QED BY <1>3, <1>4

-----------------------------------------------------------------------------
(* Confirmations.                                                          *)

\* Whatever intrusive mode is in force, or on its way, has been confirmed.
Confirmations ==
    /\ config \in [mode : Modes, retention : Retentions, token : Nat]
    /\ edit \in [Editors -> Edit]
    /\ config.mode \in Intrusive => config.mode \in confirmed
    /\ \A x \in Editors : edit[x].pc = "write" /\ edit[x].mode \in Intrusive => edit[x].mode \in confirmed
    /\ \A alert \in sent : alert.mode \in confirmed

LEMMA ShadowKeeps ==
    ASSUME Confirmations, ShadowNext
    PROVE  Confirmations'
<1>1. ASSUME NEW x \in Editors, NEW m \in Modes, NEW r \in Retentions, PutConfig(x, m, r)
      PROVE  Confirmations'
    <2>1. /\ edit' = [edit EXCEPT ![x] = [pc |-> "write", mode |-> m, retention |-> r]]
          /\ confirmed' = IF NeedsConfirm(m) THEN confirmed \cup {m} ELSE confirmed
          /\ UNCHANGED <<config, sent>>
        BY <1>1 DEF PutConfig
    <2>2. edit' \in [Editors -> Edit]
        BY <2>1 DEF Confirmations, Edit
    <2>3. m \in Intrusive => m \in confirmed'
        BY <2>1 DEF NeedsConfirm, Confirmations
    <2>4. edit'[x].mode = m /\ \A y \in Editors : y # x => edit'[y] = edit[y]
        BY <2>1 DEF Confirmations
    <2>5. confirmed \subseteq confirmed'
        BY <2>1
    <2> QED BY <2>1, <2>2, <2>3, <2>4, <2>5 DEF Confirmations
<1>2. ASSUME NEW x \in Editors, WriteConfig(x) PROVE Confirmations'
    <2>1. /\ edit[x].pc = "write" /\ edit' = [edit EXCEPT ![x] = NoEdit]
          /\ config' = [config EXCEPT !.mode = edit[x].mode, !.retention = edit[x].retention]
          /\ UNCHANGED <<sent, confirmed>>
        BY <1>2 DEF WriteConfig
    <2>2. edit[x] \in Edit
        BY DEF Confirmations
    <2>3. NoEdit \in Edit /\ NoEdit.pc = "idle"
        BY ShadowAssumption DEF NoEdit, Edit, Modes
    <2>4. config'.mode = edit[x].mode /\ config' \in [mode : Modes, retention : Retentions, token : Nat]
        BY <2>1, <2>2 DEF Confirmations, Edit
    <2>5. edit' \in [Editors -> Edit]
        BY <2>1, <2>3 DEF Confirmations
    <2> QED BY <2>1, <2>3, <2>4, <2>5 DEF Confirmations
<1>3. CASE RotateIngestToken
    <2>1. config' = [config EXCEPT !.token = @ + 1] /\ UNCHANGED <<edit, sent, confirmed>>
        BY <1>3 DEF RotateIngestToken, NewToken
    <2> QED BY <2>1 DEF Confirmations
<1>4. ASSUME NEW e \in EventIds, DeliverAlert(e) PROVE Confirmations'
    <2>1. /\ UNCHANGED <<config, edit, confirmed>>
          /\ \/ sent' = sent
             \/ config.mode \in Intrusive /\ sent' = sent \cup {[event |-> e, mode |-> config.mode]}
        BY <1>4 DEF DeliverAlert
    <2> QED BY <2>1 DEF Confirmations
<1>5. CASE UNCHANGED <<config, edit, sent, confirmed>>
    BY <1>5 DEF Confirmations
<1> QED BY <1>1, <1>2, <1>3, <1>4, <1>5
        DEF ShadowNext, AddHost, UpdateHost, RemoveHost, OnlyHosts, IngestEvent

-----------------------------------------------------------------------------
(* The steps and the theorems.                                             *)

IInv == Rows /\ Running /\ SecretsKnown /\ Dates /\ Confirmations

LEMMA Inited == Init => IInv
<1> SUFFICES ASSUME Init PROVE IInv
    OBVIOUS
<1>1. /\ made \in 0..MaxSecrets /\ sa \in [Keys -> KeyRows]
      /\ \A k \in Keys : sa[k].secret <= made /\ sa[k].previous = 0
      /\ \A k \in Keys : sa[k].status # "free" => sa[k].secret # 0
      /\ \A k, l \in Keys : sa[k].secret = sa[l].secret /\ sa[k].secret # 0 => k = l
    BY InitialSecrets
<1>2. made \in Nat
    BY <1>1, Numbers
<1>3. SecretsKnown
    BY <1>1, <1>2 DEF SecretsKnown
<1>4. InitialPolicy \in [Keys -> PolicyRows]
    <2>1. Due \subseteq Nat
        BY DEF Due
    <2>2. Policy \subseteq PolicyRows
        BY <2>1 DEF Policy, PolicyRows
    <2> QED BY <2>2, SchedulerAssumption
<1>5. Rows
    BY <1>1, <1>4 DEF Init, Rows
<1>6. Asleep \in Loops /\ NoCall \in Call
    BY Numbers DEF Asleep, Loops, NoCall, Call
<1>7. Running
    BY <1>6 DEF Init, Running, Asleep, NoCall
<1>8. Dates
    <2>1. policy = InitialPolicy /\ loop = [p \in Procs |-> Asleep] /\ now = 0
        BY DEF Init
    <2>2. \A k \in Keys : policy[k].next # None => policy[k].enabled /\ policy[k].interval \in Intervals
        BY <1>5, <2>1, SchedulerAssumption DEF Rows, PolicyRows
    <2> QED BY <2>1, <2>2 DEF Dates, Asleep
<1>9. Confirmations
    <2>1. NoEdit \in Edit /\ NoEdit.pc = "idle"
        BY ShadowAssumption DEF NoEdit, Edit, Modes
    <2> QED BY <2>1, ShadowAssumption DEF Init, ShadowInit, Confirmations, Modes
<1> QED BY <1>3, <1>5, <1>7, <1>8, <1>9 DEF IInv

\* Steps that touch one part leave the others as they were.
LEMMA SecretsSame == SecretsKnown /\ UNCHANGED keyVars => SecretsKnown'
BY DEF SecretsKnown, keyVars

LEMMA DatesSame == Dates /\ UNCHANGED <<policy, loop, now>> => Dates'
BY DEF Dates, Steady

LEMMA ConfirmationsSame == Confirmations /\ UNCHANGED <<config, edit, sent, confirmed>> => Confirmations'
BY DEF Confirmations

LEMMA RunningKept ==
    ASSUME Running, UNCHANGED <<loop, call>>, RowsStay
    PROVE  Running'
BY DEF Running, RowsStay

LEMMA KeySteps == ASSUME IInv, KeyStep PROVE IInv'
<1> USE DEF IInv
<1>1. ASSUME NEW k \in Keys, CreateServiceAccount(k) PROVE IInv'
    <2>1. /\ Insert(k) /\ UNCHANGED <<ends, policy, orgInterval, loop, call, now, config, edit, sent, confirmed>>
        BY <1>1 DEF CreateServiceAccount, Quiet, tables, shadowVars
    <2>2. sa' \in [Keys -> KeyRows] /\ made' \in 0..MaxSecrets /\ SecretsKnown' /\ RowsStay
        BY <2>1, InsertKeeps
    <2> QED BY <2>1, <2>2, RunningKept, DatesSame, ConfirmationsSame DEF Rows
<1>2. ASSUME NEW c \in Calls, NEW k \in Keys, RotateNow(c, k) \/ Regenerate(c, k) PROVE IInv'
    <2>1. /\ UNCHANGED <<keyVars, policy, orgInterval, loop, now, config, edit, sent, confirmed>>
          /\ Live(k)
          /\ \/ call' = [call EXCEPT ![c] = [pc |-> "rotateNow", key |-> k, overlap |-> OverlapOf(k)]]
             \/ call' = [call EXCEPT ![c] = [NoCall EXCEPT !.pc = "regenerate", !.key = k]]
        BY <1>2 DEF RotateNow, Regenerate, Quiet, tables, shadowVars
    <2>2. PICK w : w = [NoCall EXCEPT !.pc = "regenerate", !.key = k]
        OBVIOUS
    <2>3. w = [pc |-> "regenerate", key |-> k, overlap |-> DefaultOverlap]
        BY <2>2 DEF NoCall
    <2>4. OverlapOf(k) \in Overlaps
        BY DEF OverlapOf, Rows, PolicyRows
    <2>5. call' \in [Calls -> Call] /\ call'[c].key = k /\ \A x \in Calls : x # c => call'[x] = call[x]
        <3>1. PICK o \in Overlaps : o = OverlapOf(k)
            BY <2>4
        <3>2. w \in Call
            BY <2>3, Numbers DEF Call
        <3>3. [pc |-> "rotateNow", key |-> k, overlap |-> o] \in Call
            BY DEF Call
        <3>4. PICK v \in Call : v.key = k /\ call' = [call EXCEPT ![c] = v]
            BY <2>1, <2>2, <2>3, <3>1, <3>2, <3>3
        <3> QED BY <3>4 DEF Running
    <2>6. Running'
        BY <2>1, <2>5 DEF Running, Live, keyVars
    <2>7. Rows'
        BY <2>1 DEF Rows, keyVars
    <2> QED BY <2>1, <2>6, <2>7, SecretsSame, DatesSame, ConfirmationsSame
<1>3. ASSUME NEW c \in Calls, CommitRotateNow(c) \/ CommitRegenerate(c) PROVE IInv'
    <2>1. /\ UNCHANGED <<policy, orgInterval, loop, now, config, edit, sent, confirmed>>
          /\ call' = [call EXCEPT ![c] = NoCall] /\ call[c].pc # "idle"
          /\ RotateSecret(call[c].key, call[c].overlap) \/ ReplaceSecret(call[c].key)
        BY <1>3 DEF CommitRotateNow, CommitRegenerate, Quiet, tables, shadowVars
    <2>2. /\ call[c].key \in Keys /\ call[c].overlap \in Overlaps /\ sa[call[c].key].secret # 0
        BY <2>1 DEF Running, Call, SecretsKnown
    <2>3. sa' \in [Keys -> KeyRows] /\ made' \in 0..MaxSecrets /\ SecretsKnown' /\ RowsStay
        BY <2>1, <2>2, RotateKeeps, ReplaceKeeps
    <2>4. NoCall \in Call /\ NoCall.pc = "idle"
        BY Numbers DEF NoCall, Call
    <2>5. Running'
        BY <2>1, <2>3, <2>4 DEF Running, RowsStay
    <2> QED BY <2>1, <2>3, <2>5, DatesSame, ConfirmationsSame DEF Rows
<1>4. ASSUME NEW k \in Keys, RevokeServiceAccount(k) PROVE IInv'
    <2>1. /\ Revoke(k) /\ UNCHANGED <<made, ends, policy, orgInterval, loop, call, now, config, edit, sent, confirmed>>
        BY <1>4 DEF RevokeServiceAccount, Quiet, tables, shadowVars
    <2>2. sa' \in [Keys -> KeyRows] /\ made' \in 0..MaxSecrets /\ SecretsKnown' /\ RowsStay
        BY <2>1, RevokeKeeps
    <2> QED BY <2>1, <2>2, RunningKept, DatesSame, ConfirmationsSame DEF Rows
<1> QED BY <1>1, <1>2, <1>3, <1>4 DEF KeyStep

LEMMA SettingsSteps == ASSUME IInv, SettingsStep PROVE IInv'
<1> USE DEF IInv
<1>1. ASSUME NEW i \in Intervals \cup {None}, PutOrgPolicy(i) PROVE IInv'
    <2>1. orgInterval' = i /\ UNCHANGED <<keyVars, policy, loop, call, now, config, edit, sent, confirmed>>
        BY <1>1 DEF PutOrgPolicy, SetOrgPolicy, Quiet, shadowVars
    <2> QED BY <2>1, SecretsSame, DatesSame, ConfirmationsSame DEF Rows, Running, keyVars
<1>2. ASSUME NEW k \in Keys, NEW b \in BOOLEAN, NEW i \in Intervals \cup {None}, NEW o \in Overlaps,
             NEW a \in Anchors, PutKeyPolicy(k, b, i, o, a)
      PROVE  IInv'
    <2>1. /\ SetKeyPolicy(k, b, i, o, a)
          /\ UNCHANGED <<keyVars, orgInterval, loop, call, now, config, edit, sent, confirmed>>
        BY <1>2 DEF PutKeyPolicy, Quiet, shadowVars
    <2>2. policy' \in [Keys -> PolicyRows] /\ Dates'
        BY <2>1, PutKeeps
    <2> QED BY <2>1, <2>2, SecretsSame, ConfirmationsSame DEF Rows, Running, keyVars
<1>3. CASE (\E r \in Retentions : PutRetention(r)) \/ (\E t \in Tables : LogRequest(t))
    <2>1. UNCHANGED <<keyVars, policy, orgInterval, loop, call, now, config, edit, sent, confirmed>>
        BY <1>3 DEF PutRetention, LogRequest, Quiet, shadowVars
    <2> QED BY <2>1, SecretsSame, DatesSame, ConfirmationsSame DEF Rows, Running, keyVars
<1> QED BY <1>1, <1>2, <1>3 DEF SettingsStep

LEMMA LoopSteps == ASSUME IInv, NEW p \in Procs, LoopStep(p) PROVE IInv'
<1> USE DEF IInv
<1>a. loop[p] \in Loops /\ now \in Nat
    BY DEF Running, Rows
<1>1. CASE BeginRotations(p)
    <2>1. UNCHANGED <<keyVars, policy, orgInterval, call, now, config, edit, sent, confirmed>>
        BY <1>1 DEF BeginRotations, Quiet, tables, shadowVars
    <2>2. /\ loop' \in [Procs -> Loops] /\ Dates'
          /\ \A x \in Procs : loop'[x].pc = "claimed" => loop'[x].key \in Keys
        BY <1>1, BeginKeeps
    <2> QED BY <2>1, <2>2, SecretsSame, ConfirmationsSame DEF Rows, Running, keyVars
<1>2. ASSUME NEW q \in loop[p].todo, NEW a \in AnchorsFor(q.key), Claim(p, q, a) PROVE IInv'
    <2>1. UNCHANGED <<keyVars, orgInterval, call, now, config, edit, sent, confirmed>>
        BY <1>2 DEF Claim, Quiet, shadowVars
    <2>2. /\ loop' \in [Procs -> Loops] /\ policy' \in [Keys -> PolicyRows] /\ Dates'
          /\ \A x \in Procs : loop'[x].pc = "claimed" => loop'[x].key \in Keys
        BY <1>2, ClaimKeeps DEF AnchorsFor
    <2> QED BY <2>1, <2>2, SecretsSame, ConfirmationsSame DEF Rows, Running, keyVars
<1>3. CASE RotateClaimed(p)
    <2>1. /\ UNCHANGED <<policy, orgInterval, call, now, config, edit, sent, confirmed>>
          /\ loop[p].pc = "claimed" /\ RotateSecret(loop[p].key, loop[p].overlap)
          /\ loop' = [loop EXCEPT ![p] = Rotations(p, loop[p].todo)]
        BY <1>3 DEF RotateClaimed, Quiet, tables, shadowVars
    <2>2. loop[p].key \in Keys /\ loop[p].overlap \in Overlaps
        BY <1>a, <2>1 DEF Running, Loops
    <2>3. sa' \in [Keys -> KeyRows] /\ made' \in 0..MaxSecrets /\ SecretsKnown' /\ RowsStay
        BY <2>1, <2>2, RotateKeeps
    <2>4. PICK w : w = Rotations(p, loop[p].todo)
        OBVIOUS
    <2>5. /\ w \in Loops /\ w.todo = loop[p].todo /\ w.at <= now /\ w.pc \in {"rotations", "logs"}
          /\ w.todo # {} => w.at = loop[p].at /\ w.pc = "rotations"
        BY <1>a, <2>4, RotationsLeft
    <2>6. loop' = [loop EXCEPT ![p] = w]
        BY <2>1, <2>4
    <2>7. /\ w.todo \subseteq loop[p].todo /\ w.pc # "claimed"
          /\ w.todo # {} => w.at = loop[p].at /\ w.pc \in {"rotations", "claimed"}
        BY <2>5
    <2>8. /\ loop' \in [Procs -> Loops] /\ Dates'
          /\ \A x \in Procs : loop'[x].pc = "claimed" => loop'[x].key \in Keys
        BY <1>a, <2>1, <2>5, <2>6, <2>7, LoopMoves DEF Running
    <2> QED BY <2>1, <2>3, <2>8, ConfirmationsSame DEF Rows, Running, RowsStay
<1>4. CASE PurgeLogs(p) \/ PurgeEvents(p)
    <2>1. /\ UNCHANGED <<keyVars, policy, orgInterval, call, now, config, edit, sent, confirmed>>
          /\ loop[p].pc \in {"logs", "shadow"} /\ (Goto(p, "shadow") \/ Goto(p, "sleep"))
        BY <1>4 DEF PurgeLogs, PurgeEvents, Quiet, tables, shadowVars
    <2>2. PICK pc \in {"shadow", "sleep"} : loop' = [loop EXCEPT ![p].pc = pc]
        BY <2>1 DEF Goto
    <2>3. PICK w : w = [loop[p] EXCEPT !.pc = pc]
        OBVIOUS
    <2>4. /\ w \in Loops /\ w.todo = loop[p].todo /\ w.pc = pc /\ w.at = loop[p].at
        BY <1>a, <2>2, <2>3 DEF Loops
    <2>5. loop' = [loop EXCEPT ![p] = w]
        BY <2>2, <2>3 DEF Running
    <2>6. loop[p].todo = {} /\ loop[p].at <= now /\ w.pc # "claimed"
        BY <2>1, <2>2, <2>4 DEF Dates
    <2>7. /\ loop' \in [Procs -> Loops] /\ Dates'
          /\ \A x \in Procs : loop'[x].pc = "claimed" => loop'[x].key \in Keys
        BY <1>a, <2>1, <2>4, <2>5, <2>6, LoopMoves DEF Running
    <2> QED BY <2>1, <2>7, SecretsSame, ConfirmationsSame DEF Rows, Running, keyVars
<1> QED BY <1>1, <1>2, <1>3, <1>4 DEF LoopStep

LEMMA FailureSteps == ASSUME IInv, NEW p \in Procs, JobFails(p) \/ Crash(p) PROVE IInv'
<1> USE DEF IInv
<1>1. PICK pc \in {"logs", "shadow", "sleep"} :
          loop' = [loop EXCEPT ![p] = [Asleep EXCEPT !.pc = pc]]
    <2>1. CASE JobFails(p)
        BY <2>1 DEF JobFails, AfterFailure
    <2>2. CASE Crash(p)
        <3>1. [Asleep EXCEPT !.pc = "sleep"] = Asleep
            BY DEF Asleep
        <3> QED BY <2>2, <3>1 DEF Crash
    <2> QED BY <2>1, <2>2
<1>2. PICK w : w = [Asleep EXCEPT !.pc = pc]
    OBVIOUS
<1>3. w = [pc |-> pc, at |-> 0, todo |-> {}, key |-> None, overlap |-> DefaultOverlap]
    BY <1>2 DEF Asleep
<1>4. w \in Loops
    BY <1>3, Numbers DEF Loops
<1>5. now \in Nat /\ UNCHANGED <<keyVars, policy, orgInterval, now>> /\ loop' = [loop EXCEPT ![p] = w]
    BY <1>1, <1>2 DEF JobFails, Crash, Rows, Quiet, tables
<1>6. /\ loop' \in [Procs -> Loops] /\ Dates'
      /\ \A x \in Procs : loop'[x].pc = "claimed" => loop'[x].key \in Keys
    <2>1. w.todo = {} /\ w.at <= now /\ w.pc # "claimed" /\ w.todo \subseteq loop[p].todo
        BY <1>3, <1>5
    <2> QED BY <1>4, <1>5, <2>1, LoopMoves DEF Running
<1>7. CASE JobFails(p)
    <2>1. UNCHANGED <<call, config, edit, sent, confirmed>>
        BY <1>7 DEF JobFails, Quiet, shadowVars
    <2> QED BY <1>5, <1>6, <2>1, SecretsSame, ConfirmationsSame DEF Rows, Running, keyVars
<1>8. CASE Crash(p)
    <2>1. /\ call' = [c \in Calls |-> NoCall] /\ edit' = [x \in Editors |-> NoEdit]
          /\ UNCHANGED <<config, sent, confirmed>>
        BY <1>8 DEF Crash, ShadowCrash
    <2>2. NoCall \in Call /\ NoCall.pc = "idle" /\ NoEdit \in Edit /\ NoEdit.pc = "idle"
        BY Numbers, ShadowAssumption DEF NoCall, Call, NoEdit, Edit, Modes
    <2>3. Confirmations' /\ Running'
        BY <1>5, <1>6, <2>1, <2>2 DEF Confirmations, Running, keyVars
    <2> QED BY <1>5, <1>6, <2>3, SecretsSame DEF Rows, keyVars
<1> QED BY <1>7, <1>8

LEMMA Stepped == ASSUME IInv, [Next]_vars PROVE IInv'
<1> USE DEF IInv
<1>1. CASE Tick
    <2>1. now' = now + 1 /\ UNCHANGED <<keyVars, policy, orgInterval, loop, call, config, edit, sent, confirmed>>
        BY <1>1 DEF Tick, tables, shadowVars
    <2>2. \A p \in Procs : loop[p].at \in Nat
        BY DEF Running, Loops
    <2>3. Rows' /\ Running'
        BY <2>1 DEF Rows, Running, keyVars
    <2>4. Dates'
        BY <2>1, <2>2 DEF Dates, Steady, Rows
    <2> QED BY <2>1, <2>3, <2>4, SecretsSame, ConfirmationsSame
<1>2. CASE ShadowNext /\ UNCHANGED <<now, keyVars, tables, loop, call, faults>>
    BY <1>2, ShadowKeeps, SecretsSame, DatesSame DEF Rows, Running, keyVars, tables
<1>3. CASE UNCHANGED vars
    BY <1>3, SecretsSame, DatesSame, ConfirmationsSame DEF vars, Rows, Running, keyVars, tables, shadowVars
<1> QED BY <1>1, <1>2, <1>3, KeySteps, SettingsSteps, LoopSteps, FailureSteps DEF Next

\* The rows, the loops and the calls at any moment of any run.
THEOREM SchedulerInvariant == Spec => []IInv
<1>1. Init => IInv
    BY Inited
<1>2. IInv /\ [Next]_vars => IInv'
    BY Stepped
<1> QED BY <1>1, <1>2, PTL DEF Spec

\* rotate_service_account_key and regenerate_service_account_key: whatever
\* rotations, regenerations and failures follow, a superseded secret stops
\* working by the end recorded for it.
THEOREM SupersededSecretsDie == Spec => []SupersededDies
<1>1. IInv => SupersededDies
    <2> SUFFICES ASSUME IInv, NEW k \in Keys, NEW s \in Secrets, Accepts(k, s), s # sa[k].secret
                 PROVE  ends[s] # None /\ now < ends[s]
        BY DEF SupersededDies
    <2>1. s = sa[k].previous /\ sa[k].until > now /\ s # 0
        BY DEF Accepts, Secrets
    <2>2. ends[s] = sa[k].until /\ sa[k].until \in Nat /\ now \in Nat
        BY <2>1 DEF IInv, SecretsKnown, Rows, KeyRows
    <2> QED BY <2>1, <2>2, Numbers
<1> QED BY <1>1, SchedulerInvariant, PTL

\* put_shadow_ai_config_endpoint asks for a confirmation from what it has
\* read, and writes later: no alert goes out in a mode nobody confirmed.
THEOREM AlertsWereConfirmed == Spec => []AlertsAreConfirmed
<1>1. IInv => AlertsAreConfirmed
    BY DEF IInv, Confirmations, AlertsAreConfirmed
<1> QED BY <1>1, SchedulerInvariant, PTL

\* run_due_rotations claims by UPDATE ... WHERE next_rotation_at = <as read>:
\* what is claimed is enabled and due as it stands, and moves by its present
\* interval, however many processes and PUTs run beside it.
THEOREM ClaimsHonourPolicy == Spec => ClaimHonoursPolicy
<1> DEFINE Moved(p) == \E a \in Anchors :
               policy'[loop'[p].key].next = NextRotation(loop[p].at, policy[loop'[p].key].interval, a)
           Honoured(p) == /\ policy[loop'[p].key].enabled /\ policy[loop'[p].key].next <= now
                          /\ Moved(p)
           Held == \A p \in Procs : loop[p].pc = "rotations" /\ loop'[p].pc = "claimed" => Honoured(p)
<1>1. ASSUME IInv, [Next]_vars, NEW p \in Procs, loop[p].pc = "rotations", loop'[p].pc = "claimed"
      PROVE  Honoured(p)
    <2>a. loop \in [Procs -> Loops]
        BY <1>1 DEF IInv, Running
    <2>1. PICK q \in loop[p].todo : \E a \in Anchors : Claim(p, q, a)
        <3>1. loop' # loop
            BY <1>1
        <3>2. ~KeyStep /\ ~SettingsStep /\ ~Tick /\ ~UNCHANGED vars
            BY <3>1 DEF KeyStep, SettingsStep, Tick, vars, CreateServiceAccount, RotateNow,
               CommitRotateNow, Regenerate, CommitRegenerate, RevokeServiceAccount, PutOrgPolicy,
               PutKeyPolicy, PutRetention, LogRequest
        <3>3. ASSUME NEW x \in Procs, JobFails(x) \/ Crash(x) PROVE FALSE
            <4>1. \/ loop' = [loop EXCEPT ![x] = [Asleep EXCEPT !.pc = AfterFailure(loop[x].pc)]]
                  \/ loop' = [loop EXCEPT ![x] = Asleep]
                BY <3>3 DEF JobFails, Crash
            <4>2. AfterFailure(loop[x].pc) # "claimed"
                BY DEF AfterFailure
            <4>3. x # p
                <5>1. [Asleep EXCEPT !.pc = AfterFailure(loop[x].pc)].pc = AfterFailure(loop[x].pc)
                      /\ Asleep.pc = "sleep"
                    BY DEF Asleep
                <5> QED BY <1>1, <2>a, <4>1, <4>2, <5>1
            <4> QED BY <1>1, <2>a, <4>1, <4>3
        <3>4. PICK x \in Procs : LoopStep(x)
            BY <1>1, <3>1, <3>2, <3>3 DEF Next
        <3>5. x = p
            <4>1. \E w : loop' = [loop EXCEPT ![x] = w]
                <5>1. CASE BeginRotations(x)
                    BY <5>1 DEF BeginRotations
                <5>2. ASSUME NEW q \in loop[x].todo, NEW a \in AnchorsFor(q.key), Claim(x, q, a)
                      PROVE  \E w : loop' = [loop EXCEPT ![x] = w]
                    BY <5>2 DEF Claim
                <5>3. CASE RotateClaimed(x) \/ PurgeLogs(x) \/ PurgeEvents(x)
                    BY <2>a, <5>3 DEF RotateClaimed, PurgeLogs, PurgeEvents, Goto
                <5> QED BY <3>4, <5>1, <5>2, <5>3 DEF LoopStep
            <4> QED BY <1>1, <2>a, <4>1
        <3>6. ~BeginRotations(p) /\ ~RotateClaimed(p) /\ ~PurgeLogs(p) /\ ~PurgeEvents(p)
            BY <1>1 DEF BeginRotations, RotateClaimed, PurgeLogs, PurgeEvents
        <3> QED BY <3>4, <3>5, <3>6 DEF LoopStep, AnchorsFor
    <2>2. PICK a \in Anchors : Claim(p, q, a)
        BY <2>1
    <2>3. /\ q.key \in Keys /\ q.due \in Nat /\ loop[p].at \in Nat /\ now \in Nat
          /\ q.due <= loop[p].at /\ loop[p].at <= now /\ Steady(q) /\ loop[p] \in Loops
          /\ policy \in [Keys -> PolicyRows]
        BY <1>1, <2>1 DEF IInv, Running, Loops, Candidates, Dates, Rows
    <2>4. Unclaimed(q)
        <3> SUFFICES ASSUME ~Unclaimed(q) PROVE FALSE
            OBVIOUS
        <3>1. PICK w : w = Rotations(p, loop[p].todo \ {q})
            OBVIOUS
        <3>2. loop' = [loop EXCEPT ![p] = w]
            BY <2>2, <3>1 DEF Claim
        <3>3. w.pc \in {"rotations", "logs"}
            BY <1>1, <2>3, <3>1, RotationsLeft DEF IInv
        <3> QED BY <1>1, <2>a, <3>2, <3>3
    <2>5. policy' = [policy EXCEPT ![q.key].next = NextRotation(loop[p].at, q.interval, a)]
        BY <2>2, <2>4 DEF Claim
    <2>6. loop'[p].key = q.key
        BY <2>2, <2>3, <2>4, <2>a DEF Claim, Loops
    <2>7. /\ policy[q.key].next = q.due /\ q.interval = policy[q.key].interval
          /\ policy[q.key].enabled
        BY <1>1, <2>3, <2>4, Numbers DEF Unclaimed, Steady, IInv, Dates
    <2>8. policy'[q.key].next = NextRotation(loop[p].at, policy[q.key].interval, a)
        BY <2>3, <2>5, <2>7 DEF PolicyRows
    <2>9. Moved(p)
        BY <2>6, <2>8
    <2> QED BY <2>3, <2>6, <2>7, <2>9
<1> HIDE DEF Honoured
<1>2. IInv /\ [Next]_vars => [Held]_vars
    BY <1>1
<1> HIDE DEF Held
<1>3. Spec => [][Held]_vars
    BY <1>2, SchedulerInvariant, PTL DEF Spec
<1> QED BY <1>3 DEF ClaimHonoursPolicy, Held, Honoured, Moved

-----------------------------------------------------------------------------
(* Access schedules.                                                       *)

\* Administrator a has committed a write of s, and its cache update is due.
Bringing(a, s) == admin[a].pc = "cache" /\ admin[a].slot = s

Following(s) ==
    /\ Settled(s) => cache[s] = row[s]
    /\ s \notin excused => \A a \in Admins : Bringing(a, s) =>
          /\ admin[a].value = row[s]
          /\ \A b \in Admins : Bringing(b, s) => a = b

\* Functions on their domains, and a writer that has a slot to write.
Tabled ==
    /\ row = [s \in Slots |-> row[s]] /\ cache = [s \in Slots |-> cache[s]]
    /\ req = [r \in Requests |-> req[r]]
    /\ admin = [a \in Admins |-> [pc |-> admin[a].pc, slot |-> admin[a].slot,
                                  value |-> admin[a].value, seen |-> admin[a].seen]]
    /\ \A a \in Admins : admin[a].pc # "idle" => admin[a].slot \in Slots

ZoneFollows == Zone \notin excused => cacheZone = zone

WindowInv == Tabled /\ ZoneFollows /\ \A s \in Slots : Following(s)

LEMMA WindowsInited == ScheduleInit => WindowInv
<1> SUFFICES ASSUME ScheduleInit PROVE WindowInv
    OBVIOUS
<1>1. row = [s \in Slots |-> row[s]] /\ cache = row
    BY ScheduleAssumption DEF ScheduleInit
<1>2. Tabled
    BY <1>1 DEF ScheduleInit, Tabled, Idle
<1>3. ZoneFollows /\ \A s \in Slots : Following(s)
    BY <1>1 DEF ScheduleInit, ZoneFollows, Following, Bringing, Idle
<1> QED BY <1>2, <1>3 DEF WindowInv

\* A step that leaves a slot, its writers and its excuse alone.
LEMMA FollowingKept ==
    ASSUME NEW s \in Slots, Following(s), row'[s] = row[s], cache'[s] = cache[s],
           s \in excused => s \in excused',
           \A a \in Admins : Bringing(a, s)' <=> Bringing(a, s),
           \A a \in Admins : Bringing(a, s) => admin'[a].value = admin[a].value
    PROVE  Following(s)'
BY DEF Following, Settled, Committed, Bringing

\* An administrator's request reads; nothing is committed.
LEMMA WriteKeeps ==
    ASSUME WindowInv, NEW a \in Admins, NEW s \in Slots, NEW v, Begin(a, "write", s, v)
    PROVE  WindowInv'
<1>1. /\ UNCHANGED <<row, cache, req, zone, cacheZone, excused>> /\ admin[a].pc = "idle"
      /\ admin' = [admin EXCEPT ![a] = [pc |-> "write", slot |-> s, value |-> v, seen |-> row[s]]]
    BY DEF Begin
<1>2. Tabled'
    BY <1>1 DEF WindowInv, Tabled
<1>3. \A b \in Admins : admin'[b] = IF b = a THEN [pc |-> "write", slot |-> s, value |-> v, seen |-> row[s]]
                                     ELSE admin[b]
    BY <1>1 DEF WindowInv, Tabled
<1>4. ASSUME NEW x \in Slots PROVE Following(x)'
    BY <1>1, <1>3, FollowingKept DEF WindowInv, Bringing
<1> QED BY <1>1, <1>2, <1>4 DEF WindowInv, ZoneFollows

LEMMA RequestsBegin ==
    ASSUME NEW a \in Admins,
           \/ \E w \in Windows : \/ PutOrgSchedule(a, w)
                                 \/ \E t \in Teams : PutTeamSchedule(a, t, w)
                                 \/ \E s \in Accounts : PutAccountSchedule(a, s, w)
           \/ \E l \in Layers : DeleteSchedule(a, l)
           \/ \E d \in Days : AddHoliday(a, d) \/ DeleteHoliday(a, d)
    PROVE  \E s \in Slots : \E v : Begin(a, "write", s, v)
BY DEF PutOrgSchedule, PutTeamSchedule, PutAccountSchedule, DeleteSchedule, AddHoliday,
       DeleteHoliday, Slots, Layers

\* A commit excuses its slot when another writer's cache update is due, and
\* otherwise is the only one to bring the new value.
LEMMA CommitKeeps == ASSUME WindowInv, NEW a \in Admins, Commit(a) PROVE WindowInv'
<1>0. PICK k : k = admin[a]
    OBVIOUS
<1>a. PICK s \in Slots : s = k.slot
    BY <1>0 DEF WindowInv, Tabled, Commit
<1>1. /\ k.pc = "write" /\ Tabled
      /\ UNCHANGED <<cache, req, zone, cacheZone>>
    BY <1>0 DEF WindowInv, Commit
<1>2. /\ row' = IF Conflicts(k) \/ DeletesNothing(k) THEN row ELSE [row EXCEPT ![s] = k.value]
      /\ admin' = [admin EXCEPT ![a] = IF Conflicts(k) \/ FindsNoRow(k)
                                       THEN Idle ELSE [k EXCEPT !.pc = "cache"]]
      /\ excused' = IF Committed(s) \/ DeletesNothing(k) THEN excused \cup {s} ELSE excused
    BY <1>0, <1>a DEF Commit
<1>3. /\ row' = [x \in Slots |-> row'[x]] /\ \A x \in Slots : x # s => row'[x] = row[x]
      /\ \/ row'[s] = k.value
         \/ (Conflicts(k) \/ DeletesNothing(k)) /\ row'[s] = row[s]
    BY <1>1, <1>2 DEF Tabled
<1>4. /\ admin'[a] = Idle \/ admin'[a] = [k EXCEPT !.pc = "cache"]
      /\ Conflicts(k) \/ FindsNoRow(k) <=> admin'[a] = Idle
      /\ \A b \in Admins : b # a => admin'[b] = admin[b]
      /\ DOMAIN admin' = Admins /\ admin' = [b \in Admins |-> admin'[b]]
    BY <1>0, <1>1, <1>2 DEF Tabled, Idle
<1>5. [k EXCEPT !.pc = "cache"] = [pc |-> "cache", slot |-> s, value |-> k.value, seen |-> k.seen]
    BY <1>0, <1>a, <1>1 DEF Tabled
<1>6. Tabled'
    BY <1>1, <1>3, <1>4, <1>5 DEF Tabled, Idle
<1>7. ASSUME NEW x \in Slots, x # s PROVE Following(x)'
    <2>1. \A b \in Admins : (Bringing(b, x)' <=> Bringing(b, x)) /\ (Bringing(b, x) => b # a)
        BY <1>0, <1>a, <1>1, <1>4, <1>5, <1>7 DEF Bringing, Idle
    <2> QED BY <1>1, <1>2, <1>3, <1>4, <1>7, <2>1, FollowingKept DEF WindowInv
<1>8. ASSUME Committed(s) \/ DeletesNothing(k) PROVE Following(s)'
    BY <1>1, <1>2, <1>8 DEF Following, Settled
<1>9. ASSUME ~Committed(s), ~DeletesNothing(k) PROVE Following(s)'
    <2>1. \A b \in Admins : b # a => ~Bringing(b, s)'
        BY <1>4, <1>9 DEF Committed, Bringing
    <2>2. Following(s) /\ excused' = excused /\ cache' = cache
        BY <1>1, <1>2, <1>9 DEF WindowInv
    <2>3. CASE admin'[a] = Idle
        <3>1. row'[s] = row[s]
            BY <1>a, <1>2, <1>3, <1>4, <1>5, <1>9, <2>3 DEF Idle, FindsNoRow, Slots
        <3> QED BY <1>9, <2>1, <2>2, <2>3, <3>1 DEF Following, Settled, Committed, Bringing, Idle
    <2>4. CASE admin'[a] # Idle
        <3>1. row'[s] = k.value /\ Bringing(a, s)' /\ admin'[a].value = k.value
            BY <1>3, <1>4, <1>5, <1>9, <2>4 DEF Bringing
        <3> QED BY <2>1, <3>1 DEF Following, Settled, Committed, Bringing
    <2> QED BY <2>3, <2>4
<1>10. ZoneFollows'
    BY <1>1, <1>2 DEF WindowInv, ZoneFollows
<1> QED BY <1>6, <1>7, <1>8, <1>9, <1>10 DEF WindowInv

LEMMA SetCacheKeeps == ASSUME WindowInv, NEW a \in Admins, SetCache(a) PROVE WindowInv'
<1>0. PICK s \in Slots : s = admin[a].slot
    BY DEF WindowInv, Tabled, SetCache
<1>1. /\ admin[a].pc = "cache" /\ Tabled /\ Bringing(a, s)
      /\ UNCHANGED <<row, req, zone, cacheZone, excused>>
      /\ cache' = [cache EXCEPT ![s] = admin[a].value]
      /\ admin' = [admin EXCEPT ![a] = Idle]
    BY <1>0 DEF WindowInv, SetCache, Bringing
<1>2. /\ admin'[a] = Idle /\ \A b \in Admins : b # a => admin'[b] = admin[b]
      /\ cache'[s] = admin[a].value /\ \A x \in Slots : x # s => cache'[x] = cache[x]
    BY <1>1 DEF Tabled
<1>3. Tabled'
    BY <1>1, <1>2 DEF Tabled, Idle
<1>4. ASSUME NEW x \in Slots, x # s PROVE Following(x)'
    <2>1. \A b \in Admins : (Bringing(b, x)' <=> Bringing(b, x)) /\ (Bringing(b, x) => b # a)
        BY <1>0, <1>2, <1>4 DEF Bringing, Idle
    <2> QED BY <1>1, <1>2, <1>4, <2>1, FollowingKept DEF WindowInv
<1>5. Following(s)'
    BY <1>1, <1>2 DEF WindowInv, Following, Settled, Bringing, Idle
<1> QED BY <1>1, <1>3, <1>4, <1>5 DEF WindowInv, ZoneFollows

LEMMA RestartKeeps == ASSUME WindowInv, Restart PROVE WindowInv'
<1>1. /\ admin' = [b \in Admins |-> Idle] /\ req' = [r \in Requests |-> Rest("ready")]
      /\ UNCHANGED <<row, zone>> /\ Warm /\ Tabled
    BY DEF WindowInv, Restart
<1>2. cache' = [s \in Slots |-> cache'[s]]
    BY <1>1 DEF Warm, Tabled
<1>3. Tabled'
    BY <1>1, <1>2 DEF Tabled, Idle
<1>4. ZoneFollows' /\ \A s \in Slots : Following(s)'
    BY <1>1 DEF Warm, ZoneFollows, Following, Settled, Bringing, Idle
<1> QED BY <1>3, <1>4 DEF WindowInv

LEMMA WindowsStepped == ASSUME WindowInv, [ScheduleNext]_accessVars PROVE WindowInv'
<1>1. CASE UNCHANGED <<row, zone, cache, cacheZone, excused, admin, req>>
    BY <1>1 DEF WindowInv, Tabled, ZoneFollows, Following, Settled, Committed, Bringing
<1>2. ASSUME NEW r \in Requests, GetActiveOverride(r) \/ \E a \in Accounts : CheckAccessSchedule(r, a)
      PROVE  WindowInv'
    <2>1. UNCHANGED <<row, zone, cache, cacheZone, excused, admin>> /\ \E q : req' = [req EXCEPT ![r] = q]
        BY <1>2 DEF GetActiveOverride, CheckAccessSchedule, scheduleVars
    <2>2. req' = [x \in Requests |-> req'[x]]
        BY <2>1 DEF WindowInv, Tabled
    <2> QED BY <2>1, <2>2 DEF WindowInv, Tabled, ZoneFollows, Following, Settled, Committed, Bringing
<1>3. ASSUME NEW z \in Zones, SetZone(z) PROVE WindowInv'
    <2>1. UNCHANGED <<row, cache, req, admin>> /\ excused' = excused \cup {Zone}
        BY <1>3 DEF SetZone
    <2>2. \A s \in Slots : Following(s)'
        BY <2>1 DEF WindowInv, Following, Settled, Committed, Bringing
    <2> QED BY <2>1, <2>2 DEF WindowInv, Tabled, ZoneFollows
<1>4. CASE \/ HourPasses \/ UNCHANGED accessVars
           \/ \E o \in Overrides : RevokeOverride(o) \/ \E a \in Accounts, t \in Clock : GrantOverride(o, a, t)
    BY <1>1, <1>4 DEF HourPasses, RevokeOverride, GrantOverride, accessVars, scheduleVars
<1> QED BY <1>2, <1>3, <1>4, RequestsBegin, WriteKeeps, CommitKeeps, SetCacheKeeps, RestartKeeps
        DEF ScheduleNext

\* The cache, its writers and the tables, at any moment of any run.
THEOREM CacheInvariant == ScheduleSpec => []WindowInv
<1>1. ScheduleInit => WindowInv
    BY WindowsInited
<1>2. WindowInv /\ [ScheduleNext]_accessVars => WindowInv'
    BY WindowsStepped
<1> QED BY <1>1, <1>2, PTL DEF ScheduleSpec

\* The schedule and holiday handlers commit, then set or drop the cache entry:
\* a slot whose writers did not overlap is cached as it was committed.
THEOREM CacheFollows == ScheduleSpec => []CacheAsCommitted
<1>1. WindowInv => CacheAsCommitted
    BY DEF WindowInv, Following, CacheAsCommitted
<1>2. ScheduleSpec => []WindowInv
    BY CacheInvariant
<1> QED BY <1>1, <1>2, PTL

\* resolve_access_schedule_decision lets no call in that a committed schedule of
\* any of its layers forbids, for any nesting of windows, days and zones.
THEOREM WindowsHold == ScheduleSpec => CommittedWindowsHold
<1> DEFINE Held == \A r \in Requests, a \in Accounts :
          /\ CheckAccessSchedule(r, a) /\ req'[r].pc = "allowed"
          /\ \A s \in LayersOf(a) \cup Days \cup {Zone} : Settled(s)
          => OpenByCommitted(a)
<1>1. WindowInv => Held
    <2> SUFFICES ASSUME WindowInv, NEW r \in Requests, NEW a \in Accounts,
                        CheckAccessSchedule(r, a), req'[r].pc = "allowed",
                        \A s \in LayersOf(a) \cup Days \cup {Zone} : Settled(s)
                 PROVE  OpenByCommitted(a)
        BY DEF Held
    <2>1. ScheduleAllows(cache, cacheZone, a, clock)
        BY DEF CheckAccessSchedule, WindowInv, Tabled
    <2>2. LayersOf(a) \subseteq Slots /\ Days \subseteq Slots
        BY ScheduleAssumption DEF LayersOf, Slots, Layers
    <2>3. \A s \in LayersOf(a) \cup Days : cache[s] = row[s]
        BY <2>2 DEF WindowInv, Following
    <2>4. cacheZone = zone
        BY DEF WindowInv, ZoneFollows, Settled
    <2>5. {d \in Days : cache[d] # Unset} = {d \in Days : row[d] # Unset}
        BY <2>3
    <2> QED BY <2>1, <2>3, <2>4, <2>5 DEF ScheduleAllows, OpenByCommitted, IsWithinSchedule
<1> HIDE DEF Held
<1>a. ScheduleSpec => []WindowInv
    BY CacheInvariant
<1>2. ScheduleSpec => [][Held]_accessVars
    BY <1>1, <1>a, PTL
<1> QED BY <1>2 DEF CommittedWindowsHold, Held
=============================================================================
