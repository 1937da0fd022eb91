------------------------ MODULE FailoverMeteringProofs ------------------------
(***************************************************************************)
(* Two parts of the path a gateway call takes through a provider.          *)
(*                                                                         *)
(* What holds of KeyFailover for any number of keys, requests and          *)
(* administrators: the provider's rows stay consistent although a PUT      *)
(* counts the keys before it writes, and any row may go in between; and a  *)
(* key is down on the failures it had, although record_failure reads the   *)
(* shared state and writes it back later.                                  *)
(*                                                                         *)
(* What holds of Metering and UsageReport for any calls, models, providers *)
(* and ceilings: the rows, the two counters, the alerts and the reports    *)
(* agree on what a call cost, although they are written in commits of      *)
(* their own and any of them may fail.                                     *)
(***************************************************************************)
EXTENDS KeyFailover, UsageReport, Sums, TLAPS

Rows == [Keys -> Row \cup {None}]

IInv ==
    /\ row \in Rows /\ KeysConsistent
    /\ admin = [a \in Admins |-> admin[a]]
    /\ \A a \in Admins : admin[a].first \in BOOLEAN

IsPrimary(keyRows, k) == keyRows[k] # None /\ keyRows[k].primary

OnePrimary(keyRows) == \A k, l \in Keys : IsPrimary(keyRows, k) /\ IsPrimary(keyRows, l) => k = l

TargetsLive(keyRows) ==
    \A k \in Keys : keyRows[k] # None /\ keyRows[k].target # None =>
        keyRows[k].target \in Keys \ {k} /\ keyRows[keyRows[k].target] # None

\* Consistent without its local definition.
LEMMA ConsistentRows ==
    ASSUME NEW keyRows
    PROVE  Consistent(keyRows) <=> OnePrimary(keyRows) /\ TargetsLive(keyRows)
<1> DEFINE live == {k \in Keys : keyRows[k] # None}
<1>1. Consistent(keyRows) <=> /\ \A k, l \in live : keyRows[k].primary /\ keyRows[l].primary => k = l
                              /\ \A k \in live : keyRows[k].target \in (live \ {k}) \cup {None}
    BY DEF Consistent
<1>2. (\A k, l \in live : keyRows[k].primary /\ keyRows[l].primary => k = l) <=> OnePrimary(keyRows)
    BY DEF OnePrimary, IsPrimary
<1>3. (\A k \in live : keyRows[k].target \in (live \ {k}) \cup {None}) <=> TargetsLive(keyRows)
    BY DEF TargetsLive
<1> QED BY <1>1, <1>2, <1>3

\* Rows that lose keys, and whose keys only drop what they had, stay consistent.
LEMMA FewerRows ==
    ASSUME NEW old, Consistent(old), NEW new,
           \A k \in Keys : new[k] # None =>
              /\ old[k] # None
              /\ new[k].primary => old[k].primary
              /\ new[k].target # None => new[k].target = old[k].target /\ new[new[k].target] # None
    PROVE  Consistent(new)
<1>1. OnePrimary(old) /\ TargetsLive(old)
    BY ConsistentRows
<1>2. OnePrimary(new)
    <2>1. \A k \in Keys : IsPrimary(new, k) => IsPrimary(old, k)
        BY DEF IsPrimary
    <2> QED BY <1>1, <2>1 DEF OnePrimary
<1>3. TargetsLive(new)
    BY <1>1 DEF TargetsLive
<1> QED BY <1>2, <1>3, ConsistentRows

LEMMA OneMoreVersion ==
    ASSUME NEW r \in Row
    PROVE  /\ [r EXCEPT !.version = OneMore(@, MaxWrites)] \in Row
           /\ [r EXCEPT !.version = OneMore(@, MaxWrites), !.group = FALSE] \in Row
<1>1. OneMore(r.version, MaxWrites) \in Versions
    BY FailoverAssumption DEF OneMore, Versions, Row
<1> QED BY <1>1 DEF Row

LEMMA UpsertKeeps == ASSUME IInv, NEW a \in Admins, Upsert(a) PROVE row' \in Rows /\ Consistent(row')
<1>1. CASE UNCHANGED row
    BY <1>1 DEF IInv, KeysConsistent
<1>2. ASSUME NEW k \in Live,
             row' = [row EXCEPT ![k].version = OneMore(@, MaxWrites), ![k].group = FALSE]
      PROVE  row' \in Rows /\ Consistent(row')
    <2> DEFINE new == [row[k] EXCEPT !.version = OneMore(@, MaxWrites), !.group = FALSE]
    <2>1. row[k] \in Row /\ k \in Keys /\ row \in Rows
        BY <1>2 DEF Live, IInv, Rows
    <2>2. new \in Row /\ new.primary = row[k].primary /\ new.target = row[k].target
        BY <2>1, OneMoreVersion DEF Row
    <2>3. row' = [row EXCEPT ![k] = new]
        BY <1>2
    <2> HIDE DEF new
    <2>4. row' \in Rows
        BY <2>1, <2>2, <2>3 DEF Rows
    <2>5. new # None
        BY <2>2, FailoverAssumption
    <2>6. row[k] # None /\ row'[k] = new /\ \A l \in Keys : l # k => row'[l] = row[l]
        BY <2>1, <2>3 DEF Live, Rows
    <2>7. OnePrimary(row) /\ TargetsLive(row)
        BY ConsistentRows DEF IInv, KeysConsistent
    <2>8. \A l \in Keys : row'[l] # None => row[l] # None /\ (row'[l].primary => row[l].primary)
                                          /\ row'[l].target = row[l].target
        BY <2>2, <2>6
    <2>9. \A l \in Keys : row[l] # None => row'[l] # None
        BY <2>5, <2>6
    <2>10. \A l \in Keys : row'[l] # None /\ row'[l].target # None => row'[row'[l].target] # None
        BY <2>7, <2>8, <2>9 DEF TargetsLive
    <2> QED BY <2>4, <2>8, <2>10, FewerRows DEF IInv, KeysConsistent
<1>3. ASSUME NEW k \in Unused,
             ~(admin[a].first /\ Primaries # {}),
             row' = [row EXCEPT ![k] = [primary |-> admin[a].first, enabled |-> FALSE,
                                        target |-> None, group |-> FALSE, version |-> 0]]
      PROVE  row' \in Rows /\ Consistent(row')
    <2> DEFINE new == [primary |-> admin[a].first, enabled |-> FALSE, target |-> None,
                       group |-> FALSE, version |-> 0]
    <2>1. k \in Keys /\ new \in Row /\ new.target = None /\ row \in Rows
          /\ new.primary = admin[a].first
        BY <1>3, FailoverAssumption DEF Unused, IInv, Row, Versions
    <2>2. row' = [row EXCEPT ![k] = new]
        BY <1>3
    <2> HIDE DEF new
    <2>3. row' \in Rows
        BY <2>1, <2>2 DEF Rows
    <2>4. \A l \in Keys : l # k => row'[l] = row[l]
        BY <2>1, <2>2 DEF Rows
    <2>5. row'[k] = new /\ new # None
        BY <2>1, <2>2, FailoverAssumption DEF Rows
    <2>6. new.primary => \A l \in Keys : ~(row[l] # None /\ row[l].primary)
        BY <1>3, <2>1 DEF Primaries, Live
    <2>7. OnePrimary(row) /\ TargetsLive(row)
        BY ConsistentRows DEF IInv, KeysConsistent
    <2>8. OnePrimary(row')
        <3>1. \A l \in Keys : l # k => (IsPrimary(row', l) <=> IsPrimary(row, l))
            BY <2>4 DEF IsPrimary
        <3>2. IsPrimary(row', k) => \A l \in Keys : ~IsPrimary(row, l)
            BY <2>5, <2>6 DEF IsPrimary
        <3> QED BY <2>7, <3>1, <3>2 DEF OnePrimary
    <2>9. TargetsLive(row')
        BY <2>1, <2>4, <2>5, <2>7 DEF TargetsLive
    <2> QED BY <2>3, <2>8, <2>9, ConsistentRows
<1> QED BY <1>1, <1>2, <1>3 DEF Upsert, SecondPrimary

LEMMA FinishRotationKeeps ==
    ASSUME IInv, NEW a \in Admins, FinishRotation(a) PROVE row' \in Rows /\ Consistent(row')
<1> DEFINE new(k) == [row[k] EXCEPT !.version = OneMore(@, MaxWrites)]
<1>1. CASE UNCHANGED row
    BY <1>1 DEF IInv, KeysConsistent
<1>2. CASE row' = [k \in Keys |-> IF k \notin Live THEN None ELSE new(k)]
    <2>1. ASSUME NEW k \in Live
          PROVE  /\ k \in Keys /\ new(k) \in Row /\ new(k) # None
                 /\ new(k).primary = row[k].primary /\ new(k).target = row[k].target
        <3>1. k \in Keys /\ row[k] \in Row
            BY DEF Live, IInv, Rows
        <3> QED BY <3>1, OneMoreVersion, FailoverAssumption DEF Row
    <2> HIDE DEF new
    <2>2. row' \in Rows
        BY <1>2, <2>1 DEF Rows
    <2> QED BY <1>2, <2>1, <2>2, ConsistentRows DEF IInv, KeysConsistent, Live, OnePrimary, IsPrimary, TargetsLive
<1> QED BY <1>1, <1>2 DEF FinishRotation

LEMMA SetFailoverConfigKeeps ==
    ASSUME IInv, SetFailoverConfig PROVE row' \in Rows /\ Consistent(row')
<1>1. PICK k \in Live, on \in BOOLEAN : \E t \in {None} \cup (Live \ {k}) :
         row' = [row EXCEPT ![k].enabled = on, ![k].target = t]
    BY DEF SetFailoverConfig
<1>2. PICK t \in {None} \cup (Live \ {k}) : row' = [row EXCEPT ![k].enabled = on, ![k].target = t]
    BY <1>1
<1> DEFINE new == [row[k] EXCEPT !.enabled = on, !.target = t]
<1>3. row[k] \in Row /\ row \in Rows /\ k \in Keys /\ t \in Keys \cup {None}
    BY DEF Live, IInv, Rows
<1>4. new \in Row /\ new.primary = row[k].primary /\ new.target = t
    BY <1>3 DEF Row
<1>5. row' = [row EXCEPT ![k] = new]
    BY <1>2
<1> HIDE DEF new
<1>6. row' \in Rows
    BY <1>3, <1>4, <1>5 DEF Rows
<1>7. row'[k] = new /\ new # None /\ \A l \in Keys : l # k => row'[l] = row[l]
    BY <1>3, <1>4, <1>5, FailoverAssumption DEF Rows
<1> QED BY <1>3, <1>4, <1>6, <1>7, ConsistentRows DEF IInv, KeysConsistent, Live, OnePrimary, IsPrimary, TargetsLive

LEMMA WithoutKeeps ==
    ASSUME IInv, NEW gone \in SUBSET Keys PROVE Without(gone) \in Rows /\ Consistent(Without(gone))
<1> DEFINE new(k) == [row[k] EXCEPT !.target = IF @ \in gone THEN None ELSE @]
<1>1. ASSUME NEW k \in Keys, row[k] # None
      PROVE  /\ new(k) \in Row /\ new(k) # None /\ new(k).primary = row[k].primary
             /\ new(k).target = IF row[k].target \in gone THEN None ELSE row[k].target
    <2>1. row[k] \in Row
        BY <1>1 DEF IInv, Rows
    <2>2. new(k) \in Row /\ new(k).primary = row[k].primary
          /\ new(k).target = IF row[k].target \in gone THEN None ELSE row[k].target
        BY <2>1 DEF Row
    <2> QED BY <2>2, FailoverAssumption
<1>2. Without(gone) = [k \in Keys |-> IF row[k] = None \/ k \in gone THEN None ELSE new(k)]
    BY DEF Without
<1> HIDE DEF new
<1>3. Without(gone) \in Rows
    BY <1>1, <1>2 DEF Rows
<1> DEFINE keyRows == Without(gone)
<1>4. \A k \in Keys : keyRows[k] # None =>
         /\ row[k] # None /\ k \notin gone /\ keyRows[k].primary = row[k].primary
         /\ keyRows[k].target = IF row[k].target \in gone THEN None ELSE row[k].target
    BY <1>1, <1>2
<1>5. \A k \in Keys : row[k] # None /\ k \notin gone => keyRows[k] # None
    BY <1>1, <1>2
<1> HIDE DEF keyRows
<1>6. \A k \in Keys : keyRows[k] # None /\ keyRows[k].target # None =>
         keyRows[k].target = row[k].target /\ keyRows[keyRows[k].target] # None
    BY <1>4, <1>5, ConsistentRows DEF IInv, KeysConsistent, TargetsLive
<1>7. Consistent(keyRows)
    BY <1>4, <1>6, FewerRows DEF IInv, KeysConsistent
<1> QED BY <1>3, <1>7 DEF keyRows

LEMMA GroupsKeep ==
    ASSUME IInv, CreateBackupGroup \/ DeleteBackupGroup PROVE row' \in Rows /\ Consistent(row')
<1>1. PICK ks \in SUBSET Live, b \in BOOLEAN :
         row' = [k \in Keys |-> IF k \in ks THEN [row[k] EXCEPT !.group = b] ELSE row[k]]
    <2>1. CASE CreateBackupGroup
        <3>1. PICK k \in Live : row' = [row EXCEPT ![k].group = TRUE]
            BY <2>1 DEF CreateBackupGroup
        <3>2. row' = [l \in Keys |-> IF l \in {k} THEN [row[l] EXCEPT !.group = TRUE] ELSE row[l]]
            BY <3>1 DEF IInv, Rows
        <3> QED BY <3>2
    <2>2. CASE DeleteBackupGroup
        BY <2>2 DEF DeleteBackupGroup
    <2> QED BY <2>1, <2>2
<1> DEFINE new(k) == [row[k] EXCEPT !.group = b]
<1>2. ASSUME NEW k \in ks
      PROVE  /\ k \in Keys /\ new(k) \in Row /\ new(k) # None
             /\ new(k).primary = row[k].primary /\ new(k).target = row[k].target
    <2>1. k \in Keys /\ row[k] \in Row
        BY DEF Live, IInv, Rows
    <2> QED BY <2>1, FailoverAssumption DEF Row
<1>3. row' = [k \in Keys |-> IF k \in ks THEN new(k) ELSE row[k]]
    BY <1>1
<1> HIDE DEF new
<1>4. row' \in Rows
    BY <1>2, <1>3 DEF Rows, IInv
<1> QED BY <1>2, <1>3, <1>4, ConsistentRows DEF IInv, KeysConsistent, Live, OnePrimary, IsPrimary, TargetsLive

\* Nothing else writes a row, and `first` is TRUE or FALSE.
LEMMA Stepped == ASSUME IInv, [Next]_vars PROVE IInv'
<1>1. CASE UNCHANGED <<row, admin>>
    BY <1>1 DEF IInv, KeysConsistent
<1>2. ASSUME NEW r \in Requests, RequestStep(r) PROVE UNCHANGED <<row, admin>>
    BY <1>2 DEF RequestStep, ReadPrimary, SelectProviderKey, CallSucceeds, CallFails, CallUnsupported,
       RecordFailure, WriteEvent, StoreFails, keyVars
<1>3. ASSUME StartSweep \/ CheckStep \/ StoreFailsCheck \/ CheckFromConsole \/ Tick \/ UNCHANGED vars
             \/ \E k \in Keys : Outage(k) \/ Recover(k)
      PROVE  UNCHANGED <<row, admin>>
    BY <1>3 DEF StartSweep, CheckStep, CheckPasses, CheckFails, RecordCheck, StoreFailsCheck,
       CheckFromConsole, Tick, Outage, Recover, keyVars, vars
<1>4. ASSUME NEW a \in Admins, NEW turn, turn.first \in BOOLEAN, Calling(a, turn),
             row' \in Rows, Consistent(row')
      PROVE  IInv'
    <2>1. /\ admin' = [b \in Admins |-> admin'[b]] /\ admin'[a] = turn
          /\ \A b \in Admins : b # a => admin'[b] = admin[b]
        BY <1>4 DEF Calling, IInv
    <2> QED BY <1>4, <2>1 DEF IInv, KeysConsistent
<1>5. ASSUME NEW a \in Admins, PutProviderKey(a) \/ RotateProviderKey(a)
      PROVE  IInv'
    <2>1. UNCHANGED row
        BY <1>5 DEF PutProviderKey, RotateProviderKey
    <2>2. PICK turn : Calling(a, turn) /\ turn.first \in BOOLEAN
        <3>1. CASE PutProviderKey(a)
            <4>1. PICK k \in Keys : Calling(a, [NoCall EXCEPT !.pc = "upsert", !.label = Label[k],
                                                              !.first = Live = {}])
                BY <3>1 DEF PutProviderKey
            <4>2. [NoCall EXCEPT !.pc = "upsert", !.label = Label[k], !.first = Live = {}].first \in BOOLEAN
                BY DEF NoCall
            <4> QED BY <4>1, <4>2
        <3>2. CASE RotateProviderKey(a)
            <4>1. Calling(a, [NoCall EXCEPT !.pc = "rotate"])
                BY <3>2 DEF RotateProviderKey
            <4>2. [NoCall EXCEPT !.pc = "rotate"].first \in BOOLEAN
                BY DEF NoCall
            <4> QED BY <4>1, <4>2
        <3> QED BY <1>5, <3>1, <3>2
    <2> QED BY <1>4, <2>1, <2>2 DEF IInv, KeysConsistent
<1>6. ASSUME NEW a \in Admins, Upsert(a) \/ FinishRotation(a)
      PROVE  IInv'
    <2>1. NoCall.first \in BOOLEAN /\ Calling(a, NoCall)
        BY <1>6 DEF NoCall, Upsert, FinishRotation
    <2> QED BY <1>4, <1>6, <2>1, UpsertKeeps, FinishRotationKeeps
<1>7. ASSUME SetFailoverConfig \/ DeleteKeyById \/ DeleteProvider
             \/ CreateBackupGroup \/ DeleteBackupGroup
      PROVE  IInv'
    <2>1. UNCHANGED admin
        BY <1>7 DEF SetFailoverConfig, DeleteKeyById, DeleteProvider, CreateBackupGroup, DeleteBackupGroup
    <2>2. row' \in Rows /\ Consistent(row')
        <3>1. ASSUME DeleteKeyById \/ DeleteProvider
              PROVE  \E gone \in SUBSET Keys : row' = Without(gone)
            BY <3>1 DEF DeleteKeyById, DeleteProvider, Live
        <3> QED BY <1>7, <3>1, SetFailoverConfigKeeps, WithoutKeeps, GroupsKeep
    <2> QED BY <2>1, <2>2 DEF IInv, KeysConsistent
<1>8. ASSUME SetTeamOverride PROVE UNCHANGED <<row, admin>>
    BY <1>8 DEF SetTeamOverride
<1> QED BY <1>1, <1>2, <1>3, <1>5, <1>6, <1>7, <1>8 DEF Next, AdminStep

LEMMA Inited == Init => IInv
<1> SUFFICES ASSUME Init PROVE IInv
    OBVIOUS
<1>1. row \in Rows /\ KeysConsistent
    BY FailoverAssumption DEF Init, KeysConsistent, Rows
<1>2. admin = [a \in Admins |-> NoCall] /\ NoCall.first = FALSE
    BY DEF Init, NoCall
<1> QED BY <1>1, <1>2 DEF IInv

\* add_or_replace_key, set_failover_config and the deletions: at most one key is
\* primary and none fails over to itself or to a key that is gone, for any number
\* of administrators.
THEOREM KeysStayConsistent == Spec => []KeysConsistent
<1>1. Init => IInv
    BY Inited
<1>2. IInv /\ [Next]_vars => IInv'
    BY Stepped
<1>3. IInv => KeysConsistent
    BY DEF IInv
<1> QED BY <1>1, <1>2, <1>3, PTL DEF Spec

-----------------------------------------------------------------------------
(* A key that is down has earned it: what record_failure writes never       *)
(* exceeds the failures noted inside the window it writes for.              *)

Tallies == [Time -> 0..DownThreshold]
Seen(f, s) == SumFunctionOnSet(f, {t \in Time : s <= t /\ t <= s + Window})
Grows(f, g) == \A t \in Time : f[t] <= g[t]

\* A state the store may hold of a key whose failures are f.
Earned(h, f, at) ==
    h # None => h \in Health /\ h.since <= at /\ h.failures <= Seen(f, h.since)

\* What a caller that read the state `saw` at time `at` may write back.
Due(f, saw, at) ==
    /\ at \in Time /\ f[at] >= 1
    /\ saw # None => saw \in Health /\ saw.since <= at
    /\ saw # None /\ at <= saw.since + Window =>
         OneMore(saw.failures, DownThreshold) <= Seen(f, saw.since)

LEMMA WindowFinite == \A s : IsFiniteSet({t \in Time : s <= t /\ t <= s + Window})
<1>1. IsFiniteSet(Time)
    BY FailoverAssumption, FS_Interval DEF Time
<1>2. \A s : {t \in Time : s <= t /\ t <= s + Window} \in SUBSET Time
    OBVIOUS
<1> QED BY <1>1, <1>2, FS_Subset

LEMMA SeenBounds ==
    ASSUME NEW f \in Tallies, NEW s \in Time
    PROVE  /\ Seen(f, s) \in Nat
           /\ \A t \in Time : s <= t /\ t <= s + Window => f[t] <= Seen(f, s)
<1> DEFINE W == {t \in Time : s <= t /\ t <= s + Window}
<1>1. \A t \in W : f[t] \in Nat
    BY FailoverAssumption DEF Tallies
<1>2. IsFiniteSet(W)
    BY WindowFinite
<1>3. SumFunctionOnSet(f, W) \in Nat /\ \A t \in W : f[t] <= SumFunctionOnSet(f, W)
    BY <1>1, <1>2, SumOfNaturals
<1> QED BY <1>3 DEF Seen

LEMMA SeenGrows ==
    ASSUME NEW f \in Tallies, NEW g \in Tallies, Grows(f, g), NEW s \in Time
    PROVE  Seen(f, s) <= Seen(g, s)
<1> DEFINE W == {t \in Time : s <= t /\ t <= s + Window}
<1>1. \A t \in W : f[t] \in Int /\ g[t] \in Int /\ f[t] <= g[t]
    BY FailoverAssumption DEF Tallies, Grows
<1>2. IsFiniteSet(W)
    BY WindowFinite
<1> HIDE DEF W
<1>3. SumFunctionOnSet(f, W) <= SumFunctionOnSet(g, W)
    BY <1>1, <1>2, SumMonotone
<1> QED BY <1>3 DEF Seen, W

LEMMA SeenOneMore ==
    ASSUME NEW f \in Tallies, NEW g \in Tallies, NEW at \in Time, NEW s \in Time,
           s <= at, at <= s + Window,
           g[at] = f[at] + 1, \A t \in Time : t # at => g[t] = f[t]
    PROVE  Seen(g, s) = Seen(f, s) + 1
<1> DEFINE W == {t \in Time : s <= t /\ t <= s + Window}
<1>1. at \in W /\ IsFiniteSet(W)
    BY WindowFinite
<1>2. \A t \in W : f[t] \in Int /\ g[t] \in Int
    BY DEF Tallies
<1>3. \A t \in W \ {at} : g[t] = f[t]
    OBVIOUS
<1> HIDE DEF W
<1>4. /\ SumFunctionOnSet(f, W) \in Int
      /\ SumFunctionOnSet(g, W) = SumFunctionOnSet(f, W) + (g[at] - f[at])
    BY <1>1, <1>2, <1>3, SumUpdate
<1>5. g[at] - f[at] = 1
    BY <1>1, <1>2
<1> QED BY <1>4, <1>5 DEF Seen, W

\* A noted failure counts in every window that is open.
LEMMA NotedCounts ==
    ASSUME NEW f \in Tallies, NEW at \in Time, NEW g,
           g = [f EXCEPT ![at] = OneMore(@, DownThreshold)]
    PROVE  /\ g \in Tallies /\ Grows(f, g) /\ g[at] >= 1
           /\ \A h \in Health :
                h.since <= at /\ at <= h.since + Window /\ h.failures <= Seen(f, h.since)
                => OneMore(h.failures, DownThreshold) <= Seen(g, h.since)
<1>1. DownThreshold \in Nat /\ DownThreshold >= 1 /\ Window \in Nat
    BY FailoverAssumption
<1>2. f[at] \in 0..DownThreshold /\ OneMore(f[at], DownThreshold) \in 1..DownThreshold
      /\ f[at] <= OneMore(f[at], DownThreshold)
    BY <1>1 DEF Tallies, OneMore
<1>3. /\ g[at] = OneMore(f[at], DownThreshold) /\ \A t \in Time : t # at => g[t] = f[t]
      /\ g \in Tallies
    BY <1>2 DEF Tallies
<1>4. Grows(f, g)
    BY <1>1, <1>2, <1>3 DEF Grows, Tallies
<1>5. ASSUME NEW h \in Health, h.since <= at, at <= h.since + Window,
             h.failures <= Seen(f, h.since)
      PROVE  OneMore(h.failures, DownThreshold) <= Seen(g, h.since)
    <2>1. h.since \in Time /\ h.failures \in 0..DownThreshold
        BY DEF Health
    <2>2. Seen(f, h.since) \in Nat /\ Seen(g, h.since) \in Nat /\ g[at] <= Seen(g, h.since)
        BY <1>3, <1>5, <2>1, SeenBounds
    <2>3. CASE f[at] = DownThreshold
        BY <1>1, <1>2, <1>3, <2>1, <2>2, <2>3 DEF OneMore
    <2>4. CASE f[at] # DownThreshold
        <3>1. g[at] = f[at] + 1
            BY <1>1, <1>2, <1>3, <2>4 DEF OneMore
        <3>2. Seen(g, h.since) = Seen(f, h.since) + 1
            BY <1>3, <1>5, <2>1, <3>1, SeenOneMore
        <3> QED BY <1>1, <1>5, <2>1, <2>2, <3>2 DEF OneMore
    <2> QED BY <2>3, <2>4
<1>6. g \in Tallies /\ g[at] >= 1
    BY <1>1, <1>2, <1>3
<1> QED BY <1>4, <1>5, <1>6

\* The state record_failure writes is earned.
LEMMA FailedEarned ==
    ASSUME NEW f \in Tallies, NEW saw, NEW at, Due(f, saw, at)
    PROVE  Earned(Failed(saw, at), f, at) /\ Failed(saw, at) \in Health
<1>1. DownThreshold \in Nat /\ DownThreshold >= 1 /\ Window \in Nat /\ MaxTime \in Nat
    BY FailoverAssumption
<1>2. CASE saw # None /\ at <= saw.since + Window
    <2>1. PICK n \in 0..DownThreshold, s \in Time : saw = [failures |-> n, since |-> s]
        BY <1>2 DEF Due, Health
    <2>2. Failed(saw, at) = [failures |-> OneMore(n, DownThreshold), since |-> s]
        BY <1>2, <2>1 DEF Failed
    <2>3. OneMore(n, DownThreshold) \in 0..DownThreshold
        BY <1>1, <2>1 DEF OneMore
    <2>4. s <= at /\ OneMore(n, DownThreshold) <= Seen(f, s)
        BY <1>2, <2>1 DEF Due
    <2> QED BY <2>2, <2>3, <2>4 DEF Earned, Health
<1>3. CASE ~(saw # None /\ at <= saw.since + Window)
    <2>1. Failed(saw, at) = [failures |-> 1, since |-> at]
        BY <1>3 DEF Failed
    <2>2. at \in Time /\ at <= at /\ at <= at + Window
        BY <1>1 DEF Due, Time
    <2>3. f[at] \in Nat /\ f[at] >= 1 /\ f[at] <= Seen(f, at) /\ Seen(f, at) \in Nat
        BY <1>1, <2>2, SeenBounds DEF Due, Tallies
    <2>4. 1 <= Seen(f, at)
        BY <2>3
    <2> QED BY <1>1, <2>1, <2>2, <2>4 DEF Earned, Health
<1> QED BY <1>2, <1>3

LEMMA DueGrows ==
    ASSUME NEW f \in Tallies, NEW g \in Tallies, Grows(f, g), NEW saw, NEW at, Due(f, saw, at)
    PROVE  Due(g, saw, at)
<1>1. DownThreshold \in Nat
    BY FailoverAssumption
<1>2. at \in Time /\ g[at] >= 1
    <2>1. at \in Time /\ f[at] >= 1 /\ f[at] <= g[at]
        BY DEF Due, Grows
    <2>2. f[at] \in Nat /\ g[at] \in Nat
        BY <1>1, <2>1 DEF Tallies
    <2> QED BY <2>1, <2>2
<1>3. ASSUME saw # None, at <= saw.since + Window
      PROVE  OneMore(saw.failures, DownThreshold) <= Seen(g, saw.since)
    <2>1. saw.since \in Time /\ saw.failures \in 0..DownThreshold
        BY <1>3 DEF Due, Health
    <2>2. OneMore(saw.failures, DownThreshold) \in Nat
        BY <1>1, <2>1 DEF OneMore
    <2>3. OneMore(saw.failures, DownThreshold) <= Seen(f, saw.since)
        BY <1>3 DEF Due
    <2>4. Seen(f, saw.since) \in Nat /\ Seen(g, saw.since) \in Nat
          /\ Seen(f, saw.since) <= Seen(g, saw.since)
        BY <2>1, SeenBounds, SeenGrows
    <2> QED BY <2>2, <2>3, <2>4
<1> QED BY <1>2, <1>3 DEF Due

LEMMA EarnedGrows ==
    ASSUME NEW f \in Tallies, NEW g \in Tallies, Grows(f, g), NEW h,
           NEW at \in Time, NEW later \in Time, at <= later, Earned(h, f, at)
    PROVE  Earned(h, g, later)
<1> SUFFICES ASSUME h # None PROVE h \in Health /\ h.since <= later /\ h.failures <= Seen(g, h.since)
    BY DEF Earned
<1>1. h \in Health /\ h.since <= at /\ h.failures <= Seen(f, h.since)
    BY DEF Earned
<1>2. h.since \in Nat /\ h.since \in Time /\ h.failures \in Nat /\ at \in Nat /\ later \in Nat
    BY <1>1, FailoverAssumption DEF Health, Time
<1>3. Seen(f, h.since) \in Nat /\ Seen(g, h.since) \in Nat /\ Seen(f, h.since) <= Seen(g, h.since)
    BY <1>2, SeenBounds, SeenGrows
<1> QED BY <1>1, <1>2, <1>3

-----------------------------------------------------------------------------
(* The invariant.                                                          *)

Used(k) == k \in Keys /\ fails[k] \in Tallies
IsReq(q) == DOMAIN q = DOMAIN Idle("failed")
IsChecker(c) == DOMAIN c = DOMAIN Resting

\* A request names keys that have been configured, and one that is about to
\* write back what it saw of a key is due to.
Asking(q) ==
    /\ IsReq(q) /\ q.target \in Keys \cup {None}
    /\ q.pc \notin Outcomes => Used(q.key)
    /\ q.pc \in {"record", "rerecord"} => Due(fails[q.key], q.saw, q.at) /\ q.at <= now

Checking(c) ==
    /\ IsChecker(c) /\ \A k \in c.todo : Used(k)
    /\ c.pc = "record" => Used(c.key) /\ Due(fails[c.key], c.saw, c.at) /\ c.at <= now

Books ==
    /\ DOMAIN fails = Keys /\ DOMAIN health = Keys
    /\ \A k \in Keys : fails[k] \in Tallies \cup {None}
    /\ \A k \in Keys : row[k] # None \/ health[k] # None => fails[k] \in Tallies
    /\ \A k \in Keys : Earned(health[k], fails[k], now)

FInv ==
    /\ now \in Time /\ DOMAIN req = Requests
    /\ \A r \in Requests : Asking(req[r])
    /\ Checking(checker) /\ Books

\* Failures are forgotten only where no caller is between its read and its write.
Moves ==
    \A k \in Keys : fails[k] \in Tallies =>
        fails'[k] \in Tallies /\ (Grows(fails[k], fails'[k]) \/ ~Recording(k))

LEMMA SameGrows == \A f \in Tallies : Grows(f, f)
BY FailoverAssumption DEF Grows, Tallies

LEMMA AskingKept ==
    ASSUME FInv, Moves, now' \in Time, now <= now', NEW r \in Requests, NEW q, q = req[r]
    PROVE  Asking(q)'
<1>1. Asking(q)
    BY DEF FInv
<1>2. q.pc \notin Outcomes => Used(q.key)'
    BY <1>1 DEF Asking, Used, Moves
<1>3. ASSUME q.pc \in {"record", "rerecord"}
      PROVE  Due(fails'[q.key], q.saw, q.at) /\ q.at <= now'
    <2>1. q.pc \notin Outcomes /\ Recording(q.key)
        BY <1>3 DEF Outcomes, Recording
    <2>2. /\ q.key \in Keys /\ fails[q.key] \in Tallies
          /\ Due(fails[q.key], q.saw, q.at) /\ q.at <= now
        BY <1>1, <1>3, <2>1 DEF Asking, Used
    <2>3. fails'[q.key] \in Tallies /\ Grows(fails[q.key], fails'[q.key])
        BY <2>1, <2>2 DEF Moves
    <2>4. Due(fails'[q.key], q.saw, q.at)
        BY <2>2, <2>3, DueGrows
    <2>5. q.at \in Nat /\ now \in Nat /\ now' \in Nat
        BY <2>2, FailoverAssumption DEF Due, FInv, Time
    <2> QED BY <2>2, <2>4, <2>5
<1> QED BY <1>1, <1>2, <1>3 DEF Asking

LEMMA CheckingKept ==
    ASSUME FInv, Moves, now' \in Time, now <= now', NEW c, c = checker
    PROVE  Checking(c)'
<1>1. Checking(c)
    BY DEF FInv
<1>2. \A k : Used(k) => Used(k)'
    BY DEF Used, Moves
<1>3. ASSUME c.pc = "record"
      PROVE  Used(c.key)' /\ Due(fails'[c.key], c.saw, c.at) /\ c.at <= now'
    <2>1. Recording(c.key)
        BY <1>3 DEF Recording
    <2>2. /\ c.key \in Keys /\ fails[c.key] \in Tallies
          /\ Due(fails[c.key], c.saw, c.at) /\ c.at <= now
        BY <1>1, <1>3 DEF Checking, Used
    <2>3. fails'[c.key] \in Tallies /\ Grows(fails[c.key], fails'[c.key])
        BY <2>1, <2>2 DEF Moves
    <2>4. Due(fails'[c.key], c.saw, c.at)
        BY <2>2, <2>3, DueGrows
    <2>5. c.at \in Nat /\ now \in Nat /\ now' \in Nat
        BY <2>2, FailoverAssumption DEF Due, FInv, Time
    <2> QED BY <2>2, <2>3, <2>4, <2>5 DEF Used
<1> QED BY <1>1, <1>2, <1>3 DEF Checking

\* The requests after a step of one of them, or of none.
LEMMA OneAsks ==
    ASSUME FInv, Moves, now' \in Time, now <= now', Books',
           NEW r \in Requests, NEW w, req' = [req EXCEPT ![r] = w], Asking(w)', UNCHANGED checker
    PROVE  FInv'
<1>1. PICK c : c = checker
    OBVIOUS
<1>2. Checking(c)'
    BY <1>1, CheckingKept
<1>3. DOMAIN req' = Requests /\ \A g \in Requests : req'[g] = IF g = r THEN w ELSE req[g]
    BY DEF FInv
<1>4. ASSUME NEW g \in Requests PROVE Asking(req[g])'
    <2>1. PICK q : q = req'[g]
        OBVIOUS
    <2>2. Asking(q)'
        BY <1>3, <2>1, AskingKept
    <2> QED BY <2>1, <2>2 DEF Asking
<1> QED BY <1>1, <1>2, <1>3, <1>4 DEF FInv, Asking, Checking

LEMMA NoneAsks ==
    ASSUME FInv, Moves, now' \in Time, now <= now', Books', UNCHANGED req,
           NEW c, c = checker', Checking(c)'
    PROVE  FInv'
<1>1. ASSUME NEW g \in Requests PROVE Asking(req[g])'
    <2>1. PICK q : q = req[g]
        OBVIOUS
    <2>2. Asking(q)'
        BY <2>1, AskingKept
    <2> QED BY <2>1, <2>2 DEF Asking
<1> QED BY <1>1 DEF FInv, Asking, Checking

-----------------------------------------------------------------------------
(* What a step does to the store and to the failures noted.                *)

\* record_failure reads: one more failure is noted, and the caller is due.
LEMMA ReadBooks ==
    ASSUME FInv, NEW k, Used(k), ReadHealth(k), UNCHANGED <<row, health, now>>
    PROVE  Books' /\ Moves /\ fails'[k] \in Tallies /\ Due(fails'[k], health[k], now)
<1>1. PICK f : f = fails[k]
    OBVIOUS
<1>2. PICK g : g = [f EXCEPT ![now] = OneMore(@, DownThreshold)]
    OBVIOUS
<1>3. now \in Time /\ f \in Tallies /\ k \in Keys /\ Books
    BY <1>1 DEF Used, FInv
<1>4. /\ g \in Tallies /\ Grows(f, g) /\ g[now] >= 1
      /\ \A h \in Health :
           h.since <= now /\ now <= h.since + Window /\ h.failures <= Seen(f, h.since)
           => OneMore(h.failures, DownThreshold) <= Seen(g, h.since)
    BY <1>2, <1>3, NotedCounts
<1>5. fails' = [fails EXCEPT ![k] = g]
    BY <1>1, <1>2 DEF ReadHealth
<1>6. DOMAIN fails' = Keys /\ fails'[k] = g /\ \A l \in Keys : l # k => fails'[l] = fails[l]
    BY <1>3, <1>5 DEF Books
<1>7. Moves
    BY <1>1, <1>4, <1>6, SameGrows DEF Moves
<1>8. ASSUME NEW l \in Keys PROVE Earned(health[l], fails'[l], now)
    <2>1. Earned(health[l], fails[l], now)
        BY <1>3 DEF Books
    <2>2. CASE l = k
        <3>1. now <= now
            BY <1>3, FailoverAssumption DEF Time
        <3> QED BY <1>1, <1>3, <1>4, <1>6, <2>1, <2>2, <3>1, EarnedGrows
    <2>3. CASE l # k
        BY <1>6, <2>1, <2>3
    <2> QED BY <2>2, <2>3
<1>9. Books'
    BY <1>3, <1>4, <1>6, <1>8 DEF Books
<1>10. Earned(health[k], f, now)
    BY <1>1, <1>3 DEF Books
<1>11. Due(g, health[k], now)
    BY <1>3, <1>4, <1>10 DEF Due, Earned
<1> QED BY <1>4, <1>6, <1>7, <1>9, <1>11

\* A success: the state is reset, and with nobody between read and write so are
\* the failures.
LEMMA SuccessBooks ==
    ASSUME FInv, NEW k, Used(k), RecordSuccess(k), UNCHANGED <<row, now>>
    PROVE  Books' /\ Moves
<1>1. now \in Time /\ k \in Keys /\ fails[k] \in Tallies /\ Books
    BY DEF Used, FInv
<1>2. Noted \in Tallies
    BY FailoverAssumption DEF Noted, Tallies
<1>3. PICK f \in Tallies : /\ DOMAIN fails' = Keys /\ fails'[k] = f
                           /\ \A l \in Keys : l # k => fails'[l] = fails[l]
                           /\ Recording(k) => f = fails[k]
    <2>1. CASE Recording(k)
        <3>1. fails' = fails
            BY <2>1 DEF RecordSuccess
        <3> QED BY <1>1, <3>1 DEF Books
    <2>2. CASE ~Recording(k)
        <3>1. fails' = [fails EXCEPT ![k] = Noted]
            BY <2>2 DEF RecordSuccess
        <3> QED BY <1>1, <1>2, <2>2, <3>1 DEF Books
    <2> QED BY <2>1, <2>2
<1>4. DOMAIN fails' = Keys /\ fails'[k] = f /\ \A l \in Keys : l # k => fails'[l] = fails[l]
    BY <1>3
<1>5. Moves
    BY <1>3, <1>4, SameGrows DEF Moves
<1> DEFINE h == [failures |-> 0, since |-> now]
<1>6. health' = [health EXCEPT ![k] = h]
    BY DEF RecordSuccess
<1>7. Earned(h, f, now)
    <2>1. Seen(f, now) \in Nat /\ now \in Nat /\ DownThreshold \in Nat
        BY <1>1, <1>3, SeenBounds, FailoverAssumption DEF Time
    <2>2. h \in Health /\ h.since = now /\ h.failures = 0
        BY <1>1, <2>1 DEF Health
    <2> HIDE DEF h
    <2> QED BY <2>1, <2>2 DEF Earned
<1> HIDE DEF h
<1>8. /\ DOMAIN health' = Keys /\ health'[k] = h
      /\ \A l \in Keys : l # k => health'[l] = health[l]
    BY <1>1, <1>6 DEF Books
<1>9. \A l \in Keys : Earned(health'[l], fails'[l], now)
    BY <1>1, <1>4, <1>7, <1>8 DEF Books
<1>10. \A l \in Keys : row[l] # None \/ health'[l] # None => fails'[l] \in Tallies
    BY <1>1, <1>3, <1>4, <1>8 DEF Books
<1>11. \A l \in Keys : fails'[l] \in Tallies \cup {None}
    BY <1>1, <1>3, <1>4 DEF Books
<1> QED BY <1>4, <1>5, <1>8, <1>9, <1>10, <1>11 DEF Books

\* record_failure writes back.
LEMMA WriteBooks ==
    ASSUME FInv, NEW k, Used(k), NEW saw, NEW at, Due(fails[k], saw, at), at <= now,
           health' = [health EXCEPT ![k] = Failed(saw, at)], UNCHANGED <<row, fails, now>>
    PROVE  Books' /\ Moves
<1>1. now \in Time /\ k \in Keys /\ fails[k] \in Tallies /\ Books /\ at \in Time
    BY DEF Used, FInv, Due
<1>2. Earned(Failed(saw, at), fails[k], now)
    <2>1. Earned(Failed(saw, at), fails[k], at)
        BY <1>1, FailedEarned
    <2> QED BY <1>1, <2>1, SameGrows, EarnedGrows
<1>3. PICK h : h = Failed(saw, at)
    OBVIOUS
<1>4. /\ DOMAIN health' = Keys /\ health'[k] = h
      /\ \A l \in Keys : l # k => health'[l] = health[l]
    BY <1>1, <1>3 DEF Books
<1>5. \A l \in Keys : Earned(health'[l], fails[l], now)
    BY <1>1, <1>2, <1>3, <1>4 DEF Books
<1>6. \A l \in Keys : row[l] # None \/ health'[l] # None => fails[l] \in Tallies
    BY <1>1, <1>4 DEF Books
<1>7. Books'
    BY <1>1, <1>4, <1>5, <1>6 DEF Books
<1>8. Moves
    BY SameGrows DEF Moves
<1> QED BY <1>7, <1>8

LEMMA SameBooks ==
    ASSUME FInv, UNCHANGED <<row, healthVars, now>>
    PROVE  Books' /\ Moves /\ now' \in Time /\ now <= now'
<1>1. Moves
    BY SameGrows DEF Moves, healthVars
<1>2. Books'
    BY DEF FInv, Books, healthVars
<1> QED BY <1>1, <1>2, FailoverAssumption DEF FInv, Time

\* A request that records nothing names a key that has been configured.
LEMMA PlainAsks ==
    ASSUME NEW w, IsReq(w), w.target \in Keys \cup {None}, w.pc \notin {"record", "rerecord"},
           w.pc \in Outcomes \/ Used(w.key)'
    PROVE  Asking(w)'
BY DEF Asking

LEMMA IdleAsks == \A o \in Outcomes : IsReq(Idle(o)) /\ Idle(o).pc = o /\ Idle(o).target = None
BY DEF IsReq, Idle

-----------------------------------------------------------------------------
(* The requests.                                                           *)

LEMMA RequestFInv ==
    ASSUME IInv, FInv, NEW r \in Requests, RequestStep(r)
    PROVE  FInv'
<1>1. PICK q : q = req[r] /\ Asking(q)
    BY DEF FInv
<1>2. now \in Time /\ now <= now /\ Books
    BY FailoverAssumption DEF FInv, Time
<1>3. \A k \in Keys : row[k] # None => Used(k) /\ row[k].target \in Keys \cup {None}
    BY <1>2 DEF Books, Used, IInv, Rows, Row
<1>4. ASSUME NEW w, req' = [req EXCEPT ![r] = w], IsReq(w), w.target \in Keys \cup {None},
             w.pc \notin {"record", "rerecord"}, w.pc \in Outcomes \/ Used(w.key),
             Books', Moves, UNCHANGED <<checker, now>>
      PROVE  FInv'
    <2>1. w.pc \in Outcomes \/ Used(w.key)'
        BY <1>4 DEF Used, Moves
    <2>2. Asking(w)'
        BY <1>4, <2>1, PlainAsks
    <2>3. now' \in Time /\ now <= now'
        BY <1>2, <1>4
    <2> QED BY <1>4, <2>2, <2>3, OneAsks
<1>5. ASSUME NEW o \in Outcomes, req' = [req EXCEPT ![r] = Idle(o)],
             Books', Moves, UNCHANGED <<checker, now>>
      PROVE  FInv'
    <2>1. PICK w : w = Idle(o) /\ IsReq(w) /\ w.pc = o /\ w.target = None
        BY IdleAsks
    <2> QED BY <1>4, <1>5, <2>1 DEF Outcomes
<1>6. {"unconfigured", "answered", "failed"} = Outcomes
    BY DEF Outcomes
<1>7. CASE ReadPrimary(r)
    <2>1. Books' /\ Moves /\ UNCHANGED <<checker, now>>
        BY <1>7, SameBooks DEF ReadPrimary, keyVars
    <2>2. CASE req' = [req EXCEPT ![r] = Idle("unconfigured")]
        BY <1>5, <1>6, <2>1, <2>2
    <2>3. CASE req' # [req EXCEPT ![r] = Idle("unconfigured")]
        <3>0. PICK k \in Primaries, team \in Teams \cup {None} :
                req' = [req EXCEPT ![r] =
                    [Idle("choose") EXCEPT !.key = k, !.target = row[k].target,
                        !.version = row[k].version,
                        !.applies = row[k].enabled /\ (team # None => ~optedOut[team])]]
            BY <1>7, <2>3 DEF ReadPrimary
        <3>1. PICK v, b :
                req' = [req EXCEPT ![r] = [Idle("choose") EXCEPT !.key = k, !.target = row[k].target,
                                              !.version = v, !.applies = b]]
            BY <3>0
        <3>2. PICK t : t = row[k].target
            OBVIOUS
        <3> DEFINE w == [Idle("choose") EXCEPT !.key = k, !.target = t, !.version = v, !.applies = b]
        <3>3. IsReq(w) /\ w.pc = "choose" /\ w.key = k /\ w.target = t
            BY DEF IsReq, Idle
        <3>4. req' = [req EXCEPT ![r] = w]
            BY <3>1, <3>2
        <3> HIDE DEF w
        <3>5. t \in Keys \cup {None} /\ Used(k)
            BY <1>3, <3>2 DEF Primaries, Live
        <3> QED BY <1>4, <2>1, <3>3, <3>4, <3>5
    <2> QED BY <2>2, <2>3
<1>8. CASE SelectProviderKey(r)
    <2>1. Books' /\ Moves /\ UNCHANGED <<checker, now>>
        BY <1>8, SameBooks DEF SelectProviderKey, keyVars
    <2>2. q.pc = "choose" /\ Used(q.key) /\ q.target \in Keys \cup {None} /\ IsReq(q)
        BY <1>1, <1>8 DEF SelectProviderKey, Asking, Outcomes
    <2>3. CASE SkipsPrimary(q)
        <3>1. q.target \in Keys /\ Used(q.target)
            BY <1>3, <2>2, <2>3 DEF SkipsPrimary
        <3>2. PICK v, n : n = q.target /\ v = row[n].version
            OBVIOUS
        <3> DEFINE w == [q EXCEPT !.pc = "call", !.key = n, !.version = v, !.applies = FALSE,
                                  !.target = None]
        <3>3. req' = [req EXCEPT ![r] = w]
            BY <1>1, <1>8, <2>3, <3>2 DEF SelectProviderKey
        <3>4. IsReq(w) /\ w.pc = "call" /\ w.key = n /\ w.target = None
            BY <2>2 DEF IsReq, Idle
        <3> HIDE DEF w
        <3> QED BY <1>4, <2>1, <3>1, <3>2, <3>3, <3>4
    <2>4. CASE ~SkipsPrimary(q)
        <3> DEFINE w == [q EXCEPT !.pc = "call"]
        <3>1. req' = [req EXCEPT ![r] = w]
            BY <1>1, <1>8, <2>4 DEF SelectProviderKey
        <3>2. IsReq(w) /\ w.pc = "call" /\ w.key = q.key /\ w.target = q.target
            BY <2>2 DEF IsReq, Idle
        <3> HIDE DEF w
        <3> QED BY <1>4, <2>1, <2>2, <3>1, <3>2
    <2> QED BY <2>3, <2>4
<1>9. CASE CallSucceeds(r)
    <2>1. q.pc \in {"call", "retry"} /\ Used(q.key) /\ q.target \in Keys \cup {None} /\ IsReq(q)
        BY <1>1, <1>9 DEF CallSucceeds, Asking, Outcomes
    <2>2. RecordSuccess(q.key) /\ UNCHANGED <<row, checker, now>>
        BY <1>1, <1>9 DEF CallSucceeds, keyVars
    <2>3. Books' /\ Moves
        BY <2>1, <2>2, SuccessBooks
    <2>4. CASE q.pc = "call"
        <3>1. req' = [req EXCEPT ![r] = Idle("answered")]
            BY <1>1, <1>9, <2>4 DEF CallSucceeds
        <3> QED BY <1>5, <1>6, <2>2, <2>3, <3>1
    <2>5. CASE q.pc = "retry"
        <3> DEFINE w == [q EXCEPT !.pc = "event"]
        <3>1. req' = [req EXCEPT ![r] = w]
            BY <1>1, <1>9, <2>5 DEF CallSucceeds
        <3>2. IsReq(w) /\ w.pc = "event" /\ w.key = q.key /\ w.target = q.target
            BY <2>1 DEF IsReq, Idle
        <3> HIDE DEF w
        <3> QED BY <1>4, <2>1, <2>2, <2>3, <3>1, <3>2
    <2> QED BY <2>1, <2>4, <2>5
<1>10. CASE CallFails(r)
    <2>1. q.pc \in {"call", "retry"} /\ Used(q.key) /\ q.target \in Keys \cup {None} /\ IsReq(q)
        BY <1>1, <1>10 DEF CallFails, Asking, Outcomes
    <2>2. ReadHealth(q.key) /\ UNCHANGED <<row, health, checker, now>>
        BY <1>1, <1>10 DEF CallFails, keyVars
    <2>3. /\ Books' /\ Moves /\ fails'[q.key] \in Tallies
          /\ Due(fails'[q.key], health[q.key], now)
        BY <2>1, <2>2, ReadBooks
    <2>4. PICK s, at, pc : /\ s = health[q.key] /\ at = now
                           /\ pc = IF q.pc = "call" THEN "record" ELSE "rerecord"
        OBVIOUS
    <2> DEFINE w == [q EXCEPT !.pc = pc, !.saw = s, !.at = at]
    <2>5. req' = [req EXCEPT ![r] = w]
        BY <1>1, <1>10, <2>4 DEF CallFails
    <2>6. IsReq(w) /\ w.pc = pc /\ w.key = q.key /\ w.target = q.target /\ w.saw = s /\ w.at = at
        BY <2>1 DEF IsReq, Idle
    <2> HIDE DEF w
    <2>7. Asking(w)'
        BY <1>2, <2>1, <2>2, <2>3, <2>4, <2>6 DEF Asking, Used
    <2>8. now' \in Time /\ now <= now'
        BY <1>2, <2>2
    <2> QED BY <2>2, <2>3, <2>5, <2>7, <2>8, OneAsks
<1>11. CASE CallUnsupported(r) \/ StoreFails(r)
    <2>1. /\ Books' /\ Moves /\ UNCHANGED <<checker, now>>
          /\ req' = [req EXCEPT ![r] = Idle("failed")]
        BY <1>11, SameBooks DEF CallUnsupported, StoreFails, keyVars
    <2> QED BY <1>5, <1>6, <2>1
<1>12. CASE WriteEvent(r)
    <2>1. Books' /\ Moves /\ UNCHANGED <<checker, now>>
        BY <1>12, SameBooks DEF WriteEvent, keyVars
    <2>2. PICK o \in Outcomes : req' = [req EXCEPT ![r] = Idle(o)]
        BY <1>6, <1>12 DEF WriteEvent
    <2> QED BY <1>5, <2>1, <2>2
<1>13. CASE RecordFailure(r)
    <2>1. /\ q.pc \in {"record", "rerecord"} /\ Used(q.key) /\ q.target \in Keys \cup {None}
          /\ Due(fails[q.key], q.saw, q.at) /\ q.at <= now
        BY <1>1, <1>13 DEF RecordFailure, Asking, Outcomes
    <2>2. /\ health' = [health EXCEPT ![q.key] = Failed(q.saw, q.at)]
          /\ UNCHANGED <<row, fails, checker, now>>
        BY <1>1, <1>13 DEF RecordFailure, keyVars
    <2>3. Books' /\ Moves
        BY <2>1, <2>2, WriteBooks
    <2>4. CASE req' = [req EXCEPT ![r] = Idle("failed")]
        BY <1>5, <1>6, <2>2, <2>3, <2>4
    <2>5. CASE req' # [req EXCEPT ![r] = Idle("failed")]
        <3>1. PICK k, n, v :
                /\ n = q.target /\ n # None /\ row[n] # None
                /\ req' = [req EXCEPT ![r] = [Idle("retry") EXCEPT !.from = k, !.key = n, !.version = v]]
            BY <1>1, <1>13, <2>5 DEF RecordFailure
        <3> DEFINE w == [Idle("retry") EXCEPT !.from = k, !.key = n, !.version = v]
        <3>2. IsReq(w) /\ w.pc = "retry" /\ w.key = n /\ w.target = None
            BY DEF IsReq, Idle
        <3>3. req' = [req EXCEPT ![r] = w]
            BY <3>1
        <3> HIDE DEF w
        <3>4. n \in Keys /\ Used(n)
            BY <1>3, <2>1, <3>1
        <3> QED BY <1>4, <2>2, <2>3, <3>2, <3>3, <3>4
    <2> QED BY <2>4, <2>5
<1> QED BY <1>7, <1>8, <1>9, <1>10, <1>11, <1>12, <1>13 DEF RequestStep

-----------------------------------------------------------------------------
(* The health checks.                                                      *)

\* A checker between two keys.
LEMMA PlainCheck ==
    ASSUME FInv, Books', Moves, UNCHANGED <<req, now>>, NEW c, c = checker',
           IsChecker(c), c.pc # "record", \A k \in c.todo : Used(k)
    PROVE  FInv'
<1>1. \A k \in c.todo : Used(k)'
    BY DEF Used, Moves
<1>2. Checking(c)'
    BY <1>1 DEF Checking
<1>3. now' \in Time /\ now <= now'
    BY FailoverAssumption DEF FInv, Time
<1> QED BY <1>2, <1>3, NoneAsks

LEMMA AfterPlain ==
    ASSUME Checking(checker), NEW k
    PROVE  /\ IsChecker(After(k)) /\ After(k).pc # "record"
           /\ \A l \in After(k).todo : Used(l)
<1>1. PICK c, left : c = checker /\ left = c.todo \ {k}
    OBVIOUS
<1>2. IsChecker(c) /\ \A l \in left : Used(l)
    BY <1>1 DEF Checking
<1>3. Resting.pc = "rest" /\ Resting.todo = {} /\ IsChecker(Resting)
    BY DEF Resting, IsChecker
<1> DEFINE w == [c EXCEPT !.pc = "check", !.todo = left, !.key = None, !.saw = None, !.at = 0]
<1>4. IsChecker(w) /\ w.pc = "check" /\ w.todo = left
    BY <1>2 DEF IsChecker, Resting
<1>5. After(k) = IF left = {} THEN Resting ELSE w
    BY <1>1 DEF After
<1> HIDE DEF w
<1> QED BY <1>2, <1>3, <1>4, <1>5

\* A check that fails has read the key's state.
LEMMA FailingCheck ==
    ASSUME FInv, NEW k, Used(k), CheckFailing(k), UNCHANGED <<row, health, req, now>>
    PROVE  FInv'
<1>1. /\ Books' /\ Moves /\ fails'[k] \in Tallies /\ Due(fails'[k], health[k], now)
    BY ReadBooks DEF CheckFailing
<1>2. PICK c, s, at : c = checker /\ s = health[k] /\ at = now
    OBVIOUS
<1>3. IsChecker(c) /\ \A l \in c.todo : Used(l)
    BY <1>2 DEF FInv, Checking
<1> DEFINE w == [c EXCEPT !.pc = "record", !.key = k, !.saw = s, !.at = at]
<1>4. checker' = w
    BY <1>2 DEF CheckFailing
<1>5. IsChecker(w) /\ w.pc = "record" /\ w.key = k /\ w.saw = s /\ w.at = at /\ w.todo = c.todo
    BY <1>3 DEF IsChecker, Resting
<1> HIDE DEF w
<1>6. now' \in Time /\ now <= now'
    BY FailoverAssumption DEF FInv, Time
<1>7. Checking(w)'
    <2>1. \A l \in w.todo : Used(l)'
        BY <1>1, <1>3, <1>5 DEF Used, Moves
    <2>2. Used(w.key)'
        BY <1>1, <1>5 DEF Used
    <2> QED BY <1>1, <1>2, <1>5, <1>6, <2>1, <2>2 DEF Checking
<1> QED BY <1>1, <1>4, <1>6, <1>7, NoneAsks

LEMMA CheckFInv ==
    ASSUME IInv, FInv, StartSweep \/ CheckStep \/ StoreFailsCheck
    PROVE  FInv'
<1>1. Checking(checker) /\ Books /\ now \in Time /\ now <= now
    BY FailoverAssumption DEF FInv, Time
<1>2. CASE StartSweep
    <2>1. PICK due, seen : /\ due = {k \in Live : row[k].group}
                           /\ checker' = [Resting EXCEPT !.pc = "check", !.todo = due, !.seen = seen]
        BY <1>2 DEF StartSweep
    <2> DEFINE w == [Resting EXCEPT !.pc = "check", !.todo = due, !.seen = seen]
    <2>2. IsChecker(w) /\ w.pc = "check" /\ w.todo = due
        BY DEF IsChecker, Resting
    <2>3. checker' = w
        BY <2>1
    <2> HIDE DEF w
    <2>4. \A k \in due : Used(k)
        BY <1>1, <2>1 DEF Live, Used, Books
    <2>5. Books' /\ Moves /\ UNCHANGED <<req, now>>
        BY <1>2, SameBooks DEF StartSweep, keyVars
    <2> QED BY <2>2, <2>3, <2>4, <2>5, PlainCheck
<1>3. CASE CheckPasses
    <2>1. PICK k \in checker.todo : RecordSuccess(k) /\ checker' = After(k)
        BY <1>3 DEF CheckPasses
    <2>2. Used(k)
        BY <1>1, <2>1 DEF Checking
    <2>3. UNCHANGED <<row, req, now>>
        BY <1>3 DEF CheckPasses, keyVars
    <2>4. Books' /\ Moves
        BY <2>1, <2>2, <2>3, SuccessBooks
    <2>5. PICK c : c = After(k)
        OBVIOUS
    <2>6. IsChecker(c) /\ c.pc # "record" /\ \A l \in c.todo : Used(l)
        BY <1>1, <2>5, AfterPlain
    <2> QED BY <2>1, <2>3, <2>4, <2>5, <2>6, PlainCheck
<1>4. CASE CheckFails
    <2>1. PICK k \in checker.todo : CheckFailing(k)
        BY <1>4 DEF CheckFails
    <2>2. Used(k)
        BY <1>1, <2>1 DEF Checking
    <2>3. UNCHANGED <<row, health, req, now>>
        BY <1>4 DEF CheckFails, keyVars
    <2> QED BY <2>1, <2>2, <2>3, FailingCheck
<1>5. CASE RecordCheck
    <2>1. PICK k, s, at : k = checker.key /\ s = checker.saw /\ at = checker.at
        OBVIOUS
    <2>2. Used(k) /\ Due(fails[k], s, at) /\ at <= now
        BY <1>1, <1>5, <2>1 DEF RecordCheck, Checking
    <2>3. /\ health' = [health EXCEPT ![k] = Failed(s, at)] /\ checker' = After(k)
          /\ UNCHANGED <<row, fails, req, now>>
        BY <1>5, <2>1 DEF RecordCheck, keyVars
    <2>4. Books' /\ Moves
        BY <2>2, <2>3, WriteBooks
    <2>5. PICK c : c = After(k)
        OBVIOUS
    <2>6. IsChecker(c) /\ c.pc # "record" /\ \A l \in c.todo : Used(l)
        BY <1>1, <2>5, AfterPlain
    <2> QED BY <2>3, <2>4, <2>5, <2>6, PlainCheck
<1>6. CASE StoreFailsCheck
    <2>1. UNCHANGED <<row, health, req, now>>
        BY <1>6 DEF StoreFailsCheck, keyVars
    <2>2. ASSUME NEW k \in checker.todo, CheckFailing(k) PROVE FInv'
        <3>1. Used(k)
            BY <1>1 DEF Checking
        <3> QED BY <2>1, <2>2, <3>1, FailingCheck
    <2>3. ASSUME checker.pc = "record", CheckFailing(checker.key) PROVE FInv'
        <3>1. PICK k : k = checker.key /\ Used(k) /\ CheckFailing(k)
            BY <1>1, <2>3 DEF Checking
        <3> QED BY <2>1, <3>1, FailingCheck
    <2>4. ASSUME checker' = Resting, UNCHANGED fails PROVE FInv'
        <3>1. Books' /\ Moves
            BY <2>1, <2>4, SameBooks DEF healthVars
        <3>2. IsChecker(Resting) /\ Resting.pc = "rest" /\ Resting.todo = {}
            BY DEF IsChecker, Resting
        <3> QED BY <2>1, <2>4, <3>1, <3>2, PlainCheck
    <2> QED BY <1>6, <2>2, <2>3, <2>4 DEF StoreFailsCheck
<1> QED BY <1>2, <1>3, <1>4, <1>5, <1>6 DEF CheckStep

\* A step that leaves requests and checker alone.
LEMMA StillAsked ==
    ASSUME FInv, Books', Moves, now' \in Time, now <= now', UNCHANGED <<req, checker>>
    PROVE  FInv'
<1>1. PICK c : c = checker
    OBVIOUS
<1>2. Checking(c)'
    BY <1>1, CheckingKept
<1> QED BY <1>1, <1>2, NoneAsks

LEMMA ConsoleFInv ==
    ASSUME IInv, FInv, CheckFromConsole
    PROVE  FInv'
<1>1. Books /\ now \in Time /\ now <= now
    BY FailoverAssumption DEF FInv, Time
<1>2. UNCHANGED <<row, req, checker, now>>
    BY DEF CheckFromConsole, keyVars
<1>3. PICK k \in Live : \/ RecordSuccess(k)
                        \/ ReadHealth(k) /\ health' = [health EXCEPT ![k] = Failed(health[k], now)]
    BY DEF CheckFromConsole
<1>4. Used(k)
    BY <1>1 DEF Live, Used, Books
<1>5. CASE RecordSuccess(k)
    <2>1. Books' /\ Moves
        BY <1>2, <1>4, <1>5, SuccessBooks
    <2> QED BY <1>1, <1>2, <2>1, StillAsked
<1>6. CASE ReadHealth(k) /\ health' = [health EXCEPT ![k] = Failed(health[k], now)]
    <2>1. PICK f, h : f = fails[k] /\ h = health[k]
        OBVIOUS
    <2>2. PICK g : g = [f EXCEPT ![now] = OneMore(@, DownThreshold)]
        OBVIOUS
    <2>3. f \in Tallies /\ k \in Keys
        BY <1>4, <2>1 DEF Used
    <2>4. /\ g \in Tallies /\ Grows(f, g) /\ g[now] >= 1
          /\ \A s \in Health :
               s.since <= now /\ now <= s.since + Window /\ s.failures <= Seen(f, s.since)
               => OneMore(s.failures, DownThreshold) <= Seen(g, s.since)
        BY <1>1, <2>2, <2>3, NotedCounts
    <2>5. Earned(h, f, now)
        BY <1>1, <2>1, <2>3 DEF Books
    <2>6. Due(g, h, now)
        BY <1>1, <2>4, <2>5 DEF Due, Earned
    <2>7. PICK n : n = Failed(h, now) /\ Earned(n, g, now)
        BY <2>4, <2>6, FailedEarned
    <2>8. /\ DOMAIN fails' = Keys /\ fails'[k] = g
          /\ \A l \in Keys : l # k => fails'[l] = fails[l]
        <3>1. fails' = [fails EXCEPT ![k] = g]
            BY <1>6, <2>1, <2>2 DEF ReadHealth
        <3> QED BY <1>1, <2>3, <3>1 DEF Books
    <2>9. /\ DOMAIN health' = Keys /\ health'[k] = n
          /\ \A l \in Keys : l # k => health'[l] = health[l]
        <3>1. health' = [health EXCEPT ![k] = n]
            BY <1>6, <2>1, <2>7
        <3> QED BY <1>1, <2>3, <3>1 DEF Books
    <2>10. Moves
        BY <2>1, <2>4, <2>8, SameGrows DEF Moves
    <2>11. \A l \in Keys : Earned(health'[l], fails'[l], now)
        BY <1>1, <2>7, <2>8, <2>9 DEF Books
    <2>12. \A l \in Keys : fails'[l] \in Tallies \cup {None}
        BY <1>1, <2>4, <2>8 DEF Books
    <2>13. \A l \in Keys : row[l] # None \/ health'[l] # None => fails'[l] \in Tallies
        BY <1>1, <2>4, <2>8, <2>9 DEF Books
    <2>14. Books'
        BY <1>2, <2>8, <2>9, <2>11, <2>12, <2>13 DEF Books
    <2> QED BY <1>1, <1>2, <2>10, <2>14, StillAsked
<1> QED BY <1>3, <1>5, <1>6

-----------------------------------------------------------------------------
(* The administrators, who only start the tally of a key they create.      *)

LEMMA AdminBooks ==
    ASSUME FInv, UNCHANGED <<health, now, req, checker>>, DOMAIN fails' = Keys,
           \A k \in Keys : fails'[k] = fails[k] \/ (fails[k] = None /\ fails'[k] \in Tallies),
           \A k \in Keys : row'[k] # None => row[k] # None \/ fails'[k] \in Tallies
    PROVE  FInv'
<1>1. Books /\ now \in Time /\ now <= now /\ None \notin Tallies
    BY FailoverAssumption DEF FInv, Time, Tallies
<1>2. Moves
    BY <1>1, SameGrows DEF Moves
<1>3. ASSUME NEW k \in Keys PROVE Earned(health[k], fails'[k], now)
    <2>1. CASE fails'[k] = fails[k]
        BY <1>1, <2>1 DEF Books
    <2>2. CASE fails[k] = None
        BY <1>1, <2>2 DEF Books, Earned
    <2> QED BY <2>1, <2>2
<1>4. \A k \in Keys : fails'[k] \in Tallies \cup {None}
    BY <1>1 DEF Books
<1>5. \A k \in Keys : row'[k] # None \/ health[k] # None => fails'[k] \in Tallies
    BY <1>1 DEF Books
<1>6. Books'
    BY <1>1, <1>3, <1>4, <1>5 DEF Books
<1> QED BY <1>1, <1>2, <1>6, StillAsked

LEMMA AdminFInv ==
    ASSUME IInv, FInv, AdminStep
    PROVE  FInv'
<1>1. row \in [Keys -> Row \cup {None}] /\ DOMAIN fails = Keys
    BY DEF IInv, Rows, FInv, Books
<1>2. ASSUME UNCHANGED <<health, now, req, checker, fails>>,
             \A k \in Keys : row'[k] # None => row[k] # None
      PROVE  FInv'
    BY <1>1, <1>2, AdminBooks
<1>3. ASSUME NEW a \in Admins, PutProviderKey(a) \/ RotateProviderKey(a) PROVE FInv'
    BY <1>2, <1>3 DEF PutProviderKey, RotateProviderKey, OnlyKeys
<1>4. ASSUME NEW a \in Admins, FinishRotation(a) PROVE FInv'
    <2>1. UNCHANGED <<health, now, req, checker, fails>>
        BY <1>4 DEF FinishRotation, OnlyKeys
    <2>2. \A k \in Keys : row'[k] # None => row[k] # None
        BY <1>4 DEF FinishRotation, Live
    <2> QED BY <1>2, <2>1, <2>2
<1>5. ASSUME SetFailoverConfig PROVE FInv'
    <2>1. UNCHANGED <<health, now, req, checker, fails>>
        BY <1>5 DEF SetFailoverConfig, OnlyKeys
    <2>2. PICK k \in Live, on \in BOOLEAN : \E t \in {None} \cup (Live \ {k}) :
             row' = [row EXCEPT ![k].enabled = on, ![k].target = t]
        BY <1>5 DEF SetFailoverConfig
    <2>3. \A l \in Keys : row'[l] # None => row[l] # None
        BY <1>1, <2>2 DEF Live
    <2> QED BY <1>2, <2>1, <2>3
<1>6. ASSUME DeleteKeyById \/ DeleteProvider PROVE FInv'
    <2>1. UNCHANGED <<health, now, req, checker, fails>>
        BY <1>6 DEF DeleteKeyById, DeleteProvider, OnlyKeys
    <2>2. PICK gone : row' = Without(gone)
        BY <1>6 DEF DeleteKeyById, DeleteProvider
    <2>3. \A l \in Keys : row'[l] # None => row[l] # None
        BY <2>2 DEF Without
    <2> QED BY <1>2, <2>1, <2>3
<1>7. ASSUME CreateBackupGroup \/ DeleteBackupGroup PROVE FInv'
    <2>1. UNCHANGED <<health, now, req, checker, fails>>
        BY <1>7 DEF CreateBackupGroup, DeleteBackupGroup, OnlyKeys
    <2>2. CASE CreateBackupGroup
        <3>1. PICK k \in Live : \E v : row' = [row EXCEPT ![k] = v]
            BY <2>2 DEF CreateBackupGroup
        <3>2. \A l \in Keys : row'[l] # None => row[l] # None
            BY <1>1, <3>1 DEF Live
        <3> QED BY <1>2, <2>1, <3>2
    <2>3. CASE DeleteBackupGroup
        <3>1. \A l \in Keys : row'[l] # None => row[l] # None
            BY <2>3 DEF DeleteBackupGroup, Live
        <3> QED BY <1>2, <2>1, <3>1
    <2> QED BY <1>7, <2>2, <2>3
<1>8. ASSUME SetTeamOverride PROVE FInv'
    BY <1>2, <1>8 DEF SetTeamOverride, healthVars
<1>9. ASSUME NEW a \in Admins, Upsert(a) PROVE FInv'
    <2>1. UNCHANGED <<health, now, req, checker>>
        BY <1>9 DEF Upsert, OnlyKeys
    <2>2. CASE UNCHANGED <<row, fails>>
        BY <1>2, <2>1, <2>2
    <2>3. ASSUME NEW k \in Live, UNCHANGED fails,
                 row' = [row EXCEPT ![k].version = OneMore(@, MaxWrites), ![k].group = FALSE]
          PROVE  FInv'
        <3>1. \A l \in Keys : row'[l] # None => row[l] # None
            BY <1>1, <2>3 DEF Live
        <3> QED BY <1>2, <2>1, <2>3, <3>1
    <2>4. ASSUME NEW k \in Unused, NEW v, row' = [row EXCEPT ![k] = v],
                 fails' = [fails EXCEPT ![k] = Noted]
          PROVE  FInv'
        <3>1. k \in Keys /\ fails[k] = None /\ Noted \in Tallies
            BY <2>4, FailoverAssumption DEF Unused, Noted, Tallies
        <3>2. /\ DOMAIN fails' = Keys /\ fails'[k] \in Tallies
              /\ \A l \in Keys : l # k => fails'[l] = fails[l] /\ row'[l] = row[l]
            BY <1>1, <2>4, <3>1
        <3> QED BY <2>1, <3>1, <3>2, AdminBooks
    <2> QED BY <1>9, <2>2, <2>3, <2>4 DEF Upsert
<1> QED BY <1>3, <1>4, <1>5, <1>6, <1>7, <1>8, <1>9 DEF AdminStep

LEMMA FInvStep == IInv /\ FInv /\ [Next]_vars => FInv'
<1> SUFFICES ASSUME IInv, FInv, [Next]_vars PROVE FInv'
    OBVIOUS
<1>1. Books /\ now \in Time
    BY DEF FInv
<1>2. ASSUME UNCHANGED <<row, healthVars, now, req, checker>> PROVE FInv'
    BY <1>2, SameBooks, StillAsked
<1>3. ASSUME NEW k \in Keys, Outage(k) \/ Recover(k) PROVE FInv'
    BY <1>2, <1>3 DEF Outage, Recover, keyVars
<1>4. CASE UNCHANGED vars
    BY <1>2, <1>4 DEF vars, keyVars
<1>5. CASE Tick
    <2>1. /\ now < MaxTime /\ now' = now + 1
          /\ UNCHANGED <<row, health, fails, req, checker>>
        BY <1>5 DEF Tick, keyVars, healthVars
    <2>2. now' \in Time /\ now <= now'
        BY <1>1, <2>1, FailoverAssumption DEF Time
    <2>3. Moves
        BY <2>1, SameGrows DEF Moves
    <2>4. ASSUME NEW k \in Keys PROVE Earned(health[k], fails[k], now')
        <3>1. Earned(health[k], fails[k], now)
            BY <1>1 DEF Books
        <3>2. CASE health[k] = None
            BY <3>2 DEF Earned
        <3>3. CASE health[k] # None
            <4>1. fails[k] \in Tallies
                BY <1>1, <3>3 DEF Books
            <4> QED BY <1>1, <2>2, <3>1, <4>1, SameGrows, EarnedGrows
        <3> QED BY <3>2, <3>3
    <2>5. Books'
        BY <1>1, <2>1, <2>4 DEF Books
    <2> QED BY <2>1, <2>2, <2>3, <2>5, StillAsked
<1> QED BY <1>3, <1>4, <1>5, RequestFInv, CheckFInv, ConsoleFInv, AdminFInv DEF Next

LEMMA FInvInit == Init => FInv
<1> SUFFICES ASSUME Init PROVE FInv
    OBVIOUS
<1>1. Noted \in Tallies /\ now \in Time
    BY FailoverAssumption DEF Noted, Tallies, Init, Time
<1>2. Books
    BY <1>1, FailoverAssumption DEF Init, Books, Earned
<1>3. \A r \in Requests : Asking(req[r])
    <2>1. "answered" \in Outcomes
        BY DEF Outcomes
    <2>2. PICK q : q = Idle("answered") /\ IsReq(q) /\ q.pc = "answered" /\ q.target = None
        BY <2>1, IdleAsks
    <2> QED BY <2>1, <2>2 DEF Init, Asking
<1>4. Checking(checker)
    BY DEF Init, Checking, IsChecker, Resting
<1> QED BY <1>1, <1>2, <1>3, <1>4 DEF FInv, Init

LEMMA EarnedDown == FInv => DownIsEarned
<1> SUFFICES ASSUME FInv, NEW k \in Keys, Status(k) = "down"
             PROVE  SumFunctionOnSet(fails[k], WindowOf(k)) >= DownThreshold
    BY DEF DownIsEarned
<1>1. health[k] # None /\ health[k].failures >= DownThreshold
    BY DEF Status
<1>2. PICK h, f : h = health[k] /\ f = fails[k]
    OBVIOUS
<1>3. f \in Tallies /\ h \in Health /\ h.failures <= Seen(f, h.since) /\ h.failures >= DownThreshold
    BY <1>1, <1>2 DEF FInv, Books, Earned
<1>4. h.since \in Time /\ h.failures \in Nat /\ DownThreshold \in Nat
    BY <1>3, FailoverAssumption DEF Health
<1>5. Seen(f, h.since) \in Nat
    BY <1>3, <1>4, SeenBounds
<1>6. Seen(f, h.since) >= DownThreshold
    BY <1>3, <1>4, <1>5
<1>7. SumFunctionOnSet(fails[k], WindowOf(k)) = Seen(f, h.since)
    BY <1>2 DEF WindowOf, Seen
<1> QED BY <1>6, <1>7

\* record_failure, _status_for: traffic is steered away from a key only on
\* DownThreshold failures within the window that is open, whoever recorded them
\* and however their reads and writes of the shared state interleave.
THEOREM DownKeysEarnedIt == Spec => []DownIsEarned
<1>1. Init => IInv /\ FInv
    BY Inited, FInvInit
<1>2. (IInv /\ FInv) /\ [Next]_vars => (IInv /\ FInv)'
    BY Stepped, FInvStep
<1>3. IInv /\ FInv => DownIsEarned
    BY EarnedDown
<1> QED BY <1>1, <1>2, <1>3, PTL DEF Spec

-----------------------------------------------------------------------------
(* Metering: the charge, the log, the report and the alerts of a call.     *)

\* A record with the fields of a call and no others.
Fields == DOMAIN NewCall
IsCall(q) == q = [f \in Fields |-> q[f]]

-----------------------------------------------------------------------------
(* The invariant of one call.                                              *)

PCs == {"idle", "dispatch", "opening", "streaming", "charge", "org", "log", "event", "tasks", "done"}
Statuses == {"ok", "refused", "client_disconnected", "provider_error", "usage_unavailable",
             "charge_failed", "internal_error"}
Chunks == {Content, UsageOnly, Both}
Percents == {50, 75, 80, 100}
Marks == [Levels -> SUBSET Percents]
Complete(q) == q.whole \/ q.broken \in {"short", "other"}

Typed(q) ==
    /\ IsCall(q) /\ q.pc \in PCs /\ q.buf \in Seq(Chunks) /\ q.hit \in BOOLEAN
    /\ q.charged \in Nat /\ q.orgCharged \in {0, q.charged}
    /\ q.crossed \in Marks /\ q.due \in Marks
    /\ q.pc = "log" => q.status \in Statuses

\* What a call has charged by each step, and what its row will claim.
Money(q) ==
    /\ q.pc \in {"idle", "dispatch", "opening", "streaming", "charge"}
          => q.charged = 0 /\ q.crossed = Nothing /\ q.taken = {}
    /\ q.pc = "org"
          => q.taken = {"team"} /\ q.orgCharged = 0 /\ q.crossed["org"] = {}
    /\ q.pc = "log" /\ q.status = "ok"
          => /\ q.orgCharged = q.charged
             /\ q.hit = TRUE  => q.charged = 0 /\ q.taken = {}
             /\ q.hit = FALSE => q.taken = Levels
    /\ q.pc = "log" /\ q.reported /\ q.broken = "no"
          => \/ q.taken = Levels /\ q.orgCharged = q.charged
             \/ q.status \in {"charge_failed", "internal_error", "client_disconnected"}

\* What a stream has passed on: reported usage is captured or still to be relayed.
Streamed(q) ==
    /\ ~q.lost
    /\ q.pc \in {"dispatch", "opening"} => ~q.reported
    /\ q.pc \in {"opening", "streaming"} => q.stream
    /\ q.pc = "streaming" /\ q.reported
          => q.usage \/ \E i \in DOMAIN q.buf : q.buf[i].usage
    /\ q.pc = "streaming" /\ q.ended => Complete(q) \/ q.broken = "call"
    /\ q.pc \in {"charge", "org"} /\ q.stream /\ ~q.abandoned => Complete(q)
    /\ q.done => q.pc \in {"log", "event"} /\ Complete(q)

AlertsOf(l) == {l} \X Percents \X Channels

\* A round of alerts, about one level, owes what it tried and what it still plans.
Alerting(q) ==
    /\ q.tried \cup q.plan = q.owed
    /\ \E l \in Levels : q.plan \subseteq AlertsOf(l)

CallInv(q) == Typed(q) /\ Money(q) /\ Streamed(q) /\ Alerting(q)

-----------------------------------------------------------------------------
(* The invariant of the books.                                             *)

Over == {"event", "tasks", "done"}
RowSet == [call : Calls, status : Statuses, cost : Nat \cup {Absent}, hit : BOOLEAN]
HasOkRow(c) == \E i \in DOMAIN rows : rows[i].call = c /\ rows[i].status = "ok"
TeamCharges == [c \in Calls |-> call[c].charged]
OrgCharges == [c \in Calls |-> call[c].orgCharged]
LoggedCharges == [c \in Calls |-> IF HasOkRow(c) THEN call[c].orgCharged ELSE 0]

\* A row is written last: its call charges nothing more.
RowsInv ==
    /\ rows \in Seq(RowSet)
    /\ \A i \in DOMAIN rows : call[rows[i].call].pc \in Over
    /\ RowsMatchCharges

\* Counters and log, as sums over the calls.
SpendInv ==
    /\ spend \in [Levels -> Nat]
    /\ spend["team"] = SumFunctionOnSet(TeamCharges, Calls)
    /\ spend["org"] = SumFunctionOnSet(OrgCharges, Calls)
    /\ TotalSpend = SumFunctionOnSet(LoggedCharges, Calls)

Passed(l, pct) == Ceiling[l] > 0 /\ 100 * spend[l] >= pct * Ceiling[l]

\* A threshold is marked by one call, and only once the counter is past it.
CrossInv ==
    \A l \in Levels :
        /\ alerts[l].channels \subseteq Channels /\ alerts[l].on \subseteq Thresholds(l)
        /\ alerts[l].once \subseteq alerts[l].on
        /\ \A c \in Calls : \A pct \in call[c].crossed[l] :
              /\ Passed(l, pct)
              /\ \A d \in Calls : pct \in call[d].crossed[l] => d = c
        /\ \A pct \in alerts[l].once : Passed(l, pct) => \E c \in Calls : pct \in call[c].crossed[l]

AlertsTyped == alerts \in [Levels -> [channels : SUBSET Channels, on : SUBSET Percents, once : SUBSET Percents]]

MeterInv ==
    /\ call = [c \in Calls |-> call[c]] /\ \A c \in Calls : CallInv(call[c])
    /\ AlertsTyped /\ RowsInv /\ SpendInv /\ CrossInv

-----------------------------------------------------------------------------
\* A call's record has the fields Metering gives it, and no others.
LEMMA NewCallFields ==
    /\ Fields = {"pc", "surface", "model", "served", "stream", "degraded", "priced", "at", "st",
                 "buf", "first", "gone", "usage", "whole", "lost", "reported", "ended", "broken",
                 "done", "status", "hit", "abandoned", "charged", "orgCharged", "taken", "crossed",
                 "due", "plan", "owed", "tried"}
    /\ IsCall(NewCall)
BY DEF Fields, NewCall, IsCall

\* w carries the charges of q, and w the answer of q; nothing of a stream or of
\* a round of alerts is under way in w.
SameCharges(w, q) ==
    w.charged = q.charged /\ w.orgCharged = q.orgCharged /\ w.crossed = q.crossed /\ w.taken = q.taken
SameAnswer(w, q) ==
    /\ w.stream = q.stream /\ w.whole = q.whole /\ w.lost = q.lost
    /\ w.reported = q.reported /\ w.broken = q.broken /\ w.due = q.due
Bare(w) ==
    /\ w.buf = <<>> /\ ~w.usage /\ ~w.ended /\ w.hit = FALSE /\ ~w.abandoned
    /\ w.plan = {} /\ w.owed = {} /\ w.tried = {}
Blank(w) ==
    /\ ~w.stream /\ ~w.whole /\ ~w.lost /\ ~w.reported /\ w.broken = "no" /\ w.due = Nothing

\* A call not yet made has charged nothing and sent nothing.
LEMMA NewCallShape ==
    /\ IsCall(NewCall) /\ NewCall.pc = "idle" /\ Blank(NewCall) /\ Bare(NewCall) /\ ~NewCall.done
    /\ NewCall.charged = 0 /\ NewCall.orgCharged = 0 /\ NewCall.crossed = Nothing /\ NewCall.taken = {}
BY NewCallFields DEF NewCall, Blank, Bare

\* Kept carries the charges and the crossings over, and clears everything else.
LEMMA KeptShape ==
    ASSUME NEW q, NEW w, w = Kept(q)
    PROVE  IsCall(w) /\ w.pc = "idle" /\ SameCharges(w, q) /\ Blank(w) /\ Bare(w) /\ ~w.done
<1>0. PICK n : n = NewCall /\ IsCall(n) /\ n.pc = "idle" /\ Blank(n) /\ Bare(n) /\ ~n.done
  BY NewCallShape
<1>1. IsCall(w)
  BY <1>0 DEF Kept, IsCall
<1>2. SameCharges(w, q)
  BY <1>0, NewCallFields DEF Kept, IsCall, SameCharges
<1>3. w.pc = "idle" /\ ~w.done
  BY <1>0, NewCallFields DEF Kept, IsCall
<1>4. Blank(w)
  BY <1>0, NewCallFields DEF Kept, IsCall, Blank
<1>5. Bare(w)
  <2>1. w.buf = n.buf /\ w.usage = n.usage /\ w.ended = n.ended /\ w.hit = n.hit
    BY <1>0, NewCallFields DEF Kept, IsCall
  <2>2. w.abandoned = n.abandoned /\ w.plan = n.plan /\ w.owed = n.owed /\ w.tried = n.tried
    BY <1>0, NewCallFields DEF Kept, IsCall
  <2>3. Bare(n)
    BY <1>0
  <2> QED
    BY <2>1, <2>2, <2>3 DEF Bare
<1> QED
  BY <1>1, <1>2, <1>3, <1>4, <1>5

\* Answered carries the answer over too, and leaves the stream behind.
LEMMA AnsweredShape ==
    ASSUME NEW q, NEW p, NEW w, w = Answered(q, p)
    PROVE  IsCall(w) /\ w.pc = p /\ SameCharges(w, q) /\ SameAnswer(w, q) /\ Bare(w) /\ ~w.done
<1>1. PICK k : k = Kept(q) /\ IsCall(k) /\ SameCharges(k, q) /\ Bare(k) /\ ~k.done
  BY KeptShape
<1>0. DOMAIN k = Fields
  BY <1>1 DEF IsCall
<1>2. w = [k EXCEPT !.pc = p, !.stream = q.stream, !.gone = q.gone, !.degraded = q.degraded,
                    !.whole = q.whole, !.lost = q.lost, !.reported = q.reported,
                    !.broken = q.broken, !.priced = q.priced, !.due = q.due]
  BY <1>1 DEF Answered
<1>3. IsCall(w)
  BY <1>0, <1>1, <1>2 DEF IsCall
<1>4. w.pc = p /\ ~w.done
  BY <1>0, <1>1, <1>2, NewCallFields
<1>5. SameAnswer(w, q)
  BY <1>0, <1>2, NewCallFields DEF SameAnswer
<1>6. SameCharges(w, k)
  BY <1>0, <1>2, NewCallFields DEF SameCharges
<1>7. Bare(w)
  <2>1. w.buf = k.buf /\ w.usage = k.usage /\ w.ended = k.ended /\ w.hit = k.hit
    BY <1>0, <1>1, <1>2, NewCallFields
  <2>2. w.abandoned = k.abandoned /\ w.plan = k.plan /\ w.owed = k.owed /\ w.tried = k.tried
    BY <1>0, <1>1, <1>2, NewCallFields
  <2>3. Bare(k)
    BY <1>1
  <2> QED
    BY <2>1, <2>2, <2>3 DEF Bare
<1> QED
  BY <1>1, <1>3, <1>4, <1>5, <1>6, <1>7 DEF SameCharges

\* ToLog is Answered with a status; [DONE] goes out only where Closing says so.
LEMMA ToLogShape ==
    ASSUME NEW q, NEW s, NEW w, w = ToLog(q, s)
    PROVE  /\ IsCall(w) /\ w.pc = "log" /\ w.status = s /\ (w.done => Closing(q, s))
           /\ SameCharges(w, q) /\ SameAnswer(w, q) /\ Bare(w)
<1>1. PICK k : /\ k = Answered(q, "log") /\ IsCall(k) /\ k.pc = "log"
               /\ SameCharges(k, q) /\ SameAnswer(k, q) /\ Bare(k)
  BY AnsweredShape
<1>0. DOMAIN k = Fields
  BY <1>1 DEF IsCall
<1>2. w = [k EXCEPT !.status = s, !.done = Closing(q, s), !.priced = FALSE]
  BY <1>1 DEF ToLog
<1>3. IsCall(w)
  BY <1>0, <1>1, <1>2 DEF IsCall
<1>4. w.pc = "log" /\ w.status = s /\ (w.done => Closing(q, s))
  BY <1>0, <1>1, <1>2, NewCallFields
<1>5. SameAnswer(w, q)
  BY <1>0, <1>1, <1>2, NewCallFields DEF SameAnswer
<1>6. SameCharges(w, q)
  BY <1>0, <1>1, <1>2, NewCallFields DEF SameCharges
<1>7. Bare(w)
  <2>1. w.buf = k.buf /\ w.usage = k.usage /\ w.ended = k.ended /\ w.hit = k.hit
    BY <1>0, <1>1, <1>2, NewCallFields
  <2>2. w.abandoned = k.abandoned /\ w.plan = k.plan /\ w.owed = k.owed /\ w.tried = k.tried
    BY <1>0, <1>1, <1>2, NewCallFields
  <2>3. Bare(k)
    BY <1>1
  <2> QED
    BY <2>1, <2>2, <2>3 DEF Bare
<1> QED
  BY <1>3, <1>4, <1>5, <1>6, <1>7

\* w is q after a frame of which the adapter made s.
FromFrame(w, q, s, whole) ==
    /\ w.buf = s.chunks /\ w.whole = whole /\ w.ended = s.ends
    /\ w.broken = (IF s.ends /\ s.raises = "no" /\ ~whole THEN "short" ELSE s.raises)
    /\ w.reported = (q.reported \/ \E i \in DOMAIN s.chunks : s.chunks[i].usage)
    /\ w.pc = q.pc /\ w.stream = q.stream /\ w.lost = q.lost /\ w.due = q.due
    /\ w.charged = q.charged /\ w.orgCharged = q.orgCharged /\ w.crossed = q.crossed /\ w.taken = q.taken
    /\ w.usage = q.usage /\ w.done = q.done /\ w.hit = q.hit /\ w.status = q.status
    /\ w.abandoned = q.abandoned /\ w.plan = q.plan /\ w.owed = q.owed /\ w.tried = q.tried

\* What an upstream frame changes in a call, field by field.
LEMMA PulledFields ==
    ASSUME NEW q, IsCall(q), NEW frame, NEW w, w = Pulled(q, frame),
           NEW s, s = CreateStreaming(ProviderOf[q.served], q.st, frame),
           NEW whole, whole = (q.whole \/ frame \in Finishing)
    PROVE  IsCall(w) /\ FromFrame(w, q, s, whole)
<1>0. DOMAIN q = Fields
  BY DEF IsCall
<1>1. IsCall(w)
  BY DEF Pulled, IsCall
<1>2. w.buf = s.chunks
  BY <1>0, NewCallFields DEF Pulled
<1>3. w.whole = whole
  BY <1>0, NewCallFields DEF Pulled
<1>4. w.ended = s.ends
  BY <1>0, NewCallFields DEF Pulled
<1>5. w.broken = (IF s.ends /\ s.raises = "no" /\ ~whole THEN "short" ELSE s.raises)
  BY <1>0, NewCallFields DEF Pulled
<1>6. w.reported = (q.reported \/ \E i \in DOMAIN s.chunks : s.chunks[i].usage)
  BY <1>0, NewCallFields DEF Pulled
<1>7. /\ w.pc = q.pc /\ w.stream = q.stream /\ w.lost = q.lost /\ w.due = q.due
      /\ w.charged = q.charged /\ w.orgCharged = q.orgCharged /\ w.crossed = q.crossed /\ w.taken = q.taken
  BY <1>0, NewCallFields DEF Pulled
<1>8. /\ w.usage = q.usage /\ w.done = q.done /\ w.hit = q.hit /\ w.status = q.status
      /\ w.abandoned = q.abandoned /\ w.plan = q.plan /\ w.owed = q.owed /\ w.tried = q.tried
  BY <1>0, NewCallFields DEF Pulled
<1> QED
  BY <1>1, <1>2, <1>3, <1>4, <1>5, <1>6, <1>7, <1>8 DEF FromFrame

\* Every adapter yields chunks of the three kinds, and raises only as it ends.
LEMMA AdapterShape ==
    ASSUME NEW p, NEW st, NEW frame, NEW s, s = CreateStreaming(p, st, frame)
    PROVE  /\ s.chunks \in Seq(Chunks) /\ s.raises \in {"no", "call", "other"}
           /\ ~s.ends => s.raises = "no"
<1> DEFINE Good(x) == /\ x.chunks \in Seq(Chunks) /\ x.raises \in {"no", "call", "other"}
                      /\ ~x.ends => x.raises = "no"
<1>0. <<>> \in Seq(Chunks)
  OBVIOUS
<1>1. <<Content>> \in Seq(Chunks) /\ <<UsageOnly>> \in Seq(Chunks) /\ <<Both>> \in Seq(Chunks)
      /\ <<Content, UsageOnly>> \in Seq(Chunks) /\ <<Content, Content>> \in Seq(Chunks)
  <2>1. Content \in Chunks /\ UsageOnly \in Chunks /\ Both \in Chunks
    BY DEF Chunks
  <2> QED
    BY <2>1
<1>3. ASSUME NEW ch \in Seq(Chunks), NEW t, NEW r \in {"no", "call", "other"}, NEW e \in BOOLEAN, ~e => r = "no"
      PROVE  Good(Step(ch, t, r, e))
  BY <1>3 DEF Step
<1>4. Good(OpenAiStream(st, frame))
  BY <1>0, <1>1, <1>3 DEF OpenAiStream, NetworkCut
<1>5. Good(AnthropicStream(st, frame))
  BY <1>0, <1>1, <1>3 DEF AnthropicStream, NetworkCut
<1>6. Good(VertexStream(st, frame))
  <2>1. PICK role \in Seq(Chunks) : role = IF st.opened THEN <<>> ELSE <<Content>>
    BY <1>0, <1>1
  <2>2. PICK both \in Seq(Chunks) : both = role \o <<Content>>
    <3>1. PICK one \in Seq(Chunks) : one = <<Content>>
      BY <1>1
    <3>2. role \o one \in Seq(Chunks)
      BY <2>1
    <3> QED
      BY <3>1, <3>2
  <2>3. PICK tail \in Seq(Chunks) : tail = IF st.usage THEN <<UsageOnly>> ELSE <<>>
    BY <1>0, <1>1
  <2> HIDE DEF Good
  <2> QED
    BY <1>0, <1>3, <2>1, <2>2, <2>3 DEF VertexStream, NetworkCut
<1> HIDE DEF Good
<1>7. Good(s)
  BY <1>4, <1>5, <1>6 DEF CreateStreaming, OpenRouterStream, OllamaStream
<1> QED
  BY <1>7 DEF Good

-----------------------------------------------------------------------------
(* One call's invariant, constructor by constructor.                       *)

Carried(q) ==
    q.charged \in Nat /\ q.orgCharged \in {0, q.charged} /\ q.crossed \in Marks /\ q.due \in Marks /\ ~q.lost

\* What ToLog and Answered need of a call to keep its invariant.
LEMMA CallCarried == ASSUME NEW q, CallInv(q) PROVE Carried(q)
BY DEF CallInv, Typed, Streamed, Carried

\* No threshold crossed is a well-typed mark.
LEMMA NothingMarked == Nothing \in Marks
BY DEF Nothing, Marks

\* A call that relays nothing is typed once its charges and marks are.
LEMMA TypedWhen ==
    ASSUME NEW w, IsCall(w), w.pc \in PCs, w.buf = <<>>, w.hit \in BOOLEAN,
           w.charged \in Nat, w.orgCharged \in {0, w.charged}, w.crossed \in Marks, w.due \in Marks,
           w.pc = "log" => w.status \in Statuses
    PROVE  Typed(w)
<1>1. <<>> \in Seq(Chunks)
  OBVIOUS
<1>2. w.buf \in Seq(Chunks)
  BY <1>1
<1> QED
  BY <1>2 DEF Typed

\* Without a round of alerts under way nothing is owed.
LEMMA BareAlerting == ASSUME NEW w, Bare(w) PROVE Alerting(w)
<1>1. w.plan \subseteq AlertsOf("team")
  BY DEF Bare
<1> QED
  BY <1>1 DEF Bare, Alerting, Levels

\* A call sent to its log keeps its invariant if its status is no lie.
LEMMA ToLogInv ==
    ASSUME NEW q, Carried(q), NEW s \in Statuses, NEW w, w = ToLog(q, s),
           s = "ok" => q.orgCharged = q.charged /\ q.taken = Levels,
           Closing(q, s) => Complete(q),
           q.reported /\ q.broken = "no"
             => \/ q.taken = Levels /\ q.orgCharged = q.charged
                \/ s \in {"charge_failed", "internal_error", "client_disconnected"}
    PROVE  CallInv(w) /\ SameCharges(w, q) /\ w.pc = "log"
<1>1. /\ IsCall(w) /\ w.pc = "log" /\ w.status = s /\ (w.done => Closing(q, s))
      /\ SameCharges(w, q) /\ SameAnswer(w, q) /\ Bare(w)
  BY ToLogShape
<1>2. Typed(w)
  <2>1. <<>> \in Seq(Chunks)
    OBVIOUS
  <2>2. IsCall(w) /\ w.pc \in PCs /\ w.buf \in Seq(Chunks) /\ w.hit \in BOOLEAN
    BY <1>1, <2>1 DEF Bare, PCs
  <2>3. /\ w.charged \in Nat /\ w.orgCharged \in {0, w.charged}
        /\ w.crossed \in Marks /\ w.due \in Marks /\ w.status \in Statuses
    BY <1>1 DEF Carried, SameCharges, SameAnswer
  <2> QED
    BY <2>2, <2>3 DEF Typed
<1>3. Money(w)
  BY <1>1 DEF Money, Carried, SameCharges, SameAnswer, Bare
<1>4. Streamed(w)
  BY <1>1 DEF Streamed, Carried, SameAnswer, Complete
<1>5. Alerting(w)
  BY <1>1, BareAlerting
<1> QED
  BY <1>1, <1>2, <1>3, <1>4, <1>5 DEF CallInv

\* A call that only keeps its charges is one that is over.
LEMMA KeptInv ==
    ASSUME NEW q, Carried(q), NEW p \in {"tasks", "done"}, NEW due \in Marks, NEW w, IsCall(w),
           w = [Kept(q) EXCEPT !.pc = p, !.due = due] \/ (w = [Kept(q) EXCEPT !.pc = p] /\ due = Nothing)
    PROVE  CallInv(w) /\ SameCharges(w, q) /\ w.pc = p
<1>1. PICK k : k = Kept(q) /\ IsCall(k) /\ SameCharges(k, q) /\ Blank(k) /\ Bare(k) /\ ~k.done
  BY KeptShape
<1>0. DOMAIN k = Fields
  BY <1>1 DEF IsCall
<1>2. w = [k EXCEPT !.pc = p, !.due = due] \/ (w = [k EXCEPT !.pc = p] /\ due = Nothing)
  BY <1>1
<1>3. w.pc = p /\ ~w.done
  BY <1>0, <1>1, <1>2, NewCallFields
<1>4. w.due = due
  BY <1>0, <1>1, <1>2, NewCallFields DEF Blank
<1>5. SameCharges(w, k)
  BY <1>0, <1>1, <1>2, NewCallFields DEF SameCharges
<1>6. Bare(w)
  <2>1. w.buf = k.buf /\ w.usage = k.usage /\ w.ended = k.ended /\ w.hit = k.hit
    BY <1>0, <1>1, <1>2, NewCallFields
  <2>2. w.abandoned = k.abandoned /\ w.plan = k.plan /\ w.owed = k.owed /\ w.tried = k.tried
    BY <1>0, <1>1, <1>2, NewCallFields
  <2>3. Bare(k)
    BY <1>1
  <2> QED
    BY <2>1, <2>2, <2>3 DEF Bare
<1>7. ~w.lost
  <2>1. w.lost = k.lost
    BY <1>0, <1>2, NewCallFields
  <2> QED
    BY <1>1, <2>1 DEF Blank
<1>8. SameCharges(w, q)
  BY <1>1, <1>5 DEF SameCharges
<1>9. Typed(w)
  <2>1. <<>> \in Seq(Chunks)
    OBVIOUS
  <2>2. IsCall(w) /\ w.pc \in PCs /\ w.buf \in Seq(Chunks) /\ w.hit \in BOOLEAN
    BY <1>3, <1>6, <2>1 DEF Bare, PCs
  <2>3. /\ w.charged \in Nat /\ w.orgCharged \in {0, w.charged}
        /\ w.crossed \in Marks /\ w.due \in Marks
    BY <1>4, <1>8 DEF Carried, SameCharges
  <2> QED
    BY <1>3, <2>2, <2>3 DEF Typed
<1>10. Money(w) /\ Streamed(w)
  BY <1>3, <1>7 DEF Money, Streamed
<1>11. Alerting(w)
  BY <1>6, BareAlerting
<1> QED
  BY <1>3, <1>8, <1>9, <1>10, <1>11 DEF CallInv

\* A finished call keeps its charges and its invariant.
LEMMA FinishedInv ==
    ASSUME NEW q, Carried(q), NEW w, w = Finished(q)
    PROVE  CallInv(w) /\ SameCharges(w, q) /\ w.pc = "done"
<1>1. IsCall(w)
  <2>1. PICK k : k = Kept(q) /\ IsCall(k)
    BY KeptShape
  <2> QED
    BY <2>1, NewCallFields DEF Finished, IsCall
<1> QED
  BY <1>1, KeptInv, NothingMarked DEF Finished

\* After its log a call is over, or still has its alerts to send.
LEMMA AfterBooksInv ==
    ASSUME NEW q, Carried(q), NEW w, w = AfterBooks(q)
    PROVE  CallInv(w) /\ SameCharges(w, q) /\ w.pc \in {"tasks", "done"}
<1>1. CASE w = Finished(q)
  BY <1>1, FinishedInv
<1>2. CASE w = [Kept(q) EXCEPT !.pc = "tasks", !.due = q.due]
  <2>1. PICK k : k = Kept(q) /\ IsCall(k)
    BY KeptShape
  <2>2. IsCall(w)
    BY <1>2, <2>1 DEF IsCall
  <2>3. PICK due \in Marks : due = q.due
    BY DEF Carried
  <2>4. w = [Kept(q) EXCEPT !.pc = "tasks", !.due = due]
    BY <1>2, <2>3
  <2> QED
    BY <2>2, <2>4, KeptInv
<1> QED
  BY <1>1, <1>2 DEF AfterBooks

\* A call that has just been admitted, or waits to be.
LEMMA FreshInv ==
    ASSUME NEW w, IsCall(w), w.pc \in {"idle", "dispatch"}, Bare(w), ~w.lost, ~w.reported, ~w.done,
           w.charged = 0, w.orgCharged = 0, w.crossed = Nothing, w.taken = {}, w.due = Nothing
    PROVE  CallInv(w)
<1>1. Typed(w)
  <2>1. w.pc \in PCs /\ w.buf = <<>> /\ w.hit \in BOOLEAN
    BY DEF PCs, Bare
  <2> QED
    BY <2>1, TypedWhen, NothingMarked
<1>2. Money(w) /\ Streamed(w)
  BY DEF Money, Streamed
<1> QED
  BY <1>1, <1>2, BareAlerting DEF CallInv

\* The two shapes an admitted call has: a chat, and the endpoints that do not stream.
Admitted(a, m, x, y) ==
    [NewCall EXCEPT !.pc = "dispatch", !.surface = a, !.model = m, !.stream = x, !.degraded = y]
AdmittedWhole(a, m) == [NewCall EXCEPT !.pc = "dispatch", !.surface = a, !.model = m]

\* An admitted call is well formed and owes nothing yet.
LEMMA DispatchInv ==
    ASSUME NEW a, NEW m, NEW x, NEW y, NEW w,
           w = Admitted(a, m, x, y) \/ w = AdmittedWhole(a, m)
    PROVE  CallInv(w) /\ w.charged = 0 /\ w.orgCharged = 0 /\ w.crossed = Nothing /\ w.taken = {}
<1>1. PICK n : /\ n = NewCall /\ IsCall(n) /\ Blank(n) /\ Bare(n) /\ ~n.done
               /\ n.charged = 0 /\ n.orgCharged = 0 /\ n.crossed = Nothing /\ n.taken = {}
  BY NewCallShape
<1>2. \/ w = [n EXCEPT !.pc = "dispatch", !.surface = a, !.model = m, !.stream = x, !.degraded = y]
      \/ w = [n EXCEPT !.pc = "dispatch", !.surface = a, !.model = m]
  BY <1>1 DEF Admitted, AdmittedWhole
<1>3. IsCall(w)
  BY <1>1, <1>2 DEF IsCall
<1>0. DOMAIN n = Fields
  BY <1>1 DEF IsCall
<1>4. w.pc = "dispatch" /\ ~w.done /\ w.charged = 0 /\ w.orgCharged = 0 /\ w.crossed = Nothing /\ w.taken = {}
  BY <1>0, <1>1, <1>2, NewCallFields
<1>5. ~w.lost /\ ~w.reported /\ w.due = Nothing
  <2>1. ~n.lost /\ ~n.reported /\ n.due = Nothing
    BY <1>1 DEF Blank
  <2>2. w.lost = n.lost /\ w.reported = n.reported /\ w.due = n.due
    BY <1>0, <1>2, NewCallFields
  <2> QED
    BY <2>1, <2>2
<1>6. Bare(w)
  <2>1. w.buf = n.buf /\ w.usage = n.usage /\ w.ended = n.ended /\ w.hit = n.hit
    BY <1>0, <1>1, <1>2, NewCallFields
  <2>2. w.abandoned = n.abandoned /\ w.plan = n.plan /\ w.owed = n.owed /\ w.tried = n.tried
    BY <1>0, <1>1, <1>2, NewCallFields
  <2>3. Bare(n)
    BY <1>1
  <2> QED
    BY <2>1, <2>2, <2>3 DEF Bare
<1> QED
  BY <1>3, <1>4, <1>5, <1>6, FreshInv

-----------------------------------------------------------------------------
(* One call's invariant, action by action.                                 *)

\* A step that charges nothing: the call's books stay, and what is over stays so.
Quiet(q, w) == CallInv(w) /\ SameCharges(w, q) /\ (q.pc \in Over => w.pc \in Over)

\* A call not yet made has charged nothing.
LEMMA IdleCharges ==
    ASSUME NEW q, CallInv(q), q.pc = "idle"
    PROVE  q.charged = 0 /\ q.orgCharged = 0 /\ q.crossed = Nothing /\ q.taken = {}
BY DEF CallInv, Typed, Money

\* Admission of a call charges nothing.
LEMMA AdmitQuiet ==
    ASSUME NEW q, CallInv(q), q.pc = "idle", NEW a, NEW m, NEW x, NEW y, NEW w,
           w = Admitted(a, m, x, y) \/ w = AdmittedWhole(a, m)
    PROVE  Quiet(q, w)
<1>1. CallInv(w) /\ w.charged = 0 /\ w.orgCharged = 0 /\ w.crossed = Nothing /\ w.taken = {}
  BY DispatchInv
<1> QED
  BY <1>1, IdleCharges DEF Quiet, SameCharges, Over

\* A refused call goes to its log uncharged.
LEMMA RefuseQuiet ==
    ASSUME NEW q, CallInv(q), q.pc = "idle", NEW w, w = ToLog(NewCall, "refused")
    PROVE  Quiet(q, w)
<1>1. Carried(NewCall) /\ NewCall.charged = 0 /\ NewCall.orgCharged = 0 /\ NewCall.crossed = Nothing /\ NewCall.taken = {}
      /\ ~NewCall.reported /\ ~NewCall.stream
  BY NewCallShape, NothingMarked DEF Carried, Blank
<1>2. CallInv(w) /\ SameCharges(w, NewCall)
  BY <1>1, ToLogInv DEF Statuses, Closing
<1> QED
  BY <1>1, <1>2, IdleCharges DEF Quiet, SameCharges, Over

\* A stored answer goes to its log as ok, uncharged, and marked as a hit.
LEMMA HitQuiet ==
    ASSUME NEW q, CallInv(q), q.pc = "idle", NEW w, w = [ToLog(NewCall, "ok") EXCEPT !.hit = TRUE]
    PROVE  Quiet(q, w)
<1>1. NewCall.charged = 0 /\ NewCall.orgCharged = 0 /\ NewCall.crossed = Nothing /\ NewCall.taken = {} /\ Blank(NewCall)
  BY NewCallShape
<1>2. PICK k : /\ k = ToLog(NewCall, "ok") /\ IsCall(k) /\ k.pc = "log" /\ k.status = "ok"
               /\ (k.done => Closing(NewCall, "ok"))
               /\ SameCharges(k, NewCall) /\ SameAnswer(k, NewCall) /\ Bare(k)
  BY ToLogShape
<1>3. w = [k EXCEPT !.hit = TRUE] /\ DOMAIN k = Fields
  BY <1>2 DEF IsCall
<1>4. IsCall(w) /\ w.pc = "log" /\ w.status = "ok" /\ w.hit = TRUE /\ w.done = k.done
  <2>1. IsCall(w)
    BY <1>2, <1>3 DEF IsCall
  <2>2. w.pc = k.pc /\ w.status = k.status /\ w.hit = TRUE /\ w.done = k.done
    BY <1>3, NewCallFields
  <2> QED
    BY <1>2, <2>1, <2>2
<1>5. w.charged = 0 /\ w.orgCharged = 0 /\ w.crossed = Nothing /\ w.taken = {}
  BY <1>1, <1>2, <1>3, NewCallFields DEF SameCharges
<1>6. ~w.lost /\ ~w.reported /\ w.due = Nothing /\ ~w.done
  BY <1>1, <1>2, <1>3, <1>4, NewCallFields DEF SameAnswer, Blank, Closing
<1>7. w.buf = <<>> /\ w.plan = {} /\ w.owed = {} /\ w.tried = {}
  BY <1>2, <1>3, NewCallFields DEF Bare
<1>8. Typed(w)
  <2>1. w.pc \in PCs /\ w.status \in Statuses /\ w.hit \in BOOLEAN
    BY <1>4 DEF PCs, Statuses
  <2> QED
    BY <1>4, <1>5, <1>6, <1>7, <2>1, TypedWhen, NothingMarked, 0 \in Nat
<1>9. Money(w) /\ Streamed(w)
  BY <1>4, <1>5, <1>6 DEF Money, Streamed
<1>10. Alerting(w)
  <2>1. w.plan \subseteq AlertsOf("team")
    BY <1>7
  <2> QED
    BY <1>7, <2>1 DEF Alerting, Levels
<1> QED
  BY <1>4, <1>5, <1>8, <1>9, <1>10, IdleCharges DEF Quiet, CallInv, SameCharges, Over

\* An answer that is ready to be charged.
LEMMA ChargeInv ==
    ASSUME NEW w, IsCall(w), w.pc = "charge", w.buf = <<>>, w.hit \in BOOLEAN, Alerting(w),
           w.charged = 0, w.orgCharged = 0, w.crossed = Nothing, w.taken = {}, w.due \in Marks, ~w.lost, ~w.done,
           w.stream /\ ~w.abandoned => Complete(w)
    PROVE  CallInv(w)
<1>1. Typed(w)
  <2>1. w.pc \in PCs
    BY DEF PCs
  <2> QED
    BY <2>1, TypedWhen, NothingMarked, 0 \in Nat
<1>2. Money(w) /\ Streamed(w)
  BY DEF Money, Streamed
<1> QED
  BY <1>1, <1>2 DEF CallInv

\* Before a call is charged it has no charge.
LEMMA Uncharged ==
    ASSUME NEW q, CallInv(q), q.pc \in {"idle", "dispatch", "opening", "streaming", "charge"}
    PROVE  q.charged = 0 /\ q.orgCharged = 0 /\ q.crossed = Nothing /\ q.taken = {} /\ q.due \in Marks
BY DEF CallInv, Typed, Money

\* An answer reaches its charge: whole, or a stream that ended by itself.
LEMMA AnswerToCharge ==
    ASSUME NEW q, CallInv(q), q.pc \in {"dispatch", "streaming"}, q.stream => Complete(q),
           NEW x, NEW w,
           w = Answered(q, "charge")
             \/ (~q.stream /\ w = [Answered(q, "charge") EXCEPT !.priced = x, !.reported = TRUE])
    PROVE  Quiet(q, w)
<1>1. PICK k : /\ k = Answered(q, "charge") /\ IsCall(k) /\ k.pc = "charge"
               /\ SameCharges(k, q) /\ SameAnswer(k, q) /\ Bare(k) /\ ~k.done
  BY AnsweredShape
<1>0. DOMAIN k = Fields
  BY <1>1 DEF IsCall
<1>2. w = k \/ (~q.stream /\ w = [k EXCEPT !.priced = x, !.reported = TRUE])
  BY <1>1
<1>3. IsCall(w)
  BY <1>1, <1>2 DEF IsCall
<1>4. /\ w.pc = k.pc /\ w.buf = k.buf /\ w.hit = k.hit /\ w.plan = k.plan /\ w.owed = k.owed
      /\ w.tried = k.tried /\ w.charged = k.charged /\ w.orgCharged = k.orgCharged
      /\ w.crossed = k.crossed /\ w.taken = k.taken /\ w.due = k.due
  <2>1. CASE w = k
    BY <2>1
  <2>2. CASE w = [k EXCEPT !.priced = x, !.reported = TRUE]
    BY <1>0, <2>2, NewCallFields
  <2> QED
    BY <1>2, <2>1, <2>2
<1>5. w.lost = k.lost /\ w.done = k.done /\ w.stream = k.stream /\ w.whole = k.whole /\ w.broken = k.broken
  <2>1. CASE w = k
    BY <2>1
  <2>2. CASE w = [k EXCEPT !.priced = x, !.reported = TRUE]
    BY <1>0, <2>2, NewCallFields
  <2> QED
    BY <1>2, <2>1, <2>2
<1>6. Alerting(w)
  <2>1. Alerting(k)
    BY <1>1, BareAlerting
  <2> QED
    BY <1>4, <2>1 DEF Alerting
<1>7. w.charged = 0 /\ w.orgCharged = 0 /\ w.crossed = Nothing /\ w.taken = {} /\ w.due \in Marks
  BY <1>1, <1>4, Uncharged DEF SameCharges, SameAnswer
<1>8. w.pc = "charge" /\ w.buf = <<>> /\ w.hit \in BOOLEAN /\ ~w.done
  BY <1>1, <1>4, <1>5 DEF Bare
<1>9. ~w.lost /\ (w.stream => Complete(w))
  BY <1>1, <1>5 DEF SameAnswer, Complete, CallInv, Streamed
<1>10. CallInv(w)
  BY <1>3, <1>6, <1>7, <1>8, <1>9, ChargeInv
<1> QED
  BY <1>7, <1>10, Uncharged DEF Quiet, SameCharges, Over

\* A stream abandoned at a yield reaches its charge as abandoned.
LEMMA AbandonToCharge ==
    ASSUME NEW q, CallInv(q), q.pc = "streaming", NEW w,
           w = [Answered(q, "charge") EXCEPT !.abandoned = TRUE]
    PROVE  Quiet(q, w)
<1>1. PICK k : /\ k = Answered(q, "charge") /\ IsCall(k) /\ k.pc = "charge"
               /\ SameCharges(k, q) /\ SameAnswer(k, q) /\ Bare(k) /\ ~k.done
  BY AnsweredShape
<1>0. DOMAIN k = Fields
  BY <1>1 DEF IsCall
<1>2. w = [k EXCEPT !.abandoned = TRUE]
  BY <1>1
<1>3. IsCall(w)
  BY <1>1, <1>2 DEF IsCall
<1>4. /\ w.pc = k.pc /\ w.buf = k.buf /\ w.hit = k.hit /\ w.plan = k.plan /\ w.owed = k.owed
      /\ w.tried = k.tried /\ w.charged = k.charged /\ w.orgCharged = k.orgCharged
      /\ w.crossed = k.crossed /\ w.taken = k.taken /\ w.due = k.due
  BY <1>0, <1>2, NewCallFields
<1>5. w.lost = k.lost /\ w.done = k.done /\ w.abandoned
  BY <1>0, <1>2, NewCallFields
<1>6. Alerting(w)
  <2>1. Alerting(k)
    BY <1>1, BareAlerting
  <2> QED
    BY <1>4, <2>1 DEF Alerting
<1>7. w.charged = 0 /\ w.orgCharged = 0 /\ w.crossed = Nothing /\ w.taken = {} /\ w.due \in Marks
  BY <1>1, <1>4, Uncharged DEF SameCharges, SameAnswer
<1>8. w.pc = "charge" /\ w.buf = <<>> /\ w.hit \in BOOLEAN /\ ~w.done
  BY <1>1, <1>4, <1>5 DEF Bare
<1>9. ~w.lost
  BY <1>1, <1>5 DEF SameAnswer, CallInv, Streamed
<1>10. CallInv(w)
  BY <1>3, <1>5, <1>6, <1>7, <1>8, <1>9, ChargeInv
<1> QED
  BY <1>7, <1>10, Uncharged DEF Quiet, SameCharges, Over

\* A call given up at any point keeps what it had charged.
LEMMA FinishQuiet ==
    ASSUME NEW q, CallInv(q), NEW w, w = Finished(q)
    PROVE  Quiet(q, w)
BY CallCarried, FinishedInv DEF Quiet, Over

\* A call goes to its log without a cost, under any status that does not claim one.
LEMMA LogQuiet ==
    ASSUME NEW q, CallInv(q), q.pc \notin Over, NEW s \in Statuses \ {"ok"}, NEW w, w = ToLog(q, s),
           Closing(q, s) => Complete(q),
           q.reported /\ q.broken = "no"
             => s \in {"charge_failed", "internal_error", "client_disconnected"}
    PROVE  Quiet(q, w)
BY CallCarried, ToLogInv DEF Quiet

\* Two calls that differ only in what the invariant does not look at.
Alike(w, q) ==
    /\ w.pc = q.pc /\ w.buf = q.buf /\ w.hit = q.hit /\ w.charged = q.charged
    /\ w.orgCharged = q.orgCharged /\ w.crossed = q.crossed /\ w.taken = q.taken /\ w.due = q.due
    /\ w.status = q.status /\ w.reported = q.reported /\ w.broken = q.broken /\ w.lost = q.lost
    /\ w.stream = q.stream /\ w.usage = q.usage /\ w.ended = q.ended /\ w.whole = q.whole
    /\ w.abandoned = q.abandoned /\ w.done = q.done
    /\ w.tried = q.tried /\ w.plan = q.plan /\ w.owed = q.owed

\* A call that differs only in fields no property looks at keeps its invariant.
LEMMA AlikeQuiet ==
    ASSUME NEW q, CallInv(q), NEW w, IsCall(w), Alike(w, q)
    PROVE  Quiet(q, w)
<1>1. Typed(w)
  BY DEF CallInv, Typed, Alike
<1>2. Money(w)
  BY DEF CallInv, Money, Alike
<1>3. Streamed(w)
  BY DEF CallInv, Streamed, Alike, Complete
<1>4. Alerting(w)
  BY DEF CallInv, Alerting, Alike
<1> QED
  BY <1>1, <1>2, <1>3, <1>4 DEF Quiet, CallInv, SameCharges, Alike

\* A client that leaves changes nothing of the call's books.
LEMMA LeaveQuiet ==
    ASSUME NEW q, CallInv(q), NEW w, w = [q EXCEPT !.gone = TRUE]
    PROVE  Quiet(q, w)
<1>0. IsCall(q) /\ DOMAIN q = Fields
  BY DEF CallInv, Typed, IsCall
<1>1. IsCall(w)
  BY <1>0 DEF IsCall
<1>2. Alike(w, q)
  BY <1>0, NewCallFields DEF Alike
<1> QED
  BY <1>1, <1>2, AlikeQuiet

\* A stream opened at the provider has sent and charged nothing.
LEMMA OpenQuiet ==
    ASSUME NEW q, CallInv(q), q.pc = "dispatch", q.stream, NEW m, NEW w,
           w = [q EXCEPT !.pc = "opening", !.served = m]
    PROVE  Quiet(q, w)
<1>0. IsCall(q) /\ DOMAIN q = Fields
  BY DEF CallInv, Typed, IsCall
<1>1. IsCall(w)
  BY <1>0 DEF IsCall
<1>2. /\ w.pc = "opening" /\ w.buf = q.buf /\ w.hit = q.hit /\ w.charged = q.charged
      /\ w.orgCharged = q.orgCharged /\ w.crossed = q.crossed /\ w.taken = q.taken /\ w.due = q.due
      /\ w.tried = q.tried /\ w.plan = q.plan /\ w.owed = q.owed
  BY <1>0, NewCallFields
<1>3. w.lost = q.lost /\ w.reported = q.reported /\ w.stream = q.stream /\ w.done = q.done
  BY <1>0, NewCallFields
<1>4. Typed(w)
  BY <1>1, <1>2 DEF CallInv, Typed, PCs
<1>5. Money(w)
  BY <1>2 DEF CallInv, Money
<1>6. Streamed(w)
  BY <1>2, <1>3 DEF CallInv, Streamed
<1>7. Alerting(w)
  BY <1>2 DEF CallInv, Alerting
<1> QED
  BY <1>2, <1>4, <1>5, <1>6, <1>7 DEF Quiet, CallInv, SameCharges, Over

\* What a frame makes of a call that awaits one.
LEMMA PulledCall ==
    ASSUME NEW q, CallInv(q), q.pc \in {"opening", "streaming"}, q.buf = <<>> \/ q.pc = "opening",
           NEW frame, NEW p, p = Pulled(q, frame)
    PROVE  /\ IsCall(p) /\ p.pc = q.pc /\ Typed(p) /\ Money(p) /\ Alerting(p) /\ SameCharges(p, q)
           /\ ~p.lost /\ p.stream /\ ~p.done
           /\ p.reported => (q.pc = "streaming" /\ p.usage) \/ \E i \in DOMAIN p.buf : p.buf[i].usage
           /\ p.ended => Complete(p) \/ p.broken = "call"
<1>1. PICK s : s = CreateStreaming(ProviderOf[q.served], q.st, frame)
  OBVIOUS
<1>2. s.chunks \in Seq(Chunks) /\ s.raises \in {"no", "call", "other"} /\ (~s.ends => s.raises = "no")
  BY <1>1, AdapterShape
<1>3. PICK whole : whole = (q.whole \/ frame \in Finishing)
  OBVIOUS
<1>4. IsCall(q)
  BY DEF CallInv, Typed, FromFrame
<1>5. IsCall(p) /\ FromFrame(p, q, s, whole)
  BY <1>1, <1>3, <1>4, PulledFields
<1>6. Typed(p)
  BY <1>2, <1>5 DEF CallInv, Typed, FromFrame
<1>7. Money(p)
  BY <1>5 DEF CallInv, Money, FromFrame
<1>8. Alerting(p)
  BY <1>5 DEF CallInv, Alerting, FromFrame
<1>9. ~p.lost /\ p.stream /\ ~p.done
  BY <1>5 DEF CallInv, Streamed, FromFrame
<1>10. p.ended => Complete(p) \/ p.broken = "call"
  BY <1>2, <1>5 DEF Complete, FromFrame
<1>11. p.reported => (q.pc = "streaming" /\ p.usage) \/ \E i \in DOMAIN p.buf : p.buf[i].usage
  <2>1. q.reported => q.pc = "streaming" /\ q.usage
    BY DEF CallInv, Streamed
  <2>2. p.reported => q.reported \/ \E i \in DOMAIN s.chunks : s.chunks[i].usage
    BY <1>5 DEF FromFrame
  <2> QED
    BY <1>5, <2>1, <2>2 DEF FromFrame
<1> QED
  BY <1>5, <1>6, <1>7, <1>8, <1>9, <1>10, <1>11 DEF SameCharges, FromFrame

\* The stream once its first chunk is there.
Started(p, x, y) == [p EXCEPT !.pc = "streaming", !.first = x, !.priced = y]

\* The first chunk starts the stream: AwaitFirst's last two branches.
LEMMA AwaitQuiet ==
    ASSUME NEW q, CallInv(q), q.pc = "opening", NEW frame, NEW p, p = Pulled(q, frame), NEW x, NEW y, NEW w,
           (p.buf = <<>> /\ w = p) \/ w = Started(p, x, y)
    PROVE  Quiet(q, w)
<1>1. /\ IsCall(p) /\ p.pc = q.pc /\ Typed(p) /\ Money(p) /\ Alerting(p) /\ SameCharges(p, q)
      /\ ~p.lost /\ p.stream /\ ~p.done
      /\ p.reported => \E i \in DOMAIN p.buf : p.buf[i].usage
      /\ p.ended => Complete(p) \/ p.broken = "call"
  BY PulledCall
<1>2. CASE p.buf = <<>> /\ w = p
  <2>1. ~p.reported
    BY <1>1, <1>2
  <2>2. Streamed(p)
    BY <1>1, <2>1 DEF Streamed
  <2> QED
    BY <1>1, <1>2, <2>2 DEF Quiet, CallInv, Over
<1>3. CASE w = Started(p, x, y)
  <2> w = [p EXCEPT !.pc = "streaming", !.first = x, !.priced = y]
    BY <1>3 DEF Started
  <2>0. DOMAIN p = Fields
    BY <1>1 DEF IsCall
  <2>1. IsCall(w)
    BY <1>1 DEF IsCall
  <2>2. /\ w.pc = "streaming" /\ w.buf = p.buf /\ w.hit = p.hit /\ w.charged = p.charged
        /\ w.orgCharged = p.orgCharged /\ w.crossed = p.crossed /\ w.taken = p.taken /\ w.due = p.due
        /\ w.tried = p.tried /\ w.plan = p.plan /\ w.owed = p.owed
    BY <2>0, NewCallFields
  <2>3. /\ w.lost = p.lost /\ w.reported = p.reported /\ w.stream = p.stream /\ w.done = p.done
        /\ w.ended = p.ended /\ w.whole = p.whole /\ w.broken = p.broken
    BY <2>0, NewCallFields
  <2>4. Typed(w)
    BY <1>1, <2>1, <2>2 DEF Typed, PCs
  <2>5. Money(w)
    BY <1>1, <2>2 DEF Money
  <2>6. Streamed(w)
    BY <1>1, <2>2, <2>3 DEF Streamed, Complete
  <2>7. Alerting(w)
    BY <1>1, <2>2 DEF Alerting
  <2> QED
    BY <1>1, <2>2, <2>4, <2>5, <2>6, <2>7 DEF Quiet, CallInv, SameCharges, Over
<1> QED
  BY <1>2, <1>3

\* A frame pulled later keeps the call's invariant.
LEMMA PullQuiet ==
    ASSUME NEW q, CallInv(q), q.pc = "streaming", q.buf = <<>>, NEW frame, NEW w, w = Pulled(q, frame)
    PROVE  Quiet(q, w)
<1>1. /\ w.pc = q.pc /\ Typed(w) /\ Money(w) /\ Alerting(w) /\ SameCharges(w, q)
      /\ ~w.lost /\ w.stream /\ ~w.done
      /\ w.reported => w.usage \/ \E i \in DOMAIN w.buf : w.buf[i].usage
      /\ w.ended => Complete(w) \/ w.broken = "call"
  BY PulledCall
<1>2. Streamed(w)
  BY <1>1 DEF Streamed
<1> QED
  BY <1>1, <1>2 DEF Quiet, CallInv

\* A chunk passed on takes its usage with it and withholds no choices.
LEMMA RelayQuiet ==
    ASSUME NEW q, CallInv(q), q.pc = "streaming", q.buf # <<>>, NEW wanted \in BOOLEAN,
           NEW chunk, chunk = Head(q.buf), NEW w,
           w = [q EXCEPT !.buf = Tail(@), !.first = FALSE, !.usage = @ \/ CapturesUsage(chunk),
                         !.lost = @ \/ (IsDedicatedUsageChunk(chunk) /\ ~wanted /\ chunk.choices)]
    PROVE  Quiet(q, w)
<1>0. IsCall(q) /\ DOMAIN q = Fields
  BY DEF CallInv, Typed, IsCall
<1>1. IsCall(w)
  BY <1>0 DEF IsCall
<1>2. /\ w.pc = q.pc /\ w.hit = q.hit /\ w.charged = q.charged /\ w.status = q.status
      /\ w.orgCharged = q.orgCharged /\ w.crossed = q.crossed /\ w.taken = q.taken /\ w.due = q.due
      /\ w.tried = q.tried /\ w.plan = q.plan /\ w.owed = q.owed
  BY <1>0, NewCallFields
<1>3. /\ w.reported = q.reported /\ w.stream = q.stream /\ w.done = q.done
      /\ w.ended = q.ended /\ w.whole = q.whole /\ w.broken = q.broken
  BY <1>0, NewCallFields
<1>4. w.buf = Tail(q.buf)
  BY <1>0, NewCallFields
<1>5. w.usage = (q.usage \/ CapturesUsage(chunk))
  BY <1>0, NewCallFields
<1>6. ~w.lost
  <2>1. w.lost = (q.lost \/ (IsDedicatedUsageChunk(chunk) /\ ~wanted /\ chunk.choices))
    BY <1>0, NewCallFields
  <2> QED
    BY <2>1 DEF CallInv, Streamed, IsDedicatedUsageChunk
<1>7. PICK b : b = q.buf /\ b \in Seq(Chunks) /\ b # <<>>
  BY DEF CallInv, Typed
<1>8. Tail(b) \in Seq(Chunks) /\ \A i \in DOMAIN b : i = 1 \/ (i - 1 \in DOMAIN Tail(b) /\ b[i] = Tail(b)[i - 1])
  BY <1>7
<1>9. Typed(w)
  BY <1>1, <1>2, <1>4, <1>7, <1>8 DEF CallInv, Typed
<1>10. Money(w)
  BY <1>2, <1>3 DEF CallInv, Money
<1>11. w.reported => w.usage \/ \E i \in DOMAIN w.buf : w.buf[i].usage
  <2>1. SUFFICES ASSUME q.reported PROVE w.usage \/ \E i \in DOMAIN w.buf : w.buf[i].usage
    BY <1>3
  <2>2. CASE q.usage
    BY <1>5, <2>2
  <2>3. CASE \E i \in DOMAIN b : b[i].usage
    <3>1. PICK i \in DOMAIN b : b[i].usage
      BY <2>3
    <3>2. CASE i = 1
      <4>1. chunk = b[1]
        BY <1>7
      <4>2. chunk.usage
        BY <3>1, <3>2, <4>1
      <4> QED
        BY <1>5, <4>2 DEF CapturesUsage
    <3>3. CASE i - 1 \in DOMAIN Tail(b) /\ b[i] = Tail(b)[i - 1]
      BY <1>4, <1>7, <3>1, <3>3
    <3> QED
      BY <1>8, <3>1, <3>2, <3>3
  <2> QED
    BY <1>7, <2>1, <2>2, <2>3 DEF CallInv, Streamed
<1>12. Streamed(w)
  BY <1>2, <1>3, <1>6, <1>11 DEF CallInv, Streamed, Complete
<1>13. Alerting(w)
  BY <1>2 DEF CallInv, Alerting
<1> QED
  BY <1>2, <1>9, <1>10, <1>12, <1>13 DEF Quiet, CallInv, SameCharges

\* The finally block of a stream sends [DONE] only when all of it was passed on.
LEMMA EndQuiet ==
    ASSUME NEW q, CallInv(q), q.pc = "streaming", q.buf = <<>>, q.ended, NEW w,
           w = CASE q.broken = "call"            -> ToLog(q, "provider_error")
                 [] q.broken # "call" /\ q.usage -> Answered(q, "charge")
                 [] OTHER                        -> ToLog(q, "usage_unavailable")
    PROVE  Quiet(q, w)
<1>1. Complete(q) \/ q.broken = "call"
  BY DEF CallInv, Streamed
<1>2. CASE w = ToLog(q, "provider_error") /\ q.broken = "call"
  <2>1. "provider_error" \in Statuses \ {"ok"} /\ ~Closing(q, "provider_error") /\ q.broken # "no"
    BY <1>2 DEF Statuses, Closing
  <2> QED
    BY <1>2, <2>1, LogQuiet DEF Over
<1>3. CASE w = Answered(q, "charge") /\ q.broken # "call"
  BY <1>1, <1>3, AnswerToCharge
<1>4. CASE w = ToLog(q, "usage_unavailable") /\ q.broken # "call" /\ ~q.usage
  <2>1. "usage_unavailable" \in Statuses \ {"ok"} /\ Complete(q)
    BY <1>1, <1>4 DEF Statuses
  <2>2. ~q.reported
    BY <1>4 DEF CallInv, Streamed
  <2> QED
    BY <1>4, <2>1, <2>2, LogQuiet DEF Over
<1> QED
  BY <1>2, <1>3, <1>4

\* A charge that fails leaves the counters and marks the row without a cost.
LEMMA FailQuiet ==
    ASSUME NEW q, CallInv(q), q.pc \in {"charge", "org"}, NEW w, w = ChargeFails(q)
    PROVE  Quiet(q, w)
<1>1. CASE w = Finished(q)
  BY <1>1, FinishQuiet
<1>2. CASE w = ToLog(q, "charge_failed") /\ q.stream /\ ~q.abandoned
  <2>1. "charge_failed" \in Statuses \ {"ok"} /\ Complete(q)
    BY <1>2 DEF Statuses, CallInv, Streamed
  <2> QED
    BY <1>2, <2>1, LogQuiet DEF Over
<1>3. CASE w = ToLog(q, "internal_error") /\ ~q.stream
  <2>1. "internal_error" \in Statuses \ {"ok"} /\ ~Closing(q, "internal_error")
    BY <1>3 DEF Statuses, Closing
  <2> QED
    BY <1>3, <2>1, LogQuiet DEF Over
<1>4. CASE q.abandoned \/ (~q.stream /\ q.priced)
  BY <1>1, <1>4 DEF ChargeFails
<1>5. CASE ~q.abandoned /\ q.stream
  BY <1>2, <1>5 DEF ChargeFails
<1>6. CASE ~q.abandoned /\ ~q.stream /\ ~q.priced
  BY <1>3, <1>6 DEF ChargeFails
<1> QED
  BY <1>4, <1>5, <1>6

\* The log done, the call is over for the books.
LEMMA BooksQuiet ==
    ASSUME NEW q, CallInv(q), NEW w, w = AfterBooks(q)
    PROVE  Quiet(q, w) /\ w.pc \in Over
BY CallCarried, AfterBooksInv DEF Quiet, Over

\* The degradation event follows the log row and changes no charge.
LEMMA EventQuiet ==
    ASSUME NEW q, CallInv(q), q.pc = "log", NEW w, w = [q EXCEPT !.pc = "event"]
    PROVE  Quiet(q, w) /\ w.pc \in Over
<1>0. IsCall(q) /\ DOMAIN q = Fields
  BY DEF CallInv, Typed, IsCall
<1>1. IsCall(w)
  BY <1>0 DEF IsCall
<1>2. /\ w.pc = "event" /\ w.buf = q.buf /\ w.hit = q.hit /\ w.charged = q.charged
      /\ w.orgCharged = q.orgCharged /\ w.crossed = q.crossed /\ w.taken = q.taken /\ w.due = q.due
      /\ w.tried = q.tried /\ w.plan = q.plan /\ w.owed = q.owed
  BY <1>0, NewCallFields
<1>3. w.lost = q.lost /\ w.whole = q.whole /\ w.broken = q.broken /\ w.done = q.done
  BY <1>0, NewCallFields
<1>4. Typed(w)
  BY <1>1, <1>2 DEF CallInv, Typed, PCs
<1>5. Money(w)
  BY <1>2 DEF Money
<1>6. Streamed(w)
  BY <1>2, <1>3 DEF CallInv, Streamed, Complete
<1>7. Alerting(w)
  BY <1>2 DEF CallInv, Alerting
<1> QED
  BY <1>2, <1>4, <1>5, <1>6, <1>7 DEF Quiet, CallInv, SameCharges, Over

\* A step within the round of alerts.
LEMMA TasksInv ==
    ASSUME NEW q, CallInv(q), q.pc = "tasks", NEW w, IsCall(w), w.pc = "tasks", w.buf = q.buf, w.hit = q.hit,
           SameCharges(w, q), w.due \in Marks, w.lost = q.lost, w.done = q.done, Alerting(w)
    PROVE  Quiet(q, w)
<1>1. Typed(w)
  BY DEF CallInv, Typed, SameCharges
<1>2. Money(w)
  BY DEF Money
<1>3. Streamed(w)
  BY DEF CallInv, Streamed
<1> QED
  BY <1>1, <1>2, <1>3 DEF Quiet, CallInv

\* A round of alerts is about one level, and owes what it planned.
LEMMA LoadQuiet ==
    ASSUME NEW q, CallInv(q), q.pc = "tasks", NEW level \in Levels, NEW channels \in SUBSET Channels,
           NEW plan, plan = {level} \X q.due[level] \X channels, NEW w,
           w = [q EXCEPT !.due[level] = {}, !.plan = plan, !.owed = plan, !.tried = {}]
    PROVE  Quiet(q, w)
<1>0. IsCall(q) /\ DOMAIN q = Fields
  BY DEF CallInv, Typed, IsCall
<1>1. IsCall(w)
  BY <1>0 DEF IsCall
<1>2. w.pc = q.pc /\ w.buf = q.buf /\ w.hit = q.hit /\ w.lost = q.lost /\ w.done = q.done
  BY <1>0, NewCallFields
<1>3. SameCharges(w, q)
  BY <1>0, NewCallFields DEF SameCharges
<1>4. w.due = [q.due EXCEPT ![level] = {}] /\ w.plan = plan /\ w.owed = plan /\ w.tried = {}
  BY <1>0, NewCallFields
<1>5. q.due \in Marks
  BY DEF CallInv, Typed
<1>6. w.due \in Marks
  BY <1>4, <1>5 DEF Marks
<1>7. plan \subseteq AlertsOf(level)
  <2>1. q.due[level] \subseteq Percents
    BY <1>5 DEF Marks
  <2> QED
    BY <2>1 DEF AlertsOf
<1>8. Alerting(w)
  BY <1>4, <1>7 DEF Alerting
<1> QED
  BY <1>1, <1>2, <1>3, <1>6, <1>8, TasksInv

Earliest(a, plan) == \A b \in plan \ {a} : Before(a, b)

\* The alert sent next is one of those planned: the lowest threshold, and for
\* it the webhook if that is still to come.
LEMMA NextAlert ==
    ASSUME NEW level, NEW plan, plan \subseteq AlertsOf(level), plan # {}
    PROVE  \E a \in plan : Earliest(a, plan)
<1> DEFINE At(t) == \E ch \in Channels : <<level, t, ch>> \in plan
<1>1. \A b \in plan : \E t \in Percents, ch \in Channels : b = <<level, t, ch>>
  BY DEF AlertsOf
<1>2. PICK t \in Percents : At(t) /\ \A u \in Percents : At(u) => t <= u
  <2>1. At(50) \/ At(75) \/ At(80) \/ At(100)
    BY <1>1 DEF Percents
  <2> HIDE DEF At
  <2> QED
    BY <2>1 DEF Percents
<1>3. PICK ch \in Channels : <<level, t, ch>> \in plan
                             /\ (<<level, t, "webhook">> \in plan => ch = "webhook")
  BY <1>2 DEF Channels
<1>4. PICK a \in plan : a = <<level, t, ch>>
  BY <1>3
<1>5. ASSUME NEW b \in plan \ {a} PROVE Before(a, b)
  <2>1. PICK u \in Percents, dh \in Channels : b = <<level, u, dh>>
    BY <1>1
  <2>2. t <= u
    BY <1>2, <2>1
  <2>3. a[2] = t /\ a[3] = ch /\ b[2] = u /\ b[3] = dh
    BY <1>4, <2>1
  <2>4. t \in Int /\ u \in Int
    BY DEF Percents
  <2>5. t = u => ch = "webhook"
    BY <1>3, <1>4, <1>5, <2>1 DEF Channels
  <2> QED
    BY <2>2, <2>3, <2>4, <2>5 DEF Before
<1> QED
  BY <1>4, <1>5 DEF Earliest

\* An alert sent moves from the plan to the tried ones.
LEMMA SendQuiet ==
    ASSUME NEW q, CallInv(q), q.pc = "tasks", q.plan # {}, NEW a,
           a = (CHOOSE x \in q.plan : \A b \in q.plan \ {x} : Before(x, b)),
           NEW w, w \in Dispatched(q, a)
    PROVE  Quiet(q, w)
<1>0. IsCall(q) /\ DOMAIN q = Fields
  BY DEF CallInv, Typed, IsCall
<1>a. w = [q EXCEPT !.plan = @ \ {a}, !.tried = @ \cup {a}]
  BY DEF Dispatched
<1>1. IsCall(w)
  BY <1>0, <1>a DEF IsCall
<1>2. w.pc = q.pc /\ w.buf = q.buf /\ w.hit = q.hit /\ w.lost = q.lost /\ w.done = q.done
  BY <1>0, <1>a, NewCallFields
<1>3. SameCharges(w, q) /\ w.due = q.due
  BY <1>0, <1>a, NewCallFields DEF SameCharges
<1>4. w.plan = q.plan \ {a} /\ w.tried = q.tried \cup {a} /\ w.owed = q.owed
  BY <1>0, <1>a, NewCallFields
<1>5. PICK level \in Levels : q.plan \subseteq AlertsOf(level)
  BY DEF CallInv, Alerting
<1>6. a \in q.plan
  <2>1. PICK plan : plan = q.plan
    OBVIOUS
  <2>a. plan # {} /\ plan \subseteq AlertsOf(level)
    BY <1>5, <2>1
  <2>2. \E x \in plan : Earliest(x, plan)
    BY <2>a, NextAlert
  <2>3. a = CHOOSE x \in plan : Earliest(x, plan)
    BY <2>1 DEF Earliest
  <2> QED
    BY <2>1, <2>2, <2>3
<1>7. Alerting(w)
  <2>1. w.tried \cup w.plan = w.owed
    BY <1>4, <1>6 DEF CallInv, Alerting
  <2>2. w.plan \subseteq AlertsOf(level)
    BY <1>4, <1>5
  <2> QED
    BY <2>1, <2>2 DEF Alerting
<1> QED
  BY <1>1, <1>2, <1>3, <1>7, TasksInv DEF CallInv, Typed

\* What a charge makes of a call: the thresholds of its level that it crossed,
\* and a round of alerts to come.
ChargedAt(w, q, l, new) ==
    w.crossed = [q.crossed EXCEPT ![l] = CrossedThresholds(l, spend[l], new)] /\ w.due \in Marks

\* Marks stay well typed when one level's are replaced by switched-on thresholds.
LEMMA MarkAgain ==
    ASSUME NEW m \in Marks, NEW l \in Levels, NEW x \in SUBSET Percents
    PROVE  [m EXCEPT ![l] = x] \in Marks
<1>1. PICK T : T = SUBSET Percents
  OBVIOUS
<1>2. m \in [Levels -> T] /\ x \in T
  BY <1>1 DEF Marks
<1> QED
  BY <1>1, <1>2 DEF Marks

\* A call whose first commit has succeeded.
TeamCharged(q, cost) ==
    [Alerted(q, "team", cost) EXCEPT !.pc = "org", !.charged = cost, !.taken = {"team"}]

\* The team's charge marks the call with its cost and with what it crossed.
LEMMA ChargeTeamInv ==
    ASSUME NEW q, CallInv(q), q.pc = "charge", NEW cost \in Nat, AlertsTyped, NEW w,
           w = TeamCharged(q, cost)
    PROVE  CallInv(w) /\ w.charged = cost /\ w.orgCharged = 0 /\ ChargedAt(w, q, "team", spend["team"] + cost)
<1> DEFINE X == CrossedThresholds("team", spend["team"], spend["team"] + cost)
<1>0. IsCall(q) /\ DOMAIN q = Fields
  BY DEF CallInv, Typed, IsCall
<1>1. PICK x, y : x = X /\ y = IF alerts["team"].channels = {} THEN {} ELSE X
  OBVIOUS
<1>2. x \in SUBSET Percents /\ y \in SUBSET Percents
  BY <1>1 DEF CrossedThresholds, AlertsTyped, Levels
<1>3. PICK a : a = [q EXCEPT !.crossed["team"] = x, !.due["team"] = y]
  OBVIOUS
<1>4. a = Alerted(q, "team", cost)
  BY <1>1, <1>3 DEF Alerted
<1>5. IsCall(a) /\ DOMAIN a = Fields
  BY <1>0, <1>3 DEF IsCall
<1>6. w = [a EXCEPT !.pc = "org", !.charged = cost, !.taken = {"team"}]
  BY <1>4 DEF TeamCharged
<1>7. IsCall(w)
  BY <1>5, <1>6 DEF IsCall
<1>8. w.crossed = [q.crossed EXCEPT !["team"] = x] /\ w.due = [q.due EXCEPT !["team"] = y]
  <2>1. a.crossed = [q.crossed EXCEPT !["team"] = x]
    BY <1>0, <1>3, NewCallFields
  <2>2. a.due = [q.due EXCEPT !["team"] = y]
    BY <1>0, <1>3, NewCallFields
  <2>3. w.crossed = a.crossed /\ w.due = a.due
    BY <1>5, <1>6, NewCallFields
  <2> QED
    BY <2>1, <2>2, <2>3
<1>9. w.pc = "org" /\ w.charged = cost /\ w.orgCharged = q.orgCharged /\ w.buf = q.buf /\ w.hit = q.hit
  BY <1>0, <1>3, <1>5, <1>6, NewCallFields
<1>10. /\ w.lost = q.lost /\ w.stream = q.stream /\ w.abandoned = q.abandoned /\ w.whole = q.whole
       /\ w.broken = q.broken /\ w.done = q.done
  BY <1>0, <1>3, <1>5, <1>6, NewCallFields
<1>11. w.tried = q.tried /\ w.plan = q.plan /\ w.owed = q.owed
  BY <1>0, <1>3, <1>5, <1>6, NewCallFields
<1>12. q.charged = 0 /\ q.orgCharged = 0 /\ q.crossed = Nothing /\ q.due \in Marks
  BY Uncharged
<1>t. w.taken = {"team"}
  BY <1>5, <1>6, NewCallFields
<1>13. w.crossed \in Marks /\ w.due \in Marks /\ w.crossed["org"] = {}
  <2>1. q.crossed \in Marks /\ q.crossed["org"] = {}
    BY <1>12, NothingMarked DEF Nothing, Levels
  <2>2. "team" \in Levels /\ "org" \in Levels
    BY DEF Levels
  <2>3. PICK m \in Marks : m = q.crossed /\ m["org"] = {}
    BY <2>1
  <2>4. PICK d \in Marks : d = q.due
    BY <1>12
  <2>5. w.crossed = [m EXCEPT !["team"] = x] /\ w.due = [d EXCEPT !["team"] = y]
    BY <1>8, <2>3, <2>4
  <2>a. [m EXCEPT !["team"] = x] \in Marks
    BY <1>2, <2>2, MarkAgain
  <2>b. [d EXCEPT !["team"] = y] \in Marks
    BY <1>2, <2>2, MarkAgain
  <2>6. w.crossed \in Marks /\ w.due \in Marks
    BY <2>5, <2>a, <2>b
  <2>7. w.crossed["org"] = m["org"]
    BY <2>2, <2>5 DEF Marks
  <2> QED
    BY <2>3, <2>6, <2>7
<1>14. Typed(w)
  BY <1>7, <1>9, <1>12, <1>13 DEF CallInv, Typed, PCs
<1>15. Money(w)
  BY <1>9, <1>12, <1>13, <1>t DEF Money
<1>16. Streamed(w)
  BY <1>9, <1>10 DEF CallInv, Streamed, Complete
<1>17. Alerting(w)
  BY <1>11 DEF CallInv, Alerting
<1> QED
  BY <1>1, <1>8, <1>9, <1>12, <1>13, <1>14, <1>15, <1>16, <1>17 DEF CallInv, ChargedAt

\* A call whose second commit has succeeded.
OrgCharged(q) == [Alerted(q, "org", q.charged) EXCEPT !.orgCharged = q.charged, !.taken = Levels]

\* The organisation's charge makes both levels' equal, and the call goes to its log.
LEMMA ChargeOrgInv ==
    ASSUME NEW q, CallInv(q), q.pc = "org", AlertsTyped, NEW k, NEW w,
           k = OrgCharged(q),
           w = IF q.abandoned THEN Finished(k) ELSE ToLog(k, "ok")
    PROVE  /\ CallInv(w) /\ w.charged = q.charged /\ w.orgCharged = q.charged
           /\ q.orgCharged = 0 /\ q.crossed["org"] = {}
           /\ w.crossed = [q.crossed EXCEPT !["org"] =
                             CrossedThresholds("org", spend["org"], spend["org"] + q.charged)]
<1> DEFINE X == CrossedThresholds("org", spend["org"], spend["org"] + q.charged)
<1>0. IsCall(q) /\ DOMAIN q = Fields
  BY DEF CallInv, Typed, IsCall
<1>1. PICK x, y : x = X /\ y = IF alerts["org"].channels = {} THEN {} ELSE X
  OBVIOUS
<1>2. x \in SUBSET Percents /\ y \in SUBSET Percents
  BY <1>1 DEF CrossedThresholds, AlertsTyped, Levels
<1>3. PICK a : a = [q EXCEPT !.crossed["org"] = x, !.due["org"] = y]
  OBVIOUS
<1>4. a = Alerted(q, "org", q.charged)
  BY <1>1, <1>3 DEF Alerted
<1>5. IsCall(a) /\ DOMAIN a = Fields
  BY <1>0, <1>3 DEF IsCall
<1>6. k = [a EXCEPT !.orgCharged = q.charged, !.taken = Levels]
  BY <1>4 DEF OrgCharged
<1>7. k.crossed = [q.crossed EXCEPT !["org"] = x] /\ k.due = [q.due EXCEPT !["org"] = y]
  <2>1. a.crossed = [q.crossed EXCEPT !["org"] = x]
    BY <1>0, <1>3, NewCallFields
  <2>2. a.due = [q.due EXCEPT !["org"] = y]
    BY <1>0, <1>3, NewCallFields
  <2>3. k.crossed = a.crossed /\ k.due = a.due
    BY <1>5, <1>6, NewCallFields
  <2> QED
    BY <2>1, <2>2, <2>3
<1>8. k.charged = q.charged /\ k.orgCharged = q.charged /\ k.taken = Levels
  BY <1>0, <1>3, <1>5, <1>6, NewCallFields
<1>9. /\ k.lost = q.lost /\ k.stream = q.stream /\ k.whole = q.whole /\ k.broken = q.broken
  BY <1>0, <1>3, <1>5, <1>6, NewCallFields
<1>10. q.charged \in Nat /\ q.orgCharged = 0 /\ q.crossed["org"] = {}
       /\ q.crossed \in Marks /\ q.due \in Marks
  BY DEF CallInv, Typed, Money
<1>11. Carried(k)
  <2>1. k.crossed \in Marks /\ k.due \in Marks
    <3>1. "org" \in Levels
      BY DEF Levels
    <3>3. PICK m \in Marks, d \in Marks : m = q.crossed /\ d = q.due
      BY <1>10
    <3>4. k.crossed = [m EXCEPT !["org"] = x] /\ k.due = [d EXCEPT !["org"] = y]
      BY <1>7, <3>3
    <3>5. x \in SUBSET Percents /\ y \in SUBSET Percents
      BY <1>2
    <3>6. [m EXCEPT !["org"] = x] \in Marks
      BY <3>1, <3>5, MarkAgain
    <3>7. [d EXCEPT !["org"] = y] \in Marks
      BY <3>1, <3>5, MarkAgain
    <3> QED
      BY <3>4, <3>6, <3>7
  <2>2. ~k.lost
    BY <1>9 DEF CallInv, Streamed
  <2> QED
    BY <1>8, <1>10, <2>1, <2>2 DEF Carried
<1>12. CallInv(w) /\ SameCharges(w, k)
  <2>1. CASE q.abandoned
    BY <1>11, <2>1, FinishedInv
  <2>2. CASE ~q.abandoned
    <3>1. Closing(k, "ok") => Complete(k)
      BY <1>9, <2>2 DEF Closing, Complete, CallInv, Streamed
    <3>2. "ok" \in Statuses
      BY DEF Statuses
    <3> QED
      BY <1>8, <1>10, <1>11, <2>2, <3>1, <3>2, ToLogInv
  <2> QED
    BY <2>1, <2>2
<1> QED
  BY <1>1, <1>7, <1>8, <1>10, <1>12 DEF SameCharges

-----------------------------------------------------------------------------
(* The books.                                                              *)

\* Past the threshold before the charge, past it after, and crossed by it.
Judged(pct, top, old, cost, was, is, hit) ==
    /\ was <=> (top > 0 /\ 100 * old >= pct * top)
    /\ is <=> (top > 0 /\ 100 * (old + cost) >= pct * top)
    /\ hit <=> (100 * old < pct * top /\ pct * top <= 100 * (old + cost))

\* Where a counter was and where a charge took it: a threshold is crossed by
\* the charge that takes the counter past it, and by no other.
LEMMA Crossing ==
    ASSUME NEW pct \in Percents, NEW top \in Nat, NEW old \in Nat, NEW cost \in Nat,
           NEW was \in BOOLEAN, NEW is \in BOOLEAN, NEW hit \in BOOLEAN,
           Judged(pct, top, old, cost, was, is, hit)
    PROVE  /\ was => is /\ ~hit
           /\ hit => is
           /\ is /\ ~was => hit
<1>1. pct * top \in Nat /\ (top = 0 => pct * top = 0)
  BY DEF Percents
<1>2. PICK m \in Nat : m = pct * top /\ (top = 0 => m = 0)
  BY <1>1
<1>3. was <=> (top > 0 /\ 100 * old >= m)
  BY <1>2 DEF Judged
<1>4. is <=> (top > 0 /\ 100 * (old + cost) >= m)
  BY <1>2 DEF Judged
<1>5. hit <=> (100 * old < m /\ m <= 100 * (old + cost))
  BY <1>2 DEF Judged
<1> QED
  BY <1>2, <1>3, <1>4, <1>5

\* A step of one call leaves every other call alone.
LEMMA StepOfOne ==
    ASSUME MeterInv, NEW c \in Calls, NEW w, call' = [call EXCEPT ![c] = w]
    PROVE  /\ call' = [d \in Calls |-> call'[d]]
           /\ \A d \in Calls : call'[d] = IF d = c THEN w ELSE call[d]
BY DEF MeterInv

\* The thresholds a call has crossed once cost is added at level l.
CrossedWith(q, l, cost) == [q.crossed EXCEPT ![l] = CrossedThresholds(l, spend[l], spend[l] + cost)]
SpendWith(l, cost) == [spend EXCEPT ![l] = @ + cost]

\* A charge at one level keeps the record of crossings.
LEMMA ChargeCrosses ==
    ASSUME MeterInv, NEW c \in Calls, NEW l \in Levels, NEW cost \in Nat, NEW w,
           call' = [call EXCEPT ![c] = w],
           call[c].crossed[l] = {},
           w.crossed = CrossedWith(call[c], l, cost), spend' = SpendWith(l, cost), UNCHANGED alerts
    PROVE  CrossInv'
<1>1. \A d \in Calls : call'[d] = IF d = c THEN w ELSE call[d]
  BY StepOfOne
<1>2. spend \in [Levels -> Nat] /\ Ceiling \in [Levels -> Nat] /\ AlertsTyped
  BY MeterAssumption DEF MeterInv, SpendInv
<1>3. call[c].crossed \in Marks
  BY DEF MeterInv, CallInv, Typed
<1>4. PICK X : X = CrossedThresholds(l, spend[l], spend[l] + cost)
  OBVIOUS
<1>5. \A d \in Calls : \A k \in Levels :
         call'[d].crossed[k] = IF d = c /\ k = l THEN X ELSE call[d].crossed[k]
  BY <1>1, <1>3, <1>4 DEF Marks, CrossedWith
<1>6. \A k \in Levels : spend'[k] = IF k = l THEN spend[l] + cost ELSE spend[k]
  BY <1>2 DEF SpendWith
<1>7. ASSUME NEW pct \in Percents
      PROVE  /\ Passed(l, pct) => Passed(l, pct)' /\ pct \notin X
             /\ pct \in X => Passed(l, pct)'
             /\ Passed(l, pct)' /\ ~Passed(l, pct) /\ pct \in alerts[l].on => pct \in X
  <2>1. PICK top \in Nat, old \in Nat : top = Ceiling[l] /\ old = spend[l]
    BY <1>2
  <2>2. PICK was \in BOOLEAN, is \in BOOLEAN, hit \in BOOLEAN :
           Judged(pct, top, old, cost, was, is, hit)
    BY DEF Judged
  <2>3. /\ was => is /\ ~hit
        /\ hit => is
        /\ is /\ ~was => hit
    BY <1>7, <2>1, <2>2, Crossing
  <2>4. Passed(l, pct) <=> was
    BY <2>1, <2>2 DEF Passed, Judged
  <2>5. Passed(l, pct)' <=> is
    BY <1>6, <2>1, <2>2 DEF Passed, Judged
  <2>6. pct \in X <=> pct \in alerts[l].on /\ hit
    BY <1>4, <2>1, <2>2 DEF CrossedThresholds, Judged
  <2> QED
    BY <2>3, <2>4, <2>5, <2>6
<1>8. ASSUME NEW k \in Levels
      PROVE  /\ alerts'[k].channels \subseteq Channels /\ alerts'[k].on \subseteq Thresholds(k)
             /\ alerts'[k].once \subseteq alerts'[k].on
             /\ \A d \in Calls : \A pct \in call'[d].crossed[k] :
                   /\ Passed(k, pct)'
                   /\ \A e \in Calls : pct \in call'[e].crossed[k] => e = d
             /\ \A pct \in alerts'[k].once :
                   Passed(k, pct)' => \E d \in Calls : pct \in call'[d].crossed[k]
  <2>1. /\ alerts[k].channels \subseteq Channels /\ alerts[k].on \subseteq Thresholds(k)
        /\ alerts[k].once \subseteq alerts[k].on
        /\ \A d \in Calls : \A pct \in call[d].crossed[k] :
              /\ Passed(k, pct)
              /\ \A e \in Calls : pct \in call[e].crossed[k] => e = d
        /\ \A pct \in alerts[k].once : Passed(k, pct) => \E d \in Calls : pct \in call[d].crossed[k]
    BY DEF MeterInv, CrossInv
  <2>2. CASE k # l
    <3>1. \A pct : Passed(k, pct)' <=> Passed(k, pct)
      BY <1>6, <2>2 DEF Passed
    <3>2. \A d \in Calls : call'[d].crossed[k] = call[d].crossed[k]
      BY <1>5, <2>2
    <3> QED
      BY <2>1, <3>1, <3>2
  <2>3. CASE k = l
    <3>1. \A d \in Calls : call[d].crossed[l] \in SUBSET Percents
      BY DEF MeterInv, CallInv, Typed, Marks
    <3>2. X \in SUBSET Percents /\ alerts[l].once \subseteq Percents
      BY <1>2, <1>4 DEF AlertsTyped, CrossedThresholds
    <3>3. ASSUME NEW d \in Calls, NEW pct \in call'[d].crossed[l]
          PROVE  Passed(l, pct)' /\ \A e \in Calls : pct \in call'[e].crossed[l] => e = d
      <4>1. pct \in Percents
        BY <1>5, <3>1, <3>2, <3>3
      <4>2. CASE d = c
        <5>1. pct \in X
          BY <1>5, <3>3, <4>2
        <5>2. ~Passed(l, pct) /\ Passed(l, pct)'
          BY <1>7, <4>1, <5>1
        <5>3. \A e \in Calls : pct \notin call[e].crossed[l]
          BY <2>1, <2>3, <5>2
        <5> QED
          BY <1>5, <4>2, <5>2, <5>3
      <4>3. CASE d # c
        <5>1. pct \in call[d].crossed[l]
          BY <1>5, <3>3, <4>3
        <5>2. Passed(l, pct) /\ \A e \in Calls : pct \in call[e].crossed[l] => e = d
          BY <2>1, <2>3, <5>1
        <5>3. Passed(l, pct)' /\ pct \notin X
          BY <1>7, <4>1, <5>2
        <5> QED
          BY <1>5, <5>2, <5>3
      <4> QED
        BY <4>2, <4>3
    <3>4. ASSUME NEW pct \in alerts[l].once, Passed(l, pct)'
          PROVE  \E d \in Calls : pct \in call'[d].crossed[l]
      <4>1. pct \in Percents /\ pct \in alerts[l].on
        BY <2>1, <2>3, <3>2
      <4>2. CASE Passed(l, pct)
        <5>1. PICK d \in Calls : pct \in call[d].crossed[l]
          BY <2>1, <2>3, <4>2
        <5>2. d # c
          BY <5>1
        <5> QED
          BY <1>5, <5>1, <5>2
      <4>3. CASE ~Passed(l, pct)
        <5>1. pct \in X
          BY <1>7, <3>4, <4>1, <4>3
        <5> QED
          BY <1>5, <5>1
      <4> QED
        BY <4>2, <4>3
    <3> QED
      BY <2>1, <2>3, <3>3, <3>4
  <2> QED
    BY <2>2, <2>3
<1> QED
  BY <1>8 DEF CrossInv

\* Every row belongs to a call.
LEMMA RowsKnown ==
    ASSUME rows \in Seq(RowSet)
    PROVE  \A i \in DOMAIN rows : rows[i] \in RowSet /\ rows[i].call \in Calls
<1>1. \A i \in DOMAIN rows : rows[i] \in RowSet
  <2>1. PICK R : R = RowSet
    OBVIOUS
  <2>2. rows \in Seq(R)
    BY <2>1
  <2> QED
    BY <2>1, <2>2
<1>2. \A r \in RowSet : r.call \in Calls
  BY DEF RowSet
<1> QED
  BY <1>1, <1>2

\* Steps that charge nothing keep every tally of charges and of crossings.
LEMMA QuietTallies ==
    ASSUME MeterInv, call' = [d \in Calls |-> call'[d]], \A d \in Calls : Quiet(call[d], call'[d]),
           UNCHANGED <<spend, alerts>>
    PROVE  /\ \A d \in Calls : CallInv(call'[d])
           /\ AlertsTyped' /\ CrossInv' /\ TeamCharges' = TeamCharges /\ OrgCharges' = OrgCharges
<1>1. \A d \in Calls : CallInv(call'[d]) /\ SameCharges(call'[d], call[d])
  BY DEF Quiet
<1>2. AlertsTyped'
  BY DEF MeterInv, AlertsTyped
<1>3. \A d \in Calls : call'[d].crossed = call[d].crossed /\ call'[d].charged = call[d].charged
                       /\ call'[d].orgCharged = call[d].orgCharged
  BY <1>1 DEF SameCharges
<1>4. CrossInv'
  <2>1. CrossInv /\ \A l, pct : Passed(l, pct)' <=> Passed(l, pct)
    BY DEF MeterInv, Passed
  <2> QED
    BY <1>3, <2>1 DEF CrossInv
<1> QED
  BY <1>1, <1>2, <1>3, <1>4 DEF TeamCharges, OrgCharges

\* If no row is written either, the books are what they were.
LEMMA QuietKeepsBooks ==
    ASSUME MeterInv, call' = [d \in Calls |-> call'[d]], \A d \in Calls : Quiet(call[d], call'[d]),
           UNCHANGED <<spend, alerts, rows>>
    PROVE  MeterInv'
<1>1. /\ \A d \in Calls : CallInv(call'[d])
      /\ AlertsTyped' /\ CrossInv' /\ TeamCharges' = TeamCharges /\ OrgCharges' = OrgCharges
  BY QuietTallies
<1>2. \A d \in Calls : /\ call'[d].charged = call[d].charged /\ call'[d].orgCharged = call[d].orgCharged
                       /\ call'[d].taken = call[d].taken
                       /\ call[d].pc \in Over => call'[d].pc \in Over
  BY DEF Quiet, SameCharges
<1>3. RowsInv'
  <2>1. rows \in Seq(RowSet) /\ RowsMatchCharges /\ \A i \in DOMAIN rows : call[rows[i].call].pc \in Over
    BY DEF MeterInv, RowsInv
  <2>2. \A i \in DOMAIN rows : rows[i].call \in Calls
    BY <2>1, RowsKnown
  <2>3. RowsMatchCharges'
    BY <1>2, <2>1, <2>2 DEF RowsMatchCharges
  <2> QED
    BY <1>2, <2>1, <2>2, <2>3 DEF RowsInv
<1>4. SpendInv'
  <2>1. TotalSpend' = TotalSpend
    BY DEF TotalSpend
  <2>2. LoggedCharges' = LoggedCharges
    BY <1>2 DEF LoggedCharges, HasOkRow
  <2> QED
    BY <1>1, <2>1, <2>2 DEF MeterInv, SpendInv
<1> QED
  BY <1>1, <1>3, <1>4 DEF MeterInv

\* The same for a step of one call.
LEMMA QuietOne ==
    ASSUME MeterInv, NEW c \in Calls, NEW w, call' = [call EXCEPT ![c] = w], Quiet(call[c], w)
    PROVE  call' = [d \in Calls |-> call'[d]] /\ \A d \in Calls : Quiet(call[d], call'[d])
<1>1. \A d \in Calls : Quiet(call[d], call[d])
  BY DEF MeterInv, Quiet, SameCharges
<1> QED
  BY <1>1, StepOfOne

\* The step of an action that changes one call and no book.
LEMMA QuietStep ==
    ASSUME MeterInv, NEW c \in Calls, NEW w, Put(c, w), Quiet(call[c], w), UNCHANGED books
    PROVE  MeterInv'
<1>1. call' = [d \in Calls |-> call'[d]] /\ \A d \in Calls : Quiet(call[d], call'[d])
  BY QuietOne DEF Put
<1>2. UNCHANGED <<spend, alerts, rows>>
  BY DEF books
<1> QED
  BY <1>1, <1>2, QuietKeepsBooks

\* The sum over a log grows by what the new row adds.
LEMMA SumAppended ==
    ASSUME NEW R, NEW s \in Seq(R), NEW r \in R, \A x \in R : CostOf(x) \in Int, NEW t, t = Append(s, r)
    PROVE  SumFunctionOnSet([i \in DOMAIN t |-> CostOf(t[i])], DOMAIN t)
             = SumFunctionOnSet([i \in DOMAIN s |-> CostOf(s[i])], DOMAIN s) + CostOf(r)
<1>1. PICK f, g : f = [i \in DOMAIN s |-> CostOf(s[i])] /\ g = [i \in DOMAIN t |-> CostOf(t[i])]
  OBVIOUS
<1>2. PICK n \in Nat, m \in Nat : n = Len(s) /\ m = n + 1
  OBVIOUS
<1>3. PICK N, M : N = 1 .. n /\ M = 1 .. m
  OBVIOUS
<1>4. DOMAIN s = N /\ DOMAIN t = M /\ m \in M /\ M \ {m} = N /\ t[m] = r /\ \A i \in N : t[i] = s[i]
  BY <1>2, <1>3
<1>5. \A i \in M : t[i] \in R
  BY <1>4
<1>6. (\A i \in M : g[i] \in Int) /\ g[m] = CostOf(r) /\ \A i \in N : f[i] = g[i]
  BY <1>1, <1>4, <1>5
<1>7. IsFiniteSet(M) /\ IsFiniteSet(N)
  BY <1>2, <1>3, FS_Interval
<1>8. SumFunctionOnSet(g, M) = g[m] + SumFunctionOnSet(g, N)
  BY <1>4, <1>6, <1>7, SumRemove
<1>9. SumFunctionOnSet(f, N) = SumFunctionOnSet(g, N)
  BY <1>6, <1>7, SumSame
<1>10. SumFunctionOnSet(g, N) \in Int /\ g[m] \in Int
  <2>1. \A i \in N : g[i] \in Int
    BY <1>4, <1>6
  <2>2. SumFunctionOnSet(g, N) \in Int
    BY <1>7, <2>1, SumType
  <2>3. g[m] \in Int
    BY <1>4, <1>6
  <2> QED
    BY <2>2, <2>3
<1>11. SumFunctionOnSet(g, M) = SumFunctionOnSet(f, N) + CostOf(r)
  BY <1>6, <1>8, <1>9, <1>10
<1> QED
  BY <1>1, <1>4, <1>11

\* A row adds a natural number to a sum.
LEMMA RowCosts == \A r \in RowSet : CostOf(r) \in Nat
BY MeterAssumption DEF RowSet, CostOf

\* A row that is written belongs to a call that had none.
LEMMA LogStep ==
    ASSUME MeterInv, NEW c \in Calls, call[c].pc = "log", NEW w, call' = [call EXCEPT ![c] = w],
           Quiet(call[c], w), w.pc \in Over, NEW r, r = UsageLog(c, call[c]), rows' = Append(rows, r),
           UNCHANGED <<spend, alerts>>
    PROVE  MeterInv'
<1>1. call' = [d \in Calls |-> call'[d]] /\ \A d \in Calls : Quiet(call[d], call'[d])
  BY QuietOne
<1>2. /\ \A d \in Calls : CallInv(call'[d])
      /\ AlertsTyped' /\ CrossInv' /\ TeamCharges' = TeamCharges /\ OrgCharges' = OrgCharges
  BY <1>1, QuietTallies
<1>3. \A d \in Calls : /\ call'[d].charged = call[d].charged /\ call'[d].orgCharged = call[d].orgCharged
                       /\ call'[d].taken = call[d].taken
                       /\ call[d].pc \in Over => call'[d].pc \in Over
  BY <1>1 DEF Quiet, SameCharges
<1>4. call'[c].pc \in Over
  BY StepOfOne
<1>5. PICK q : q = call[c]
  OBVIOUS
<1>6. /\ q.status \in Statuses /\ q.hit \in BOOLEAN /\ q.charged \in Nat /\ q.orgCharged \in {0, q.charged}
      /\ q.status = "ok" => /\ q.orgCharged = q.charged /\ q.taken = (IF q.hit THEN {} ELSE Levels)
                            /\ q.hit => q.charged = 0
  BY <1>5 DEF MeterInv, CallInv, Typed, Money
<1>7. r.call = c /\ r.status = q.status /\ r.hit = q.hit /\ r.cost = RowCost(q)
  BY <1>5 DEF UsageLog
<1>8. r \in RowSet
  <2>1. RowCost(q) \in Nat \cup {Absent}
    BY <1>6 DEF RowCost
  <2> QED
    BY <1>5, <1>6, <2>1 DEF UsageLog, RowSet
<1>9. rows \in Seq(RowSet) /\ RowsMatchCharges /\ \A i \in DOMAIN rows : call[rows[i].call].pc \in Over
  BY DEF MeterInv, RowsInv
<1>10. \A i \in DOMAIN rows : rows[i] \in RowSet /\ rows[i].call \in Calls /\ rows[i].call # c
  BY <1>9, RowsKnown DEF Over
<1>a. PICK R, s, t : R = RowSet /\ s = rows /\ t = rows' /\ s \in Seq(R) /\ r \in R /\ t = Append(s, r)
  BY <1>8, <1>9
<1>b. t \in Seq(R)
  BY <1>a
<1>d. PICK n \in Nat : n = Len(s)
  BY <1>a
<1>c. /\ DOMAIN s = 1 .. n /\ DOMAIN t = 1 .. (n + 1)
      /\ t[n + 1] = r /\ \A i \in 1 .. n : t[i] = s[i]
  BY <1>a, <1>d
<1>11. /\ t = rows' /\ DOMAIN rows = 1 .. n /\ DOMAIN t = 1 .. (n + 1)
       /\ t[n + 1] = r /\ \A i \in 1 .. n : t[i] = rows[i]
  BY <1>a, <1>c
<1>12. rows' \in Seq(RowSet)
  BY <1>a, <1>b
<1>13. \A i \in DOMAIN t : call'[t[i].call].pc \in Over
  BY <1>3, <1>4, <1>7, <1>9, <1>10, <1>11
<1>14. RowsMatchCharges'
  <2>1. SUFFICES ASSUME NEW i \in DOMAIN t
                 PROVE  /\ \A j \in DOMAIN t : t[j].call = t[i].call => j = i
                        /\ IF t[i].status = "ok"
                           THEN /\ t[i].cost = call'[t[i].call].charged
                                /\ call'[t[i].call].orgCharged = call'[t[i].call].charged
                                /\ call'[t[i].call].taken = (IF t[i].hit THEN {} ELSE Levels)
                                /\ t[i].hit => t[i].cost = 0
                           ELSE t[i].cost = Absent
    BY <1>11 DEF RowsMatchCharges
  <2>2. CASE i = n + 1
    <3>1. \A j \in DOMAIN t : t[j].call = t[i].call => j = i
      BY <1>7, <1>10, <1>11, <2>2
    <3>2. call'[c].charged = q.charged /\ call'[c].orgCharged = q.orgCharged /\ call'[c].taken = q.taken
      BY <1>3, <1>5
    <3>3. r.status = "ok" => r.cost = q.charged /\ q.orgCharged = q.charged
      BY <1>6, <1>7 DEF RowCost
    <3>4. r.status # "ok" => r.cost = Absent
      BY <1>7 DEF RowCost
    <3>5. r.status = "ok" => q.taken = (IF r.hit THEN {} ELSE Levels) /\ (r.hit => r.cost = 0)
      BY <1>6, <1>7, <3>3
    <3> QED
      BY <1>7, <1>11, <2>2, <3>1, <3>2, <3>3, <3>4, <3>5
  <2>3. CASE i \in 1 .. n
    <3>1. /\ \A j \in 1 .. n : rows[j].call = rows[i].call => j = i
          /\ IF rows[i].status = "ok"
             THEN /\ rows[i].cost = call[rows[i].call].charged
                  /\ call[rows[i].call].orgCharged = call[rows[i].call].charged
                  /\ call[rows[i].call].taken = (IF rows[i].hit THEN {} ELSE Levels)
                  /\ rows[i].hit => rows[i].cost = 0
             ELSE rows[i].cost = Absent
      BY <1>9, <1>11, <2>3 DEF RowsMatchCharges
    <3>2. t[i] = rows[i] /\ rows[i].call \in Calls /\ rows[i].call # c
      BY <1>10, <1>11, <2>3
    <3>3. \A j \in DOMAIN t : t[j].call = t[i].call => j = i
      BY <1>7, <1>11, <3>1, <3>2
    <3> QED
      BY <1>3, <3>1, <3>2, <3>3
  <2> QED
    BY <1>11, <2>1, <2>2, <2>3
<1>15. RowsInv'
  BY <1>11, <1>12, <1>13, <1>14 DEF RowsInv
<1>16. TotalSpend' = TotalSpend + CostOf(r)
  <2>1. \A x \in R : CostOf(x) \in Int
    BY <1>a, RowCosts
  <2>2. SumFunctionOnSet([i \in DOMAIN t |-> CostOf(t[i])], DOMAIN t)
          = SumFunctionOnSet([i \in DOMAIN s |-> CostOf(s[i])], DOMAIN s) + CostOf(r)
    BY <1>a, <2>1, SumAppended
  <2> QED
    BY <1>a, <2>2 DEF TotalSpend
<1>17. CostOf(r) = IF r.status = "ok" THEN q.orgCharged ELSE 0
  BY <1>6, <1>7, MeterAssumption DEF CostOf, RowCost
<1>18. PICK f, g : f = LoggedCharges /\ g = LoggedCharges'
  OBVIOUS
<1>19. /\ \A d \in Calls \ {c} : g[d] = f[d]
       /\ f[c] = 0 /\ g[c] = CostOf(r)
  <2>1. \A d \in Calls \ {c} : HasOkRow(d)' <=> HasOkRow(d)
    BY <1>7, <1>11 DEF HasOkRow
  <2>2. ~HasOkRow(c) /\ (HasOkRow(c)' <=> r.status = "ok")
    BY <1>7, <1>10, <1>11 DEF HasOkRow
  <2>3. \A d \in Calls : /\ f[d] = IF HasOkRow(d) THEN call[d].orgCharged ELSE 0
                         /\ g[d] = IF HasOkRow(d)' THEN call'[d].orgCharged ELSE 0
    BY <1>18 DEF LoggedCharges
  <2>4. \A d \in Calls \ {c} : g[d] = f[d]
    BY <1>3, <2>1, <2>3
  <2>5. f[c] = 0 /\ g[c] = CostOf(r)
    BY <1>3, <1>5, <1>17, <2>2, <2>3
  <2> QED
    BY <2>4, <2>5
<1>20. SumFunctionOnSet(g, Calls) = SumFunctionOnSet(f, Calls) + CostOf(r) /\ TotalSpend \in Int
  <2>1. \A d \in Calls : f[d] \in Int /\ g[d] \in Int
    <3>1. \A d \in Calls : call[d].orgCharged \in Int /\ call'[d].orgCharged \in Int
      BY <1>2 DEF MeterInv, CallInv, Typed
    <3> QED
      BY <1>18, <3>1 DEF LoggedCharges
  <2>2. SumFunctionOnSet(f, Calls) \in Int
        /\ SumFunctionOnSet(g, Calls) = SumFunctionOnSet(f, Calls) + (g[c] - f[c])
    BY <1>19, <2>1, MeterAssumption, SumUpdate
  <2>3. CostOf(r) \in Int
    BY <1>8, RowCosts
  <2> QED
    BY <1>18, <1>19, <2>2, <2>3 DEF MeterInv, SpendInv
<1>21. SpendInv'
  BY <1>2, <1>16, <1>18, <1>20 DEF MeterInv, SpendInv
<1> QED
  BY <1>1, <1>2, <1>15, <1>21 DEF MeterInv

\* One summand of a tally over the calls grows.
LEMMA TallyGrows ==
    ASSUME NEW f, NEW g, NEW c \in Calls, \A d \in Calls : f[d] \in Int /\ g[d] \in Int,
           \A d \in Calls \ {c} : g[d] = f[d]
    PROVE  SumFunctionOnSet(f, Calls) \in Int
           /\ SumFunctionOnSet(g, Calls) = SumFunctionOnSet(f, Calls) + (g[c] - f[c])
BY MeterAssumption, SumUpdate

\* While a call is being charged the rows stand, and none of them is its own.
LEMMA RowsStand ==
    ASSUME MeterInv, NEW c \in Calls, call[c].pc \in {"charge", "org"}, NEW w, call' = [call EXCEPT ![c] = w],
           UNCHANGED rows
    PROVE  RowsInv' /\ LoggedCharges' = LoggedCharges /\ TotalSpend' = TotalSpend
<1>1. \A d \in Calls : call'[d] = IF d = c THEN w ELSE call[d]
  BY StepOfOne
<1>2. rows \in Seq(RowSet) /\ RowsMatchCharges /\ \A i \in DOMAIN rows : call[rows[i].call].pc \in Over
  BY DEF MeterInv, RowsInv
<1>3. \A i \in DOMAIN rows : rows[i].call \in Calls /\ rows[i].call # c
  BY <1>2, RowsKnown DEF Over
<1>4. \A i \in DOMAIN rows : call'[rows[i].call] = call[rows[i].call]
  BY <1>1, <1>3
<1>5. RowsInv'
  <2>1. RowsMatchCharges'
    BY <1>2, <1>4 DEF RowsMatchCharges
  <2> QED
    BY <1>2, <1>4, <2>1 DEF RowsInv
<1>6. LoggedCharges' = LoggedCharges
  <2>1. \A d \in Calls : (HasOkRow(d)' <=> HasOkRow(d)) /\ (HasOkRow(d) => d # c)
    BY <1>3 DEF HasOkRow
  <2> QED
    BY <1>1, <2>1 DEF LoggedCharges
<1> QED
  BY <1>5, <1>6 DEF TotalSpend

\* Charge, when the team's commit succeeds.
LEMMA ChargeStep ==
    ASSUME MeterInv, NEW c \in Calls, call[c].pc = "charge", NEW cost \in Costs, NEW w,
           w = TeamCharged(call[c], cost),
           call' = [call EXCEPT ![c] = w], spend' = [spend EXCEPT !["team"] = @ + cost],
           UNCHANGED <<rows, alerts>>
    PROVE  MeterInv'
<1>0. cost \in Nat /\ "team" \in Levels /\ "org" \in Levels
  BY MeterAssumption DEF Costs, Levels
<1>1. PICK q : q = call[c] /\ CallInv(q) /\ q.pc = "charge"
  BY DEF MeterInv
<1>2. AlertsTyped /\ spend \in [Levels -> Nat]
  BY DEF MeterInv, SpendInv
<1>3. CallInv(w) /\ w.charged = cost /\ w.orgCharged = 0 /\ ChargedAt(w, q, "team", spend["team"] + cost)
  <2>1. w = TeamCharged(q, cost)
    BY <1>1
  <2> QED
    BY <1>0, <1>1, <1>2, <2>1, ChargeTeamInv
<1>4. q.charged = 0 /\ q.orgCharged = 0 /\ q.crossed = Nothing /\ q.taken = {}
  BY <1>1, Uncharged
<1>5. \A d \in Calls : call'[d] = IF d = c THEN w ELSE call[d]
  BY StepOfOne
<1>6. call' = [d \in Calls |-> call'[d]] /\ \A d \in Calls : CallInv(call'[d])
  BY <1>3, <1>5, StepOfOne DEF MeterInv
<1>7. RowsInv' /\ LoggedCharges' = LoggedCharges /\ TotalSpend' = TotalSpend
  BY RowsStand
<1>8. CrossInv'
  <2>1. call[c].crossed["team"] = {}
    BY <1>0, <1>1, <1>4 DEF Nothing
  <2>2. w.crossed = CrossedWith(call[c], "team", cost) /\ spend' = SpendWith("team", cost)
    BY <1>1, <1>3 DEF ChargedAt, CrossedWith, SpendWith
  <2> QED
    BY <1>0, <2>1, <2>2, ChargeCrosses
<1>9. PICK f, g : f = TeamCharges /\ g = TeamCharges'
  OBVIOUS
<1>10. \A d \in Calls : f[d] = call[d].charged /\ g[d] = call'[d].charged
  BY <1>9 DEF TeamCharges
<1>11. SumFunctionOnSet(f, Calls) \in Int
       /\ SumFunctionOnSet(g, Calls) = SumFunctionOnSet(f, Calls) + (g[c] - f[c])
  <2>1. \A d \in Calls : f[d] \in Int /\ g[d] \in Int
    BY <1>6, <1>10 DEF MeterInv, CallInv, Typed
  <2>2. \A d \in Calls \ {c} : g[d] = f[d]
    BY <1>5, <1>10
  <2> QED
    BY <2>1, <2>2, TallyGrows
<1>12. SumFunctionOnSet(g, Calls) = spend["team"] + cost
  <2>1. g[c] = cost /\ f[c] = 0
    BY <1>1, <1>3, <1>4, <1>5, <1>10
  <2> QED
    BY <1>0, <1>9, <1>11, <2>1 DEF MeterInv, SpendInv
<1>13. OrgCharges' = OrgCharges
  BY <1>1, <1>3, <1>4, <1>5 DEF OrgCharges
<1>14. SpendInv'
  <2>1. spend'["team"] = spend["team"] + cost /\ spend'["org"] = spend["org"]
    BY <1>0, <1>2
  <2>2. spend' \in [Levels -> Nat]
    BY <1>0, <1>2
  <2> QED
    BY <1>7, <1>9, <1>12, <1>13, <2>1, <2>2 DEF MeterInv, SpendInv
<1> QED
  BY <1>2, <1>6, <1>7, <1>8, <1>14 DEF MeterInv, AlertsTyped

\* ChargeOrg, when the organisation's commit succeeds.
LEMMA ChargeOrgStep ==
    ASSUME MeterInv, NEW c \in Calls, call[c].pc = "org", NEW k, NEW w,
           k = OrgCharged(call[c]),
           w = IF call[c].abandoned THEN Finished(k) ELSE ToLog(k, "ok"),
           call' = [call EXCEPT ![c] = w], spend' = [spend EXCEPT !["org"] = @ + call[c].charged],
           UNCHANGED <<rows, alerts>>
    PROVE  MeterInv'
<1>0. "team" \in Levels /\ "org" \in Levels
  BY DEF Levels
<1>1. PICK q : q = call[c] /\ CallInv(q) /\ q.pc = "org"
  BY DEF MeterInv
<1>2. AlertsTyped /\ spend \in [Levels -> Nat]
  BY DEF MeterInv, SpendInv
<1>3. /\ CallInv(w) /\ w.charged = q.charged /\ w.orgCharged = q.charged
      /\ q.orgCharged = 0 /\ q.crossed["org"] = {}
      /\ w.crossed = [q.crossed EXCEPT !["org"] =
                        CrossedThresholds("org", spend["org"], spend["org"] + q.charged)]
  BY <1>1, <1>2, ChargeOrgInv
<1>4. PICK cost \in Nat : cost = q.charged
  BY <1>1, <1>3 DEF CallInv, Typed
<1>5. \A d \in Calls : call'[d] = IF d = c THEN w ELSE call[d]
  BY StepOfOne
<1>6. call' = [d \in Calls |-> call'[d]] /\ \A d \in Calls : CallInv(call'[d])
  BY <1>3, <1>5, StepOfOne DEF MeterInv
<1>7. RowsInv' /\ LoggedCharges' = LoggedCharges /\ TotalSpend' = TotalSpend
  BY RowsStand
<1>8. CrossInv'
  <2>1. call[c].crossed["org"] = {}
    BY <1>1, <1>3
  <2>2. w.crossed = CrossedWith(call[c], "org", cost) /\ spend' = SpendWith("org", cost)
    BY <1>1, <1>3, <1>4 DEF CrossedWith, SpendWith
  <2> QED
    BY <1>0, <2>1, <2>2, ChargeCrosses
<1>9. PICK f, g : f = OrgCharges /\ g = OrgCharges'
  OBVIOUS
<1>10. \A d \in Calls : f[d] = call[d].orgCharged /\ g[d] = call'[d].orgCharged
  BY <1>9 DEF OrgCharges
<1>11. SumFunctionOnSet(f, Calls) \in Int
       /\ SumFunctionOnSet(g, Calls) = SumFunctionOnSet(f, Calls) + (g[c] - f[c])
  <2>1. \A d \in Calls : f[d] \in Int /\ g[d] \in Int
    BY <1>6, <1>10 DEF MeterInv, CallInv, Typed
  <2>2. \A d \in Calls \ {c} : g[d] = f[d]
    BY <1>5, <1>10
  <2> QED
    BY <2>1, <2>2, TallyGrows
<1>12. SumFunctionOnSet(g, Calls) = spend["org"] + cost
  <2>1. g[c] = cost /\ f[c] = 0
    BY <1>1, <1>3, <1>4, <1>5, <1>10
  <2> QED
    BY <1>9, <1>11, <2>1 DEF MeterInv, SpendInv
<1>13. TeamCharges' = TeamCharges
  BY <1>1, <1>3, <1>5 DEF TeamCharges
<1>14. SpendInv'
  <2>1. spend'["org"] = spend["org"] + cost /\ spend'["team"] = spend["team"]
    BY <1>0, <1>1, <1>2, <1>4
  <2>2. spend' \in [Levels -> Nat]
    BY <1>0, <1>1, <1>2, <1>4
  <2> QED
    BY <1>7, <1>9, <1>12, <1>13, <2>1, <2>2 DEF MeterInv, SpendInv
<1> QED
  BY <1>2, <1>6, <1>7, <1>8, <1>14 DEF MeterInv, AlertsTyped

-----------------------------------------------------------------------------
(* Every action.                                                           *)

\* The three endpoints, the stored answer and the refusal.
LEMMA AdmissionStep ==
    ASSUME MeterInv, NEW c \in Calls,
           \/ ChatCompletion(c) \/ Completion(c) \/ Embeddings(c)
           \/ ServeHit(c) \/ RefuseCall(c)
    PROVE  MeterInv'
<1>1. PICK q : q = call[c] /\ CallInv(q)
  BY DEF MeterInv
<1>2. CASE ChatCompletion(c)
  <2>1. PICK m, x, y : q.pc = "idle" /\ Put(c, Admitted("chat", m, x, y)) /\ UNCHANGED books
    BY <1>1, <1>2 DEF ChatCompletion, Admitted
  <2> QED
    BY <1>1, <2>1, AdmitQuiet, QuietStep
<1>3. CASE Completion(c)
  <2>1. PICK m : q.pc = "idle" /\ Put(c, AdmittedWhole("completions", m)) /\ UNCHANGED books
    BY <1>1, <1>3 DEF Completion, AdmittedWhole
  <2> QED
    BY <1>1, <2>1, AdmitQuiet, QuietStep
<1>4. CASE Embeddings(c)
  <2>1. PICK m : q.pc = "idle" /\ Put(c, AdmittedWhole("embeddings", m)) /\ UNCHANGED books
    BY <1>1, <1>4 DEF Embeddings, AdmittedWhole
  <2> QED
    BY <1>1, <2>1, AdmitQuiet, QuietStep
<1>5. CASE ServeHit(c)
  <2>1. PICK w : q.pc = "idle" /\ Put(c, w) /\ UNCHANGED books /\ w = [ToLog(NewCall, "ok") EXCEPT !.hit = TRUE]
    BY <1>1, <1>5 DEF ServeHit
  <2>2. Quiet(q, w)
    BY <1>1, <2>1, HitQuiet
  <2> QED
    BY <1>1, <2>1, <2>2, QuietStep
<1>6. CASE RefuseCall(c)
  <2>1. PICK w : q.pc = "idle" /\ Put(c, w) /\ UNCHANGED books /\ w = ToLog(NewCall, "refused")
    BY <1>1, <1>6 DEF RefuseCall
  <2>2. Quiet(q, w)
    BY <1>1, <2>1, RefuseQuiet
  <2> QED
    BY <1>1, <2>1, <2>2, QuietStep
<1> QED
  BY <1>2, <1>3, <1>4, <1>5, <1>6

\* A whole answer, in each way it can come out.
LEMMA AnswerStep ==
    ASSUME MeterInv, NEW c \in Calls, Answer(c)
    PROVE  MeterInv'
<1>1. PICK q : q = call[c] /\ CallInv(q) /\ q.pc = "dispatch" /\ ~q.stream /\ UNCHANGED books
  BY DEF MeterInv, Answer
<1>2. PICK w, x : /\ Put(c, w)
                  /\ \/ w = [Answered(q, "charge") EXCEPT !.priced = x, !.reported = TRUE]
                     \/ w = Finished(q)
                     \/ w = ToLog(q, "refused")
  <2>1. PICK m, out : Put(c, CASE out = "answer" -> [Answered(q, "charge") EXCEPT !.priced = PricedNow(m),
                                                                              !.reported = TRUE]
                               [] out = "other"  -> Finished(q)
                               [] OTHER          -> ToLog(q, "refused"))
    BY <1>1 DEF Answer
  <2>2. PICK w : /\ Put(c, w)
                 /\ w = CASE out = "answer" -> [Answered(q, "charge") EXCEPT !.priced = PricedNow(m),
                                                                             !.reported = TRUE]
                          [] out = "other"  -> Finished(q)
                          [] OTHER          -> ToLog(q, "refused")
    BY <2>1
  <2>3. \/ w = [Answered(q, "charge") EXCEPT !.priced = PricedNow(m), !.reported = TRUE]
        \/ w = Finished(q)
        \/ w = ToLog(q, "refused")
    BY <2>2
  <2> QED
    BY <2>2, <2>3
<1>3. Quiet(q, w)
  <2>1. CASE w = [Answered(q, "charge") EXCEPT !.priced = x, !.reported = TRUE]
    BY <1>1, <2>1, AnswerToCharge
  <2>2. CASE w = Finished(q)
    BY <1>1, <2>2, FinishQuiet
  <2>3. CASE w = ToLog(q, "refused")
    <3>1. ~q.reported
      BY <1>1 DEF CallInv, Streamed
    <3> QED
      BY <1>1, <2>3, <3>1, LogQuiet DEF Over, Statuses, Closing
  <2> QED
    BY <1>2, <2>1, <2>2, <2>3
<1> QED
  BY <1>1, <1>2, <1>3, QuietStep

\* A stream is opened.
LEMMA OpenStep ==
    ASSUME MeterInv, NEW c \in Calls, OpenStream(c)
    PROVE  MeterInv'
<1>1. PICK q : q = call[c] /\ CallInv(q) /\ q.pc = "dispatch" /\ q.stream /\ UNCHANGED books
  BY DEF MeterInv, OpenStream
<1>2. PICK m, w : Put(c, w) /\ w = [q EXCEPT !.pc = "opening", !.served = m]
  BY <1>1 DEF OpenStream
<1>3. Quiet(q, w)
  BY <1>1, <1>2, OpenQuiet
<1> QED
  BY <1>1, <1>2, <1>3, QuietStep

\* A frame leaves a stream whole, cut short, or broken in one of two ways.
LEMMA FrameEnds ==
    ASSUME NEW q, IsCall(q), NEW frame, NEW p, p = Pulled(q, frame)
    PROVE  p.broken \in {"no", "short", "call", "other"}
<1>1. PICK s : s = CreateStreaming(ProviderOf[q.served], q.st, frame)
  OBVIOUS
<1>2. PICK whole : whole = (q.whole \/ frame \in Finishing)
  OBVIOUS
<1>3. FromFrame(p, q, s, whole)
  BY <1>1, <1>2, PulledFields
<1>4. s.raises \in {"no", "call", "other"}
  BY <1>1, AdapterShape
<1> QED
  BY <1>3, <1>4 DEF FromFrame

\* The first chunk, or the failure that comes instead of it.
LEMMA AwaitStep ==
    ASSUME MeterInv, NEW c \in Calls, AwaitFirst(c)
    PROVE  MeterInv'
<1>1. PICK q : q = call[c] /\ CallInv(q) /\ q.pc = "opening" /\ UNCHANGED books
  BY DEF MeterInv, AwaitFirst
<1>2. PICK frame, p, w : /\ p = Pulled(q, frame) /\ Put(c, w)
                         /\ w = CASE p.broken = "call"  -> ToLog(q, "refused")
                                  [] p.broken = "other" -> Finished(q)
                                  [] p.broken \in {"no", "short"} /\ (p.buf # <<>> \/ p.ended) ->
                                        [p EXCEPT !.pc = "streaming", !.first = (p.buf # <<>>),
                                                  !.priced = PricedNow(q.served)]
                                  [] OTHER -> p
  BY <1>1 DEF AwaitFirst
<1>3. p.broken \in {"no", "short", "call", "other"}
  BY <1>1, <1>2, FrameEnds DEF CallInv, Typed
<1>4. CASE p.broken = "call"
  <2>1. w = ToLog(q, "refused")
    BY <1>2, <1>4
  <2>2. ~q.reported
    BY <1>1 DEF CallInv, Streamed
  <2>3. Quiet(q, w)
    BY <1>1, <2>1, <2>2, LogQuiet DEF Over, Statuses, Closing
  <2> QED
    BY <1>1, <1>2, <2>3, QuietStep
<1>5. CASE p.broken = "other"
  <2>1. w = Finished(q)
    BY <1>2, <1>5
  <2>2. Quiet(q, w)
    BY <1>1, <2>1, FinishQuiet
  <2> QED
    BY <1>1, <1>2, <2>2, QuietStep
<1>6. CASE p.broken \in {"no", "short"}
  <2>1. PICK x, y : x = (p.buf # <<>>) /\ y = PricedNow(q.served)
    OBVIOUS
  <2>2. (p.buf = <<>> /\ w = p) \/ w = Started(p, x, y)
    <3>1. CASE p.buf # <<>> \/ p.ended
      BY <1>2, <1>6, <2>1, <3>1 DEF Started
    <3>2. CASE p.buf = <<>> /\ ~p.ended
      BY <1>2, <1>6, <3>2
    <3> QED
      BY <3>1, <3>2
  <2>3. p = Pulled(q, frame) /\ Put(c, w)
    BY <1>2
  <2>4. Quiet(q, w)
    BY <1>1, <2>2, <2>3, AwaitQuiet
  <2> QED
    BY <1>1, <2>3, <2>4, QuietStep
<1> QED
  BY <1>3, <1>4, <1>5, <1>6

\* A later frame.
LEMMA PullStep ==
    ASSUME MeterInv, NEW c \in Calls, Pull(c)
    PROVE  MeterInv'
<1>1. PICK q : q = call[c] /\ CallInv(q) /\ q.pc = "streaming" /\ q.buf = <<>> /\ UNCHANGED books
  BY DEF MeterInv, Pull
<1>2. PICK frame, w : w = Pulled(q, frame) /\ Put(c, w)
  BY <1>1 DEF Pull
<1>3. Quiet(q, w)
  BY <1>1, <1>2, PullQuiet
<1> QED
  BY <1>1, <1>2, <1>3, QuietStep

\* A chunk is passed on, or the client is found gone.
LEMMA RelayStep ==
    ASSUME MeterInv, NEW c \in Calls, Relay(c)
    PROVE  MeterInv'
<1>1. PICK q : q = call[c] /\ CallInv(q) /\ q.pc = "streaming" /\ q.buf # <<>> /\ UNCHANGED books
  BY DEF MeterInv, Relay
<1>2. CASE q.gone /\ ~q.first
  <2>1. PICK w : Put(c, w) /\ w = ToLog(q, "client_disconnected")
    BY <1>1, <1>2 DEF Relay
  <2>2. Quiet(q, w)
    BY <1>1, <2>1, LogQuiet DEF Over, Statuses, Closing
  <2> QED
    BY <1>1, <2>1, <2>2, QuietStep
<1>3. CASE ~(q.gone /\ ~q.first)
  <2>1. PICK wanted, chunk, w :
           /\ wanted \in BOOLEAN /\ chunk = Head(q.buf) /\ Put(c, w)
           /\ w = [q EXCEPT !.buf = Tail(@), !.first = FALSE, !.usage = @ \/ CapturesUsage(chunk),
                            !.lost = @ \/ (IsDedicatedUsageChunk(chunk) /\ ~wanted /\ chunk.choices)]
    BY <1>1, <1>3 DEF Relay
  <2>2. Quiet(q, w)
    BY <1>1, <2>1, RelayQuiet
  <2> QED
    BY <1>1, <2>1, <2>2, QuietStep
<1> QED
  BY <1>2, <1>3

\* The stream ends.
LEMMA EndStep ==
    ASSUME MeterInv, NEW c \in Calls, EndStream(c)
    PROVE  MeterInv'
<1>1. PICK q : /\ q = call[c] /\ CallInv(q) /\ q.pc = "streaming" /\ q.buf = <<>> /\ q.ended
               /\ UNCHANGED books
  BY DEF MeterInv, EndStream
<1>2. PICK w : /\ Put(c, w)
               /\ w = CASE q.broken = "call"            -> ToLog(q, "provider_error")
                        [] q.broken # "call" /\ q.usage -> Answered(q, "charge")
                        [] OTHER                        -> ToLog(q, "usage_unavailable")
  BY <1>1 DEF EndStream
<1>3. Quiet(q, w)
  BY <1>1, <1>2, EndQuiet
<1> QED
  BY <1>1, <1>2, <1>3, QuietStep

\* The client leaves, and the generator may be given up.
LEMMA LeaveStep ==
    ASSUME MeterInv, NEW c \in Calls, ClientLeaves(c) \/ Abandon(c)
    PROVE  MeterInv'
<1>1. PICK q : q = call[c] /\ CallInv(q)
  BY DEF MeterInv
<1>2. CASE ClientLeaves(c)
  <2>1. PICK w : Put(c, w) /\ w = [q EXCEPT !.gone = TRUE] /\ UNCHANGED books
    BY <1>1, <1>2 DEF ClientLeaves
  <2>2. Quiet(q, w)
    BY <1>1, <2>1, LeaveQuiet
  <2> QED
    BY <1>1, <2>1, <2>2, QuietStep
<1>3. CASE Abandon(c)
  <2>1. PICK w : /\ Put(c, w) /\ UNCHANGED books
                 /\ \/ w = Finished(q)
                    \/ q.pc = "streaming" /\ w = [Answered(q, "charge") EXCEPT !.abandoned = TRUE]
    BY <1>1, <1>3 DEF Abandon
  <2>2. Quiet(q, w)
    BY <1>1, <2>1, FinishQuiet, AbandonToCharge
  <2> QED
    BY <1>1, <2>1, <2>2, QuietStep
<1> QED
  BY <1>2, <1>3

\* The two charges, each committed or failed.
LEMMA ChargesStep ==
    ASSUME MeterInv, NEW c \in Calls, Charge(c) \/ ChargeOrg(c)
    PROVE  MeterInv'
<1>1. PICK q : q = call[c] /\ CallInv(q)
  BY DEF MeterInv
<1>2. ASSUME q.pc \in {"charge", "org"}, Put(c, ChargeFails(q)), UNCHANGED <<spend, rows, alerts>>
      PROVE  MeterInv'
  <2>1. PICK w : w = ChargeFails(q)
    OBVIOUS
  <2>2. Quiet(q, w)
    BY <1>1, <1>2, <2>1, FailQuiet
  <2>3. call' = [call EXCEPT ![c] = w]
    BY <1>2, <2>1 DEF Put
  <2>4. call' = [d \in Calls |-> call'[d]] /\ \A d \in Calls : Quiet(call[d], call'[d])
    BY <1>1, <2>2, <2>3, QuietOne
  <2> QED
    BY <1>2, <2>4, QuietKeepsBooks
<1>3. CASE Charge(c)
  <2>1. CASE Put(c, ChargeFails(q)) /\ UNCHANGED spend
    BY <1>1, <1>2, <1>3, <2>1 DEF Charge
  <2>2. CASE ~(Put(c, ChargeFails(q)) /\ UNCHANGED spend)
    <3>1. PICK cost \in Costs :
             /\ spend' = [spend EXCEPT !["team"] = @ + cost]
             /\ Put(c, TeamCharged(q, cost))
      BY <1>1, <1>3, <2>2 DEF Charge, TeamCharged
    <3>2. PICK w : w = TeamCharged(q, cost) /\ call' = [call EXCEPT ![c] = w]
      BY <3>1 DEF Put
    <3>3. q.pc = "charge" /\ UNCHANGED <<rows, alerts>>
      BY <1>1, <1>3 DEF Charge
    <3> QED
      BY <1>1, <3>1, <3>2, <3>3, ChargeStep
  <2> QED
    BY <2>1, <2>2
<1>4. CASE ChargeOrg(c)
  <2>0. q.pc = "org" /\ UNCHANGED <<rows, alerts>>
    BY <1>1, <1>4 DEF ChargeOrg
  <2>1. CASE Put(c, ChargeFails(q)) /\ UNCHANGED spend
    BY <1>2, <2>0, <2>1
  <2>2. CASE ~(Put(c, ChargeFails(q)) /\ UNCHANGED spend)
    <3>1. PICK k, w : /\ k = OrgCharged(q)
                      /\ w = IF q.abandoned THEN Finished(k) ELSE ToLog(k, "ok")
                      /\ spend' = [spend EXCEPT !["org"] = @ + q.charged]
                      /\ Put(c, w)
      BY <1>1, <1>4, <2>2 DEF ChargeOrg, OrgCharged
    <3>2. call' = [call EXCEPT ![c] = w]
      BY <3>1 DEF Put
    <3> QED
      BY <1>1, <2>0, <3>1, <3>2, ChargeOrgStep
  <2> QED
    BY <2>1, <2>2
<1> QED
  BY <1>3, <1>4

\* The log row, written or lost, and the degradation event.
LEMMA BooksStep ==
    ASSUME MeterInv, NEW c \in Calls, Log(c) \/ LogDegradationEvent(c)
    PROVE  MeterInv'
<1>1. PICK q : q = call[c] /\ CallInv(q)
  BY DEF MeterInv
<1>2. CASE Log(c)
  <2>1. PICK w : /\ q.pc = "log" /\ Put(c, w) /\ UNCHANGED <<spend, alerts>>
                 /\ w = [q EXCEPT !.pc = "event"] \/ w = AfterBooks(q)
    BY <1>1, <1>2 DEF Log
  <2>2. Quiet(q, w) /\ w.pc \in Over
    BY <1>1, <2>1, EventQuiet, BooksQuiet
  <2>3. call' = [call EXCEPT ![c] = w]
    BY <2>1 DEF Put
  <2>4. CASE rows' = Append(rows, UsageLog(c, call[c]))
    BY <1>1, <2>1, <2>2, <2>3, <2>4, LogStep
  <2>5. CASE rows' = rows
    <3>1. call' = [d \in Calls |-> call'[d]] /\ \A d \in Calls : Quiet(call[d], call'[d])
      BY <1>1, <2>2, <2>3, QuietOne
    <3> QED
      BY <2>1, <2>5, <3>1, QuietKeepsBooks
  <2> QED
    BY <1>2, <2>4, <2>5 DEF Log
<1>3. CASE LogDegradationEvent(c)
  <2>1. PICK w : Put(c, w) /\ w = AfterBooks(q) /\ UNCHANGED books
    BY <1>1, <1>3 DEF LogDegradationEvent
  <2>2. Quiet(q, w)
    BY <1>1, <2>1, BooksQuiet
  <2> QED
    BY <1>1, <2>1, <2>2, QuietStep
<1> QED
  BY <1>2, <1>3

\* The background tasks that send the alerts.
LEMMA TasksStep ==
    ASSUME MeterInv, NEW c \in Calls, LoadAlerts(c) \/ SendAlert(c) \/ TasksDone(c)
    PROVE  MeterInv'
<1>1. PICK q : q = call[c] /\ CallInv(q)
  BY DEF MeterInv
<1>2. CASE LoadAlerts(c)
  <2>1. PICK level, channels, plan, w :
           /\ level = NextLevel(q) /\ channels = alerts[level].channels
           /\ plan = {level} \X q.due[level] \X channels
           /\ q.pc = "tasks" /\ Put(c, w) /\ UNCHANGED books
           /\ w = [q EXCEPT !.due[level] = {}, !.plan = plan, !.owed = plan, !.tried = {}]
    BY <1>1, <1>2 DEF LoadAlerts
  <2>2. level \in Levels
    BY <2>1 DEF NextLevel, Levels
  <2>3. channels \in SUBSET Channels
    BY <2>1, <2>2 DEF MeterInv, CrossInv
  <2>4. Quiet(q, w)
    BY <1>1, <2>1, <2>2, <2>3, LoadQuiet
  <2> QED
    BY <1>1, <2>1, <2>4, QuietStep
<1>3. CASE SendAlert(c)
  <2>1. PICK a, w : /\ q.pc = "tasks" /\ q.plan # {} /\ UNCHANGED books
                    /\ a = (CHOOSE x \in q.plan : \A b \in q.plan \ {x} : Before(x, b))
                    /\ w \in Dispatched(q, a) /\ Put(c, w)
    BY <1>1, <1>3 DEF SendAlert
  <2>2. Quiet(q, w)
    BY <1>1, <2>1, SendQuiet
  <2> QED
    BY <1>1, <2>1, <2>2, QuietStep
<1>4. CASE TasksDone(c)
  <2>1. PICK w : Put(c, w) /\ w = Finished(q) /\ UNCHANGED books
    BY <1>1, <1>4 DEF TasksDone
  <2>2. Quiet(q, w)
    BY <1>1, <2>1, FinishQuiet
  <2> QED
    BY <1>1, <2>1, <2>2, QuietStep
<1> QED
  BY <1>2, <1>3, <1>4

\* A crash ends every call under way and touches nothing that is committed.
LEMMA CrashStep ==
    ASSUME MeterInv, Crash
    PROVE  MeterInv'
<1>1. UNCHANGED <<spend, alerts, rows>>
  BY DEF Crash, books
<1>2. call' = [d \in Calls |-> call'[d]]
  BY DEF Crash
<1>3. ASSUME NEW d \in Calls PROVE Quiet(call[d], call'[d])
  <2>1. CallInv(call[d])
    BY DEF MeterInv
  <2>2. call'[d] = call[d] \/ call'[d] = Finished(call[d])
    BY DEF Crash
  <2>3. CASE call'[d] = call[d]
    BY <2>1, <2>3 DEF Quiet, SameCharges
  <2>4. CASE call'[d] = Finished(call[d])
    BY <2>1, <2>4, FinishQuiet
  <2> QED
    BY <2>2, <2>3, <2>4
<1> QED
  BY <1>1, <1>2, <1>3, QuietKeepsBooks

\* Switching a threshold off leaves it out of "once" for good; what was crossed stays crossed.
LEMMA SettingsStep ==
    ASSUME MeterInv, NEW l \in Levels, NEW new \in Settings(l), SetChannels(l, new[1], new[2])
    PROVE  MeterInv'
<1>1. PICK chosen, on : /\ chosen = new[1] /\ on = new[2]
                        /\ chosen \subseteq Channels /\ on \subseteq Thresholds(l) /\ on \subseteq Percents
  BY DEF Settings, Levels, Thresholds, Percents
<1>2. alerts' = [alerts EXCEPT ![l] = [channels |-> chosen, on |-> on, once |-> @.once \cap on]]
      /\ UNCHANGED <<call, spend, rows>>
  BY <1>1 DEF SetChannels
<1>3. AlertsTyped
  BY DEF MeterInv
<1>4. AlertsTyped'
  BY <1>1, <1>2, <1>3 DEF AlertsTyped
<1>5. CrossInv'
  <2>1. \A k \in Levels : /\ k = l => /\ alerts'[k].channels = chosen /\ alerts'[k].on = on
                                      /\ alerts'[k].once = alerts[k].once \cap on
                          /\ k # l => alerts'[k] = alerts[k]
    BY <1>2, <1>3 DEF AlertsTyped
  <2>2. CrossInv /\ \A k, pct : Passed(k, pct)' <=> Passed(k, pct)
    BY <1>2 DEF MeterInv, Passed
  <2> QED
    BY <1>1, <1>2, <2>1, <2>2 DEF CrossInv
<1>6. RowsInv' /\ SpendInv'
  <2>1. RowsInv'
    BY <1>2 DEF MeterInv, RowsInv, RowsMatchCharges
  <2>2. TotalSpend' = TotalSpend /\ LoggedCharges' = LoggedCharges
        /\ TeamCharges' = TeamCharges /\ OrgCharges' = OrgCharges
    BY <1>2 DEF TotalSpend, LoggedCharges, TeamCharges, OrgCharges, HasOkRow
  <2> QED
    BY <1>2, <2>1, <2>2 DEF MeterInv, SpendInv
<1> QED
  BY <1>2, <1>4, <1>5, <1>6 DEF MeterInv

\* A catalogue write, and a step of nothing.
LEMMA StillStep ==
    ASSUME MeterInv, UNCHANGED <<call, spend, rows, alerts>>
    PROVE  MeterInv'
<1>1. \A d \in Calls : Quiet(call[d], call'[d])
  BY DEF MeterInv, Quiet, SameCharges
<1>2. call' = [d \in Calls |-> call'[d]]
  BY DEF MeterInv
<1> QED
  BY <1>1, <1>2, QuietKeepsBooks

\* At the start nothing is spent, logged, crossed or owed.
LEMMA MeterStarts ==
    ASSUME MeterInit
    PROVE  MeterInv
<1>1. CallInv(NewCall) /\ NewCall.charged = 0 /\ NewCall.orgCharged = 0 /\ NewCall.crossed = Nothing /\ NewCall.taken = {}
  BY NewCallShape, FreshInv DEF Blank
<1>2. call = [c \in Calls |-> call[c]] /\ \A c \in Calls : call[c] = NewCall
  BY DEF MeterInit
<1>3. /\ \A l \in Levels : spend[l] = 0 /\ alerts[l].channels = Channels
                           /\ alerts[l].on = Thresholds(l) /\ alerts[l].once = Thresholds(l)
      /\ spend \in [Levels -> Nat] /\ rows = <<>>
  BY DEF MeterInit
<1>4. AlertsTyped
  BY DEF MeterInit, AlertsTyped, Thresholds, Percents
<1>5. CrossInv
  <2>1. \A l \in Levels : \A pct \in Thresholds(l) : ~Passed(l, pct)
    <3>1. SUFFICES ASSUME NEW l \in Levels, NEW pct \in Thresholds(l), Passed(l, pct) PROVE FALSE
      OBVIOUS
    <3>2. PICK top \in Nat : top = Ceiling[l]
      BY MeterAssumption
    <3>3. top > 0 /\ 0 >= pct * top /\ pct \in {50, 75, 80, 100}
      BY <1>3, <3>2, <3>1 DEF Passed, Thresholds
    <3> QED
      BY <3>2, <3>3
  <2>2. \A l \in Levels : \A c \in Calls : call[c].crossed[l] = {}
    BY <1>1, <1>2 DEF Nothing
  <2> QED
    BY <1>3, <2>1, <2>2 DEF CrossInv
<1>6. RowsInv
  <2>1. rows \in Seq(RowSet) /\ DOMAIN rows = {}
    BY <1>3
  <2> QED
    BY <2>1 DEF RowsInv, RowsMatchCharges
<1>7. SpendInv
  <2>1. SumFunctionOnSet(TeamCharges, Calls) = 0 /\ SumFunctionOnSet(OrgCharges, Calls) = 0
        /\ SumFunctionOnSet(LoggedCharges, Calls) = 0
    <3>1. \A c \in Calls : TeamCharges[c] = 0 /\ OrgCharges[c] = 0 /\ LoggedCharges[c] = 0
      BY <1>1, <1>2 DEF TeamCharges, OrgCharges, LoggedCharges
    <3> QED
      BY <3>1, SumOfZeros, MeterAssumption
  <2>2. TotalSpend = 0
    <3>1. DOMAIN rows = {}
      BY <1>3
    <3> QED
      BY <3>1, SumOfNone DEF TotalSpend
  <2>3. spend["team"] = 0 /\ spend["org"] = 0
    BY <1>3 DEF Levels
  <2> QED
    BY <1>3, <2>1, <2>2, <2>3 DEF SpendInv
<1> QED
  BY <1>1, <1>2, <1>4, <1>5, <1>6, <1>7 DEF MeterInv

\* Metering's inductive invariant: every call's own (CallInv), the rows' against
\* the calls, the counters and the log as sums of what the calls charged, at each
\* step the levels at which a call's charge is committed (taken), and the thresholds as marks of the one call that crossed each.
THEOREM MeterInvariant == MeterSpec => []MeterInv
<1>1. MeterInit => MeterInv
  BY MeterStarts
<1>2. MeterInv /\ [MeterNext]_meterVars => MeterInv'
  <2> SUFFICES ASSUME MeterInv, [MeterNext]_meterVars PROVE MeterInv'
    OBVIOUS
  <2>1. ASSUME NEW c \in Calls,
               \/ ChatCompletion(c) \/ Completion(c) \/ Embeddings(c)
               \/ ServeHit(c) \/ RefuseCall(c)
        PROVE  MeterInv'
    BY <2>1, AdmissionStep
  <2>2. ASSUME NEW c \in Calls,
               Answer(c) \/ OpenStream(c) \/ AwaitFirst(c) \/ Pull(c) \/ Relay(c) \/ EndStream(c)
        PROVE  MeterInv'
    BY <2>2, AnswerStep, OpenStep, AwaitStep, PullStep, RelayStep, EndStep
  <2>3. ASSUME NEW c \in Calls, ClientLeaves(c) \/ Abandon(c)
        PROVE  MeterInv'
    BY <2>3, LeaveStep
  <2>4. ASSUME NEW c \in Calls, Charge(c) \/ ChargeOrg(c)
        PROVE  MeterInv'
    BY <2>4, ChargesStep
  <2>5. ASSUME NEW c \in Calls, Log(c) \/ LogDegradationEvent(c)
        PROVE  MeterInv'
    BY <2>5, BooksStep
  <2>6. ASSUME NEW c \in Calls, LoadAlerts(c) \/ SendAlert(c) \/ TasksDone(c)
        PROVE  MeterInv'
    BY <2>6, TasksStep
  <2>7. CASE Crash
    BY <2>7, CrashStep
  <2>8. CASE SetTeamAlertConfig \/ SetOrgAlertConfig
    BY <2>8, SettingsStep DEF SetTeamAlertConfig, SetOrgAlertConfig, Levels
  <2>9. ASSUME NEW m \in Models, Recatalogue(m)
        PROVE  MeterInv'
    BY <2>9, StillStep DEF Recatalogue
  <2>10. CASE UNCHANGED meterVars
    BY <2>10, StillStep DEF meterVars
  <2> QED
    BY <2>1, <2>2, <2>3, <2>4, <2>5, <2>6, <2>7, <2>8, <2>9, <2>10 DEF MeterNext
<1> QED
  BY <1>1, <1>2, PTL DEF MeterSpec

\* record_usage_charge, record_usage_log: RowsMatchCharges. A call has at most one
\* row, a row marked ok costs what both commits took for that call, which may be 0
\* and is committed all the same, a stored answer is charged nowhere, and any other
\* row has no cost, wherever the crash, the abandoned stream or the failed
\* commit fell between the three writes.
THEOREM RowsNeverLie == MeterSpec => []RowsMatchCharges
<1>1. MeterInv => RowsMatchCharges
  BY DEF MeterInv, RowsInv
<1> QED
  BY <1>1, MeterInvariant, PTL

\* _handle, once fixed after it shipped: NoFreeAnswer. An answer whose provider
\* reported usage reaches the log with its cost committed at both levels, whatever
\* it comes to, a price of 0 included, on every endpoint, for
\* every provider and however the usage rode on the stream, unless a charge failed
\* or the client had left.
THEOREM AnswersArePaid == MeterSpec => []NoFreeAnswer
<1>1. MeterInv => NoFreeAnswer
  BY DEF MeterInv, CallInv, Money, NoFreeAnswer
<1> QED
  BY <1>1, MeterInvariant, PTL

\* The finally block of the stream: DoneMeansComplete. [DONE] is sent only after
\* the finish frame, with no chunk that carries choices withheld.
THEOREM DoneIsComplete == MeterSpec => []DoneMeansComplete
<1>1. MeterInv => DoneMeansComplete
  BY DEF MeterInv, CallInv, Streamed, Complete, DoneMeansComplete
<1> QED
  BY <1>1, MeterInvariant, PTL

\* crossed_thresholds, deliver_threshold_alerts: AlertsOnce. However charges of any number of
\* calls interleave with edits of the settings, a threshold is crossed by one call
\* at most and never early, and a round that is over has tried all it owed.
THEOREM ThresholdsAlertOnce == MeterSpec => []AlertsOnce
<1>1. ASSUME MeterInv
      PROVE  AlertsOnce
  <2>1. ASSUME NEW l \in Levels, NEW pct \in Thresholds(l)
        PROVE  LET crossers == Cardinality({c \in Calls : pct \in call[c].crossed[l]})
                   past == Ceiling[l] > 0 /\ 100 * spend[l] >= pct * Ceiling[l]
               IN  /\ crossers <= 1 /\ (crossers = 1 => past)
                   /\ past /\ pct \in alerts[l].once => crossers = 1
    <3> DEFINE C == {c \in Calls : pct \in call[c].crossed[l]}
    <3>1. CrossInv
      BY <1>1 DEF MeterInv
    <3>2. /\ \A c \in C : Passed(l, pct) /\ C = {c}
          /\ pct \in alerts[l].once /\ Passed(l, pct) => C # {}
      BY <3>1 DEF CrossInv
    <3>3. CASE C = {}
      <4>1. Cardinality(C) = 0
        BY <3>3, FS_EmptySet
      <4> QED
        BY <3>2, <3>3, <4>1 DEF Passed
    <3>4. CASE C # {}
      <4>1. PICK c : c \in C /\ C = {c} /\ Passed(l, pct)
        BY <3>2, <3>4
      <4>2. Cardinality(C) = 1
        BY <4>1, FS_Singleton
      <4> QED
        BY <4>1, <4>2 DEF Passed
    <3> QED
      BY <3>3, <3>4
  <2>2. ASSUME NEW c \in Calls, call[c].plan = {} PROVE call[c].tried = call[c].owed
    BY <1>1, <2>2 DEF MeterInv, CallInv, Alerting
  <2> QED
    BY <2>1, <2>2 DEF AlertsOnce
<1> QED
  BY <1>1, MeterInvariant, PTL

\* get_usage_summary: SummaryWithinBooks. What the dashboard sums is at most what
\* the organisation was charged, and that at most what its teams were, in every
\* state between the three commits.
THEOREM ReportsWithinBooks == MeterSpec => []SummaryWithinBooks
<1>1. ASSUME MeterInv
      PROVE  SummaryWithinBooks
  <2>1. PICK team, org, logged : team = TeamCharges /\ org = OrgCharges /\ logged = LoggedCharges
    OBVIOUS
  <2>2. \A c \in Calls : call[c].charged \in Nat /\ call[c].orgCharged \in {0, call[c].charged}
    BY <1>1 DEF MeterInv, CallInv, Typed
  <2>3. \A c \in Calls : /\ logged[c] \in Int /\ org[c] \in Int /\ team[c] \in Int
                         /\ logged[c] <= org[c] /\ org[c] <= team[c]
    BY <2>1, <2>2 DEF TeamCharges, OrgCharges, LoggedCharges
  <2>4. SumFunctionOnSet(logged, Calls) <= SumFunctionOnSet(org, Calls)
        /\ SumFunctionOnSet(org, Calls) <= SumFunctionOnSet(team, Calls)
    BY <2>3, SumMonotone, MeterAssumption
  <2> QED
    BY <1>1, <2>1, <2>4 DEF MeterInv, SpendInv, SummaryWithinBooks
<1> QED
  BY <1>1, MeterInvariant, PTL
=============================================================================
