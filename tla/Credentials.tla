----------------------------- MODULE Credentials -----------------------------
(***************************************************************************)
(* The credentials of one account: its personal keys, its console sessions *)
(* and the refresh credentials of its machines, the calls that mint,       *)
(* replace and revoke them, the device-code logins kept in the memory of   *)
(* the server, and the identity provider that deactivates the account and  *)
(* moves it in and out of teams.                                           *)
(*                                                                         *)
(* A call authenticates, reads, and commits: other calls run between these *)
(* steps, and a crash of the server drops every call in flight.  A         *)
(* deactivation revokes one table after another and commits once.          *)
(*                                                                         *)
(* `late` is history: the row was minted by a call that authenticated      *)
(* before the deactivation it survived, or by a team lead.                 *)
(***************************************************************************)
EXTENDS Naturals, FiniteSets

CONSTANTS
    Teams,      \* the teams the account may belong to
    KeyIds, CredIds, SessionIds, Codes,   \* ids of rows and of device logins, each used once
    Calls,      \* slots for calls to the server
    None,
    Cap,        \* org_settings.personal_key_soft_cap
    MaxCalls, MaxSecrets, MaxCrashes      \* bounds

ASSUME CredentialsAssumption ==
    /\ \A S \in {Teams, KeyIds, CredIds, SessionIds, Codes, Calls} : IsFiniteSet(S)
    /\ {} \notin {Teams, KeyIds, CredIds, SessionIds}
    /\ None \notin Teams \cup KeyIds \cup CredIds \cup SessionIds \cup Codes \cup Calls
    /\ Cap \in Nat \ {0} /\ MaxCalls \in Nat /\ MaxSecrets \in Nat /\ MaxCrashes \in Nat

Status == {"free", "live", "revoked"}
Key == [status : Status, team : Teams \cup {None}, secret : 0..MaxSecrets, late : BOOLEAN]
Cred == [status : Status, key : KeyIds \cup {None}, late : BOOLEAN]
Session == [status : Status, late : BOOLEAN]
Code == [status : {"free", "pending", "approved", "gone"}, cred : CredIds \cup {None}]
Tables == [keys : SUBSET KeyIds, sessions : SUBSET SessionIds, creds : SUBSET CredIds]
NoRows == [keys |-> {}, sessions |-> {}, creds |-> {}]
Call == [pc : {"idle", "begin", "load", "lock", "mint", "attach", "flag",
               "sweepKeys", "sweepSessions", "sweepCreds", "commit"},
         op : {"none", "create", "approve", "regenerate", "revoke", "signIn", "logout",
               "setActive", "setMember"},
         by : {"owner", "lead", "idp", "cli"},   \* an administrator acts as a lead
         team : Teams \cup {None}, key : KeyIds \cup {None}, cred : CredIds \cup {None},
         code : Codes \cup {None}, session : SessionIds \cup {None},
         to : BOOLEAN, saw : BOOLEAN, early : BOOLEAN,
         swept : Tables, before : Tables]

VARIABLES
    off,        \* users.scim_deactivated_at is set
    member,     \* teams with an active membership of the account
    key, cred, session,     \* the three tables
    code,       \* DeviceAuthStore
    call,
    rowLock,    \* the call that holds the membership row of each team
    made,       \* secrets generated
    started, crashes

rows == <<key, cred, session>>
accountVars == <<off, member, rows, code, call, rowLock, made, started, crashes>>

Rest == [pc |-> "idle", op |-> "none", by |-> "owner", team |-> None, key |-> None,
         cred |-> None, code |-> None, session |-> None, to |-> FALSE, saw |-> FALSE,
         early |-> FALSE, swept |-> NoRows, before |-> NoRows]
NoKey == [status |-> "free", team |-> None, secret |-> 0, late |-> FALSE]
NoCred == [status |-> "free", key |-> None, late |-> FALSE]
NoSession == [status |-> "free", late |-> FALSE]
NoCode == [status |-> "free", cred |-> None]

Live(table) == {i \in DOMAIN table : table[i].status = "live"}
Free(table) == {i \in DOMAIN table : table[i].status = "free"}
LiveRows == [keys |-> Live(key), sessions |-> Live(session), creds |-> Live(cred)]
\* One id of a set of interchangeable ids.
Next1(ids) == CHOOSE i \in ids : TRUE

\* The gateway accepts the secret: its hash is found on an active row.
Accepts(k, secret) == key[k].status = "live" /\ key[k].secret = secret
\* try_get_session_context, require_cli_refresh_credential, get_membership
SignedIn(s) == session[s].status = "live" /\ ~off
Paired(i) == cred[i].status = "live"
IsMember(t) == t \in member
Owner == \E s \in SessionIds : SignedIn(s)

----------------------------------------------------------------------------
\* An open cascade holds the rows it has updated until it commits.
Open == {c \in Calls : call[c].op = "setActive" /\ ~call[c].to
                       /\ call[c].pc \in {"sweepKeys", "sweepSessions", "sweepCreds"}}
Held(k) == \E c \in Open : k \in call[c].swept.keys
\* A row minted now survives the deactivation that is open, or that has
\* committed since the call authenticated.
Survives(c) == call[c].early \/ call[c].by = "lead" \/ Open # {}

Take(c, op, by, q) ==
    /\ call[c].pc = "idle"
    /\ call' = [call EXCEPT ![c] = [q EXCEPT !.op = op, !.by = by]]
Begin(c, op, by, q) == started < MaxCalls /\ started' = started + 1 /\ Take(c, op, by, q)
Goto(c, pc) == call' = [call EXCEPT ![c].pc = pc]
Done(c) == call' = [call EXCEPT ![c] = Rest]
Release(c) == rowLock' = [t \in Teams |-> IF rowLock[t] = c THEN None ELSE rowLock[t]]

----------------------------------------------------------------------------
(* Personal keys                                                           *)

\* create_own_key and create_member_key: authenticate, look for the membership.
CreateOwnKey(c, t) ==
    /\ Owner /\ IsMember(t)
    /\ Begin(c, "create", "owner", [Rest EXCEPT !.pc = "lock", !.team = t])
    /\ UNCHANGED <<off, member, rows, code, rowLock, made, crashes>>

CreateMemberKey(c, t) ==
    /\ IsMember(t)
    /\ Begin(c, "create", "lead", [Rest EXCEPT !.pc = "lock", !.team = t])
    /\ UNCHANGED <<off, member, rows, code, rowLock, made, crashes>>

IsPending(d) == code[d].status = "pending"
\* approve_device_auth: the code is pending and the team is the account's.
ApproveDevice(c, d, t) ==
    /\ Owner /\ IsPending(d) /\ IsMember(t)
    /\ Begin(c, "approve", "owner", [Rest EXCEPT !.pc = "lock", !.team = t, !.code = d])
    /\ UNCHANGED <<off, member, rows, code, rowLock, made, crashes>>

\* Faulty: an owner at the cap may add one more.
LockMembership_AtCap(c) ==
    LET t == call[c].team IN
    /\ call[c].pc = "lock" /\ rowLock[t] = None
    /\ IF t \in member /\ Cardinality(Live(key)) <= Cap
       THEN Goto(c, "mint") /\ rowLock' = [rowLock EXCEPT ![t] = c]
       ELSE Done(c) /\ UNCHANGED rowLock
    /\ UNCHANGED <<off, member, rows, code, made, started, crashes>>
\* create_personal_key up to the count: 404 without a membership, 422 at the cap.
LockMembership(c) ==
    LET t == call[c].team IN
    /\ call[c].pc = "lock" /\ rowLock[t] = None
    /\ IF t \in member /\ Cardinality(Live(key)) < Cap
       THEN Goto(c, "mint") /\ rowLock' = [rowLock EXCEPT ![t] = c]
       ELSE Done(c) /\ UNCHANGED rowLock
    /\ UNCHANGED <<off, member, rows, code, made, started, crashes>>

\* create_personal_key's insert
NewKey(c, k) ==
    key' = [key EXCEPT ![k] = [status |-> "live", team |-> call[c].team,
                               secret |-> made', late |-> Survives(c)]]
\* create_cli_refresh_credential
NewCred(c, i, k) ==
    cred' = [cred EXCEPT ![i] = [status |-> "live", key |-> k, late |-> Survives(c)]]

\* The insert, its audit entry and the commit, which ends the row lock.
MintKey(c) ==
    LET k == Next1(Free(key)) IN
    /\ call[c].pc = "mint" /\ call[c].op = "create"
    /\ Free(key) # {} /\ made < MaxSecrets
    /\ made' = made + 1
    /\ NewKey(c, k) /\ Release(c) /\ Done(c)
    /\ UNCHANGED <<off, member, cred, session, code, started, crashes>>

\* approve_device_auth mints the key and the credential in one transaction.
MintCredential(c) ==
    LET k == Next1(Free(key))
        i == Next1(Free(cred)) IN
    /\ call[c].pc = "mint" /\ call[c].op = "approve"
    /\ Free(key) # {} /\ Free(cred) # {} /\ made < MaxSecrets
    /\ made' = made + 1
    /\ NewKey(c, k) /\ NewCred(c, i, k) /\ Release(c)
    /\ call' = [call EXCEPT ![c].pc = "attach", ![c].cred = i]
    /\ UNCHANGED <<off, member, session, code, started, crashes>>

\* DeviceAuthStore.approve: the code may have been approved, polled or dropped
\* meanwhile; the credential is then live and nobody's.
AttachCredential(c) ==
    LET d == call[c].code IN
    /\ call[c].pc = "attach"
    /\ code' = IF IsPending(d)
               THEN [code EXCEPT ![d] = [status |-> "approved", cred |-> call[c].cred]]
               ELSE code
    /\ Done(c)
    /\ UNCHANGED <<off, member, rows, rowLock, made, started, crashes>>

\* A key is replaced or revoked by its owner, by a lead of its team while the
\* owner belongs to it, or by an administrator.
Change(c, op, by, k) ==
    /\ key[k].status # "free"
    /\ Begin(c, op, by, [Rest EXCEPT !.pc = "load", !.key = k])
    /\ UNCHANGED <<off, member, rows, code, rowLock, made, crashes>>

RegenerateOwnKey(c, k) == Owner /\ Change(c, "regenerate", "owner", k)
RegenerateMemberKey(c, k) == IsMember(key[k].team) /\ Change(c, "regenerate", "lead", k)
AdminRegenerateKey(c, k) == Change(c, "regenerate", "lead", k)
RevokeOwnKey(c, k) == Owner /\ Change(c, "revoke", "owner", k)
RevokeMemberKey(c, k) == IsMember(key[k].team) /\ Change(c, "revoke", "lead", k)
AdminRevokeKey(c, k) == Change(c, "revoke", "lead", k)

\* get_current_key, authenticated by require_cli_refresh_credential
FetchCurrentKey(c, i) ==
    /\ Paired(i)
    /\ Take(c, "regenerate", "cli", [Rest EXCEPT !.pc = "load", !.key = cred[i].key])
    /\ UNCHANGED <<off, member, rows, code, rowLock, made, started, crashes>>

\* get_personal_key; a revoked row is refused, or left as it is.
LoadKey(c) ==
    /\ call[c].pc = "load"
    /\ IF key[call[c].key].status = "revoked" THEN Done(c) ELSE Goto(c, "commit")
    /\ UNCHANGED <<off, member, rows, code, rowLock, made, started, crashes>>

\* regenerate_personal_key writes the new hash whatever has become of the row.
NewSecret(k) ==
    /\ ~Held(k) /\ made < MaxSecrets
    /\ made' = made + 1
    /\ key' = [key EXCEPT ![k].secret = made']

CommitRegenerate(c) ==
    /\ call[c].pc = "commit" /\ call[c].op = "regenerate"
    /\ NewSecret(call[c].key)
    /\ Done(c)
    /\ UNCHANGED <<off, member, cred, session, code, rowLock, started, crashes>>

\* revoke_personal_key
CommitRevoke(c) ==
    /\ call[c].pc = "commit" /\ call[c].op = "revoke" /\ ~Held(call[c].key)
    /\ key' = [key EXCEPT ![call[c].key].status = "revoked"]
    /\ Done(c)
    /\ UNCHANGED <<off, member, cred, session, code, rowLock, made, started, crashes>>

----------------------------------------------------------------------------
(* Sessions                                                                *)

\* sso_callback finds the account and refuses it when it is deactivated.
SsoCallback(c) ==
    /\ ~off
    /\ Begin(c, "signIn", "owner", [Rest EXCEPT !.pc = "commit"])
    /\ UNCHANGED <<off, member, rows, code, rowLock, made, crashes>>

\* create_session
CreateSession(c) ==
    LET s == Next1(Free(session)) IN
    /\ call[c].pc = "commit" /\ call[c].op = "signIn" /\ Free(session) # {}
    /\ session' = [session EXCEPT ![s] = [status |-> "live", late |-> Survives(c)]]
    /\ Done(c)
    /\ UNCHANGED <<off, member, key, cred, code, rowLock, made, started, crashes>>

Logout(c, s) ==
    /\ SignedIn(s)
    /\ Begin(c, "logout", "owner", [Rest EXCEPT !.pc = "commit", !.session = s])
    /\ UNCHANGED <<off, member, rows, code, rowLock, made, crashes>>

\* revoke_session
RevokeSession(c) ==
    /\ call[c].pc = "commit" /\ call[c].op = "logout"
    /\ \A o \in Open : call[c].session \notin call[o].swept.sessions
    /\ session' = [session EXCEPT ![call[c].session].status = "revoked"]
    /\ Done(c)
    /\ UNCHANGED <<off, member, key, cred, code, rowLock, made, started, crashes>>

----------------------------------------------------------------------------
(* SCIM                                                                    *)

\* The identity provider's calls load the account first.
LoadUser(c, active) ==
    /\ Begin(c, "setActive", "idp", [Rest EXCEPT !.pc = "flag", !.to = active, !.saw = off])
    /\ UNCHANGED <<off, member, rows, code, rowLock, made, crashes>>

PatchUser(c, active) == LoadUser(c, active)
ReplaceUser(c, active) == LoadUser(c, active)
DeleteUser(c) == LoadUser(c, FALSE)

\* The users row is written, and held, when the account's state changes.
HoldsUser == {c \in Open : ~call[c].saw}

\* set_scim_user_active(active=True) clears the flag and nothing else.
Reactivate(c) ==
    /\ call[c].pc = "flag" /\ call[c].to
    /\ call[c].saw => HoldsUser = {}
    /\ off' = IF call[c].saw THEN FALSE ELSE off
    /\ Done(c)
    /\ UNCHANGED <<member, rows, code, rowLock, made, started, crashes>>

\* set_scim_user_active(active=False) up to the flush of the flag
FlagInactive(c) ==
    /\ call[c].pc = "flag" /\ ~call[c].to
    /\ ~call[c].saw => HoldsUser = {}
    /\ call' = [call EXCEPT ![c].pc = "sweepKeys", ![c].before = LiveRows]
    /\ UNCHANGED <<off, member, rows, code, rowLock, made, started, crashes>>

\* Faulty: only the keys of teams the account still belongs to.
SweepKeys_Members(c) ==
    /\ call[c].pc = "sweepKeys"
    /\ \A o \in Open : call[o].swept.keys \cap Live(key) = {}
    /\ call' = [call EXCEPT ![c].pc = "sweepSessions",
                            ![c].swept.keys = {k \in Live(key) : key[k].team \in member}]
    /\ UNCHANGED <<off, member, rows, code, rowLock, made, started, crashes>>
\* revoke_scim_deactivated_user_credentials, one UPDATE per table
SweepKeys(c) ==
    /\ call[c].pc = "sweepKeys"
    /\ \A o \in Open : call[o].swept.keys \cap Live(key) = {}
    /\ call' = [call EXCEPT ![c].pc = "sweepSessions", ![c].swept.keys = Live(key)]
    /\ UNCHANGED <<off, member, rows, code, rowLock, made, started, crashes>>

SweepSessions(c) ==
    /\ call[c].pc = "sweepSessions"
    /\ \A o \in Open : call[o].swept.sessions \cap Live(session) = {}
    /\ call' = [call EXCEPT ![c].pc = "sweepCreds", ![c].swept.sessions = Live(session)]
    /\ UNCHANGED <<off, member, rows, code, rowLock, made, started, crashes>>

\* A row of the table that this cascade revokes, or that an earlier one had
\* missed and this one has had the chance to see.
Revoke(table, swept, before) ==
    [i \in DOMAIN table |->
        IF i \in swept THEN [table[i] EXCEPT !.status = "revoked"]
        ELSE IF i \in before THEN [table[i] EXCEPT !.late = FALSE] ELSE table[i]]

\* The last UPDATE, the audit entries and the commit: every call in flight has
\* authenticated before the deactivation.
CommitInactive(c) ==
    LET q == call[c] IN
    /\ q.pc = "sweepCreds"
    /\ off' = (off \/ ~q.saw)
    /\ key' = Revoke(key, q.swept.keys, q.before.keys)
    /\ session' = Revoke(session, q.swept.sessions, q.before.sessions)
    /\ cred' = Revoke(cred, Live(cred), q.before.creds)
    /\ call' = [d \in Calls |-> IF d = c \/ call[d].pc = "idle" THEN Rest
                                ELSE [call[d] EXCEPT !.early = TRUE]]
    /\ UNCHANGED <<member, code, rowLock, made, started, crashes>>

\* PUT of /Groups/{id} reads who belongs and makes up the difference; PATCH,
\* like a lead's removal and restoration, looks at one membership.
LoadGroup(c, t, to) ==
    /\ Begin(c, "setMember", "idp", [Rest EXCEPT !.pc = "commit", !.team = t, !.to = to,
                                                 !.saw = IsMember(t)])
    /\ UNCHANGED <<off, member, rows, code, rowLock, made, crashes>>
ReplaceGroup(c, t, to) == LoadGroup(c, t, to)
PatchGroup(c, t, to) == LoadGroup(c, t, to)

\* Both lock the membership, and leave the account's keys as they are.
AddGroupMember(t) == rowLock[t] = None /\ member' = member \cup {t}
RemoveGroupMember(t) == rowLock[t] = None /\ member' = member \ {t}

CommitGroup(c) ==
    LET q == call[c] IN
    /\ q.pc = "commit" /\ q.op = "setMember"
    /\ IF q.saw = q.to THEN UNCHANGED member
       ELSE IF q.to THEN AddGroupMember(q.team) ELSE RemoveGroupMember(q.team)
    /\ Done(c)
    /\ UNCHANGED <<off, rows, code, rowLock, made, started, crashes>>

----------------------------------------------------------------------------
\* The server restarts: its memory and its open transactions are gone.
DropMemory ==
    /\ crashes < MaxCrashes /\ crashes' = crashes + 1
    /\ code' = [d \in Codes |-> IF code[d].status \in {"pending", "approved"}
                                THEN [status |-> "gone", cred |-> None] ELSE code[d]]
    /\ call' = [c \in Calls |-> Rest] /\ rowLock' = [t \in Teams |-> None]

\* DeviceAuthStore._sweep_expired, at the first use of the store after the time
ExpireCode(d) ==
    /\ code[d].status \in {"pending", "approved"}
    /\ code' = [code EXCEPT ![d] = [status |-> "gone", cred |-> None]]
    /\ UNCHANGED <<off, member, rows, call, rowLock, made, started, crashes>>

\* The account is signed in, belongs to every team and has paired one machine.
AccountInit ==
    LET t == Next1(Teams)
        k == Next1(KeyIds) IN
    /\ off = FALSE /\ member = Teams
    /\ key = [i \in KeyIds |->
                IF i = k THEN [status |-> "live", team |-> t, secret |-> 1, late |-> FALSE]
                ELSE NoKey]
    /\ cred = [i \in CredIds |->
                IF i = Next1(CredIds) THEN [status |-> "live", key |-> k, late |-> FALSE]
                ELSE NoCred]
    /\ session = [i \in SessionIds |->
                IF i = Next1(SessionIds) THEN [status |-> "live", late |-> FALSE] ELSE NoSession]
    /\ code = [d \in Codes |-> NoCode]
    /\ call = [c \in Calls |-> Rest]
    /\ rowLock = [i \in Teams |-> None]
    /\ made = 1 /\ started = 0 /\ crashes = 0

CallStarts(c) ==
    \/ \E t \in Teams : CreateOwnKey(c, t)
    \/ \E t \in Teams : CreateMemberKey(c, t)
    \/ \E d \in Codes, t \in Teams : ApproveDevice(c, d, t)
    \/ \E k \in KeyIds : \/ RegenerateOwnKey(c, k) \/ RegenerateMemberKey(c, k)
                         \/ AdminRegenerateKey(c, k)
                         \/ RevokeOwnKey(c, k) \/ RevokeMemberKey(c, k) \/ AdminRevokeKey(c, k)
    \/ SsoCallback(c)
    \/ \E s \in SessionIds : Logout(c, s)
    \/ \E active \in BOOLEAN : PatchUser(c, active) \/ ReplaceUser(c, active)
    \/ DeleteUser(c)
    \/ \E t \in Teams, to \in BOOLEAN : PatchGroup(c, t, to) \/ ReplaceGroup(c, t, to)

CallGoesOn(c) ==
    \/ LockMembership(c) \/ MintKey(c) \/ MintCredential(c) \/ AttachCredential(c)
    \/ LoadKey(c) \/ CommitRevoke(c)
    \/ CreateSession(c) \/ RevokeSession(c)
    \/ Reactivate(c) \/ FlagInactive(c) \/ SweepKeys(c) \/ SweepSessions(c)
    \/ CommitInactive(c) \/ CommitGroup(c)

----------------------------------------------------------------------------
\* The cap on personal keys is counted under the lock of one membership: it is
\* passed by at most one key for every further team of the owner.
KeyCapBounded == Cardinality(Live(key)) <= Cap + (Cardinality(Teams) - 1)

\* Once a deactivation has committed, nothing the account held when it began is
\* usable, and what is live was minted by a call that had authenticated before
\* it, or by a team lead.
DeactivationCutsOff ==
    off => /\ \A k \in Live(key) : key[k].late
           /\ \A i \in Live(cred) : cred[i].late
           /\ \A s \in Live(session) : session[s].late
=============================================================================
