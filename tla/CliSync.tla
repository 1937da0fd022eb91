------------------------------- MODULE CliSync -------------------------------
(***************************************************************************)
(* gatekey-sync on one machine, against the server of Credentials.  The    *)
(* processes of the machine share a keychain entry and a cache file, and   *)
(* nothing orders their reads and writes of the two.  A process logs in by *)
(* device code, or runs a command with the account's current key: from the *)
(* cache while it is valid, from the server otherwise, and once more from  *)
(* the server when the cached key may have been the reason of a failure.   *)
(***************************************************************************)
EXTENDS Credentials

CONSTANTS
    Procs           \* processes; each is also the slot of its own call to the server

ASSUME CliSyncAssumption ==
    /\ IsFiniteSet(Procs) /\ Procs \subseteq Calls
    \* a secret for every call, and for both fetches of every command
    /\ MaxSecrets > 2 * MaxCalls

VARIABLES
    keyring,    \* the stored refresh credential
    cache,      \* the cached secret, 0 when there is none
    valid,      \* valid_until has not passed
    proc,
    given       \* history: how often the server handed out each credential

clientVars == <<keyring, cache, valid, proc, given>>
allVars == <<accountVars, clientVars>>

Process == [pc : {"idle", "polling", "fetch", "waiting", "answered", "rejected", "run"},
            code : Codes \cup {None}, used : BOOLEAN, secret : 0..MaxSecrets]
Quiet == [pc |-> "idle", code |-> None, used |-> FALSE, secret |-> 0]

Accepted(secret) == \E k \in KeyIds : Accepts(k, secret)
Become(p, q) == proc' = [proc EXCEPT ![p] = q]
Exit(p) == Become(p, Quiet)
\* The processes are alike: a command is run by any that is idle.
IdleProcs == {p \in Procs : proc[p].pc = "idle" /\ call[p].pc = "idle"}
Command(p) ==
    /\ IdleProcs # {} /\ p = Next1(IdleProcs)
    /\ started < MaxCalls /\ started' = started + 1

----------------------------------------------------------------------------
\* gatekey-sync login: start_device_auth
Login(p) ==
    LET d == Next1(Free(code)) IN
    /\ Command(p) /\ Free(code) # {}
    /\ code' = [code EXCEPT ![d].status = "pending"]
    /\ Become(p, [Quiet EXCEPT !.pc = "polling", !.code = d])
    /\ UNCHANGED <<off, member, rows, call, rowLock, made, crashes>>
    /\ UNCHANGED <<keyring, cache, valid, given>>

\* Faulty: the record survives its delivery.
Poll_Keeps(p) ==
    LET d == proc[p].code
        i == code[d].cred IN
    /\ proc[p].pc = "polling" /\ code[d].status = "approved"
    /\ given' = [given EXCEPT ![i] = @ + 1]
    /\ \/ keyring' = i /\ Exit(p)
       \/ UNCHANGED <<keyring, proc>>
    /\ UNCHANGED <<accountVars, cache, valid>>
\* DeviceAuthStore.poll delivers once and forgets; the answer may be lost, and
\* the command with it.
Poll(p) ==
    LET d == proc[p].code
        i == code[d].cred IN
    /\ proc[p].pc = "polling" /\ code[d].status = "approved"
    /\ code' = [code EXCEPT ![d] = [status |-> "gone", cred |-> None]]
    /\ given' = [given EXCEPT ![i] = @ + 1]
    /\ keyring' \in {i, keyring}
    /\ Exit(p)
    /\ UNCHANGED <<off, member, rows, call, rowLock, made, started, crashes>>
    /\ UNCHANGED <<cache, valid>>

\* Faulty: the client polls until the server has forgotten the code.
StopPolling_Forgotten(p) ==
    /\ proc[p].pc = "polling" /\ code[proc[p].code].status = "gone" /\ Exit(p)
    /\ UNCHANGED <<accountVars, keyring, cache, valid, given>>
\* The code is unknown to the server, or the client's own deadline passes.
StopPolling(p) ==
    /\ proc[p].pc = "polling" /\ Exit(p)
    /\ UNCHANGED <<accountVars, keyring, cache, valid, given>>

\* gatekey-sync exec: _resolve_key
Exec(p) ==
    /\ Command(p)
    /\ Become(p, IF valid /\ cache # 0
                 THEN [Quiet EXCEPT !.pc = "run", !.used = TRUE, !.secret = cache]
                 ELSE [Quiet EXCEPT !.pc = "fetch"])
    /\ UNCHANGED <<off, member, rows, code, call, rowLock, made, crashes>>
    /\ UNCHANGED <<keyring, cache, valid, given>>

\* _refresh_key: no login, a login the server accepts, one that it rejects
NotLoggedIn(p) ==
    /\ proc[p].pc = "fetch" /\ keyring = None /\ Exit(p)
    /\ UNCHANGED <<accountVars, keyring, cache, valid, given>>

SendFetch(p) ==
    /\ proc[p].pc = "fetch" /\ keyring # None
    /\ FetchCurrentKey(p, keyring)
    /\ Become(p, [proc[p] EXCEPT !.pc = "waiting"])
    /\ UNCHANGED <<keyring, cache, valid, given>>

FetchRejected(p) ==
    /\ proc[p].pc = "fetch" /\ keyring # None /\ cred[keyring].status # "live"
    /\ Become(p, [proc[p] EXCEPT !.pc = "rejected"])
    /\ UNCHANGED <<accountVars, keyring, cache, valid, given>>

\* A 401 clears whatever login and cache there are by now.
ClearLogin(p) ==
    /\ proc[p].pc = "rejected"
    /\ keyring' = None /\ cache' = 0 /\ valid' = FALSE
    /\ Exit(p)
    /\ UNCHANGED <<accountVars, given>>

\* The server commits the new secret and answers; a client that has given up
\* does not hear of it.
AnswerFetch(p) ==
    /\ CommitRegenerate(p)
    /\ Become(p, IF proc[p].pc = "waiting"
                 THEN [proc[p] EXCEPT !.pc = "answered", !.secret = made'] ELSE proc[p])
    /\ UNCHANGED <<keyring, cache, valid, given>>

\* The call was refused (409), lost or timed out.
FetchFails(p) ==
    /\ proc[p].pc = "waiting" /\ Exit(p)
    /\ UNCHANGED <<accountVars, keyring, cache, valid, given>>

\* write_cache, then the wrapped command
WriteCache(p) ==
    /\ proc[p].pc = "answered"
    /\ cache' = proc[p].secret /\ valid' = TRUE
    /\ Become(p, [proc[p] EXCEPT !.pc = "run"])
    /\ UNCHANGED <<accountVars, keyring, given>>

ChildSucceeds(p) ==
    /\ proc[p].pc = "run" /\ Accepted(proc[p].secret) /\ Exit(p)
    /\ UNCHANGED <<accountVars, keyring, cache, valid, given>>

\* A child fails for want of a valid key or for reasons of its own; only a
\* cached key is worth a second attempt.
ChildFails(p) ==
    /\ proc[p].pc = "run"
    /\ IF proc[p].used
       THEN cache' = 0 /\ valid' = FALSE /\ Become(p, [Quiet EXCEPT !.pc = "fetch"])
       ELSE Exit(p) /\ UNCHANGED <<cache, valid>>
    /\ UNCHANGED <<accountVars, keyring, given>>

CacheExpires ==
    /\ valid /\ valid' = FALSE
    /\ UNCHANGED <<accountVars, keyring, cache, proc, given>>

----------------------------------------------------------------------------
\* The slots of the other calls are alike: a call takes any that is idle.
Slots == {c \in Calls \ Procs : call[c].pc = "idle"}

Server ==
    /\ \/ Slots # {} /\ CallStarts(Next1(Slots))
       \/ \E c \in Calls \ Procs : CommitRegenerate(c)
       \/ \E c \in Calls : CallGoesOn(c)
       \/ \E d \in Codes : ExpireCode(d)
       \/ DropMemory /\ UNCHANGED <<off, member, rows, made, started>>
    /\ UNCHANGED clientVars

ClientStep(p) ==
    \/ Poll(p) \/ StopPolling(p) \/ NotLoggedIn(p) \/ SendFetch(p) \/ FetchRejected(p)
    \/ ClearLogin(p) \/ FetchFails(p) \/ WriteCache(p)
    \/ ChildSucceeds(p) \/ ChildFails(p)

CliNext ==
    \/ Server \/ CacheExpires
    \/ \E p \in Procs : Login(p) \/ Exec(p) \/ AnswerFetch(p) \/ ClientStep(p)

CliInit ==
    /\ AccountInit
    /\ keyring = Next1(CredIds) /\ cache = made /\ valid = TRUE
    /\ proc = [p \in Procs |-> Quiet]
    /\ given = [i \in CredIds |-> IF i = keyring THEN 1 ELSE 0]

CliSpec == CliInit /\ [][CliNext]_allVars
\* A command that can go on does: the client has a timeout for every call and a
\* deadline for its polling, and the wrapped command ends.
FairSpec == CliSpec /\ \A p \in Procs : WF_allVars(ClientStep(p))

----------------------------------------------------------------------------
\* A refresh credential is in at most one place before it is stored: in one
\* record of the device store or handed out, never handed out twice, and never
\* before its row is committed.
CredentialDeliveredOnce ==
    \A i \in CredIds :
        LET kept == {d \in Codes : code[d].cred = i} IN
        /\ given[i] + Cardinality(kept) <= 1
        /\ given[i] > 0 \/ kept # {} => cred[i].status # "free"

\* Every command ends, whatever the server, the other processes of the machine
\* and the wrapped command do.
CommandsEnd == \A p \in Procs : proc[p].pc # "idle" ~> proc[p].pc = "idle"
=============================================================================
