------------------------------- MODULE ShadowAi -------------------------------
(***************************************************************************)
(* Shadow AI discovery: the configuration row, the list of known hosts,    *)
(* the ingest endpoint that keeps only events about enabled hosts, and the *)
(* background task that alerts on them.                                    *)
(*                                                                         *)
(* A PUT of the configuration reads the row, asks for a confirmation if    *)
(* the mode changes to an intrusive one, and writes: another PUT commits   *)
(* between the two.  The ingest and the alert read and write nothing back, *)
(* so each is one step.  A missing row acts as the defaults.               *)
(***************************************************************************)
EXTENDS Naturals, FiniteSets

CONSTANTS
    Hosts, EventIds, Editors,   \* Editors: PUTs of the configuration in flight
    Retentions,                 \* retention windows, in ticks
    InitialMode,
    None,
    MaxTime, MaxCommands, MaxTokens    \* bounds

ASSUME ShadowAssumption ==
    /\ \A S \in {Hosts, EventIds, Editors} : IsFiniteSet(S) /\ None \notin S
    /\ InitialMode \in {"detect_only", "notification", "webhook"}
    /\ Retentions # {} /\ Retentions \subseteq Nat
    /\ MaxTime \in Nat /\ MaxCommands \in Nat /\ MaxTokens \in Nat

Time == 0..MaxTime
Modes == {"detect_only", "notification", "webhook"}
Intrusive == Modes \ {"detect_only"}
Config == [mode : Modes, retention : Retentions, token : 0..MaxTokens]
Event == [status : {"free", "stored", "gone"}, host : Hosts \cup {None}, at : Time]
Edit == [pc : {"idle", "write"}, mode : Modes, retention : Retentions]
NoEdit == [pc |-> "idle", mode |-> "detect_only", retention |-> CHOOSE r \in Retentions : TRUE]

VARIABLES
    config,     \* shadow_ai_ingest_config
    known,      \* enabled known_ai_tool_hostnames
    event,      \* shadow_ai_ingest_events
    edit,
    alerting,   \* events whose background task has not run
    sent,       \* alerts delivered, with the mode they were delivered under
    confirmed,  \* history: the modes an administrator confirmed
    now, commands

shadowVars == <<config, known, event, edit, alerting, sent, confirmed>>

ShadowInit ==
    /\ config = [mode |-> InitialMode, token |-> 0,
                 retention |-> CHOOSE r \in Retentions : TRUE]
    /\ known = Hosts
    /\ event = [e \in EventIds |-> [status |-> "free", host |-> None, at |-> 0]]
    /\ edit = [x \in Editors |-> NoEdit]
    /\ alerting = {} /\ sent = {} /\ confirmed = {InitialMode}

Command == commands < MaxCommands /\ commands' = commands + 1

----------------------------------------------------------------------------
\* Faulty: only leaving detect_only counts as a transition.
NeedsConfirm_FirstOnly(mode) ==
    mode \in Intrusive /\ config.mode = "detect_only"
\* set_shadow_ai_config: is_intrusive and is_transition
NeedsConfirm(mode) ==
    mode \in Intrusive /\ config.mode # mode

IdleEditor == CHOOSE x \in Editors : edit[x].pc = "idle"
\* put_shadow_ai_config_endpoint up to the read of the row: 422 without the
\* confirmation, or for the webhook mode without a URL.
PutConfig(x, mode, retention) ==
    /\ Command /\ edit[x].pc = "idle" /\ x = IdleEditor
    /\ edit' = [edit EXCEPT ![x] = [pc |-> "write", mode |-> mode, retention |-> retention]]
    /\ confirmed' = IF NeedsConfirm(mode) THEN confirmed \cup {mode} ELSE confirmed
    /\ UNCHANGED <<config, known, event, alerting, sent>>

\* set_shadow_ai_config: the upsert replaces every column but the token's.
WriteConfig(x) ==
    /\ edit[x].pc = "write"
    /\ config' = [config EXCEPT !.mode = edit[x].mode, !.retention = edit[x].retention]
    /\ edit' = [edit EXCEPT ![x] = NoEdit]
    /\ UNCHANGED <<known, event, alerting, sent, confirmed>>

\* rotate_shadow_ai_ingest_token: the one before dies at once.
NewToken == config.token < MaxTokens /\ config' = [config EXCEPT !.token = @ + 1]
RotateIngestToken ==
    /\ Command /\ NewToken
    /\ UNCHANGED <<known, event, edit, alerting, sent, confirmed>>

\* A host that is disabled and one that is not listed are treated alike.
Enabled(hosts) == known' = hosts
OnlyHosts == UNCHANGED <<config, event, edit, alerting, sent, confirmed>>
AddHost(h) == Command /\ h \notin known /\ Enabled(known \cup {h}) /\ OnlyHosts
UpdateHost(h, on) ==
    /\ Command /\ Enabled(IF on THEN known \cup {h} ELSE known \ {h})
    /\ OnlyHosts
RemoveHost(h) == Command /\ Enabled(known \ {h}) /\ OnlyHosts

TokenMatches(token) == config.token # 0 /\ token = config.token
IngestAllowed(token) == TokenMatches(token)
\* partition_events_by_hostname_match
Kept(h) == h \in known

\* ingest_events: a row, with the time it is received.
Store(e, h) ==
    /\ event[e].status = "free"
    /\ event' = [event EXCEPT ![e] = [status |-> "stored", host |-> h, at |-> now]]
\* schedule_shadow_ai_enforcement
ScheduleAlert(e) == alerting' = alerting \cup {e}

\* One event; an event about any other host leaves no trace.
IngestEvent(token, e, h) ==
    /\ Command /\ IngestAllowed(token) /\ Kept(h)
    /\ Store(e, h) /\ ScheduleAlert(e)
    /\ UNCHANGED <<config, known, edit, sent, confirmed>>

\* deliver_shadow_ai_enforcement reads the mode and the event again.  Without
\* a mail server, or when the URL cannot be decrypted, nothing is sent.
DeliverAlert(e) ==
    /\ e \in alerting
    /\ alerting' = alerting \ {e}
    /\ \/ UNCHANGED sent
       \/ /\ config.mode \in Intrusive /\ event[e].status = "stored"
          /\ sent' = sent \cup {[event |-> e, mode |-> config.mode]}
    /\ UNCHANGED <<config, known, event, edit, confirmed>>

\* The background tasks and the PUTs in flight die with the process.
ShadowCrash ==
    /\ alerting' = {}
    /\ edit' = [x \in Editors |-> NoEdit]
    /\ UNCHANGED <<config, known, event, sent, confirmed>>

ShadowNext ==
    \/ \E x \in Editors, m \in Modes, r \in Retentions : PutConfig(x, m, r)
    \/ RotateIngestToken
    \/ \E h \in Hosts : AddHost(h)
    \/ \E h \in Hosts, b \in BOOLEAN : UpdateHost(h, b)
    \/ \E h \in Hosts : RemoveHost(h)
    \/ \E t \in 1..MaxTokens, e \in EventIds, h \in Hosts : IngestEvent(t, e, h)
    \/ (\E x \in Editors : WriteConfig(x)) /\ UNCHANGED commands
    \/ (\E e \in EventIds : DeliverAlert(e)) /\ UNCHANGED commands

----------------------------------------------------------------------------
\* No event is alerted on, and no intrusive mode is in force, under a mode
\* no administrator has confirmed, whatever PUTs overlap.
AlertsAreConfirmed ==
    /\ config.mode \in Intrusive => config.mode \in confirmed
    /\ \A alert \in sent : alert.mode \in confirmed
=============================================================================
