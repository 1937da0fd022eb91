----------------------------- MODULE PolicyGate -----------------------------
(***************************************************************************)
(* What the gateway promises about policy, said without caches, rows or    *)
(* routes: a prompt reaches a model only when every check let that model   *)
(* have it at some moment of the request, and an answer is remembered only *)
(* under the model that gave it.  GatewayPolicy implements this module.    *)
(***************************************************************************)
CONSTANTS Requests, Models, Prompts, None

Checks == {"model", "residency", "detectors", "patterns", "content"}
Questions == Prompts \X Models

VARIABLES
    permits,    \* the questions each check lets pass now
    asked,      \* the prompt of an open request and the model it names
    approved,   \* what was permitted to an open request while it was open
    at,         \* the model that has been handed the prompt
    told,       \* did the last reply carry an answer?
    memory      \* the questions whose answer is remembered

gate == <<permits, asked, approved, at, told, memory>>

Open(r) == asked[r] # None

GateInit ==
    /\ permits \in [Checks -> SUBSET Questions]
    /\ asked = [r \in Requests |-> None]
    /\ approved = [r \in Requests |-> {}]
    /\ at = [r \in Requests |-> None]
    /\ told = [r \in Requests |-> FALSE]
    /\ memory = {}

Ask(r, q) ==
    /\ ~Open(r)
    /\ asked' = [asked EXCEPT ![r] = q]
    /\ UNCHANGED <<permits, approved, at, told, memory>>

\* The checks cs let the request's prompt go to every model in ms.
Approve(r, cs, ms) ==
    /\ Open(r)
    /\ approved' = [approved EXCEPT ![r] = @ \cup (cs \X ms)]
    /\ \A c \in cs, m \in ms : <<asked[r][1], m>> \in permits[c]
    /\ UNCHANGED <<asked, at, told, memory, permits>>

Send(r, m) ==
    /\ Open(r)
    /\ Checks \X {m} \subseteq approved[r]
    /\ at' = [at EXCEPT ![r] = m]
    /\ UNCHANGED <<permits, asked, approved, told, memory>>

\* The model failed: another one may be tried.
TakeBack(r) ==
    /\ at' = [at EXCEPT ![r] = None]
    /\ UNCHANGED <<permits, asked, approved, told, memory>>

Close(r, answered) ==
    /\ asked' = [asked EXCEPT ![r] = None]
    /\ approved' = [approved EXCEPT ![r] = {}]
    /\ at' = [at EXCEPT ![r] = None]
    /\ told' = [told EXCEPT ![r] = answered]
    /\ UNCHANGED permits

Refuse(r) == Close(r, FALSE) /\ UNCHANGED memory

Answer(r) == at[r] # None /\ Close(r, TRUE) /\ UNCHANGED memory

\* An answer is kept under the question it was asked, and only when the
\* model of that question gave it.
Remember(r) ==
    /\ Open(r) /\ at[r] = asked[r][2]
    /\ memory' = memory \cup {asked[r]}
    /\ Close(r, TRUE)

\* A remembered answer goes only to a caller who may use the model now.
Recall(r) ==
    /\ Open(r) /\ asked[r] \in memory
    /\ <<"model", asked[r][2]>> \in approved[r]
    /\ Close(r, TRUE)
    /\ UNCHANGED memory

Change ==
    /\ UNCHANGED <<asked, approved, at, told, memory>>
    /\ permits' \in [Checks -> SUBSET Questions]

Forget ==
    /\ UNCHANGED <<asked, approved, at, told, permits>>
    /\ memory' \in SUBSET memory

GateNext ==
    \/ Change
    \/ Forget
    \/ \E r \in Requests :
        \/ TakeBack(r) \/ Refuse(r) \/ Answer(r) \/ Remember(r) \/ Recall(r)
        \/ \E q \in Questions : Ask(r, q)
        \/ \E m \in Models : Send(r, m)
        \/ \E cs \in SUBSET Checks, ms \in SUBSET Models : Approve(r, cs, ms)

GateSpec == GateInit /\ [][GateNext]_gate
=============================================================================
