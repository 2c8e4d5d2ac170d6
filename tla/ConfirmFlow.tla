---------------------------- MODULE ConfirmFlow ----------------------------
(***************************************************************************)
(* Human confirmation of write operations: PendingStore (backend/deps.py)  *)
(* with its JSON file, the handler of POST /api/confirm                    *)
(* (backend/routers/confirm.py), IdempotencyGuard                          *)
(* (backend/security/idempotency.py) and the execution gateway             *)
(* (backend/security/execution_gateway.py).                                *)
(*                                                                         *)
(* The handlers contain no await, so the event loop runs one of them at a  *)
(* time; what can come between two of its steps is the clock, an exception *)
(* (a save or an audit append that raises OSError) and the death of the    *)
(* process, after which the table is loaded from the file and the          *)
(* idempotency keys are gone.                                              *)
(*                                                                         *)
(* An operation is one call of add; its event id may be one already in     *)
(* use, because Guardrail takes the id of the LLM's answer when it has     *)
(* one.  The capability check of the gateway is one step here, granted or  *)
(* refused; CapabilityToken models it.                                     *)
(***************************************************************************)
EXTENDS Integers, FiniteSets

CONSTANTS
    Op,            \* proposed operations
    Event,         \* event ids
    User,          \* authenticated users
    Role,          \* role of each user
    Key,           \* idempotency keys a client may send
    NoKey,         \* an empty idempotency_key
    NoRequest,     \* no confirm request is being handled
    NoJob,         \* no entry has been popped
    PendingTtl,    \* PENDING_TTL
    IdemTtl,       \* IdempotencyGuard._ttl
    MaxClock       \* bound of the clock

ASSUME TtlAssumption == PendingTtl \in Nat /\ IdemTtl \in Nat /\ MaxClock \in Nat
ASSUME RoleAssumption == Role \in [User -> {"viewer", "operator", "admin"}]

VARIABLES
    clock,
    memory,        \* PendingStore._items
    file,          \* the file: its items, and whether it is truncated
    saving,        \* progress of _save: "no", "open" (about to), "write"
    stage,         \* where the running handler stands
    request,       \* the confirm request
    job,           \* the entry the handler popped
    idem,          \* IdempotencyGuard._store
    used,          \* operations proposed so far
    effects,       \* how often an operation reached the system (history)
    denied,        \* operations whose denial was answered (history)
    marked         \* key records marked executed by this process (history)

table == <<memory, file, saving>>
handler == <<stage, request, job>>
history == <<used, effects, denied, marked>>
vars == <<clock, table, handler, idem, history>>

Entry == [event : Event, op : Op, owner : User, created : Nat]
File == [torn : BOOLEAN, items : SUBSET Entry]
Request == [event : Event, user : User, confirmed : BOOLEAN,
            key : Key \cup {NoKey}, at : Nat]
KeyRecord == [key : Key, created : Nat, executed : BOOLEAN]
Stage == {"idle", "proposing", "arrived", "refused", "claimed", "cleared", "ran"}

ASSUME NullAssumption ==
    NoKey \notin Key /\ NoRequest \notin Request /\ NoJob \notin Entry

\* _load: a file that does not parse leaves the table empty (one that ends
\* inside a character keeps the process from starting until it is removed,
\* which comes to the same).
Load(f) == IF f.torn THEN {} ELSE f.items

Ops(entries) == {e.op : e \in entries}

\* The end of a handler, with an answer or with an exception.
Finish ==
    /\ stage' = "idle"
    /\ request' = NoRequest
    /\ job' = NoJob

Init ==
    /\ clock = 0
    /\ memory = {}
    /\ file = [torn |-> FALSE, items |-> {}]
    /\ saving = "no"
    /\ stage = "idle"
    /\ request = NoRequest
    /\ job = NoJob
    /\ idem = {}
    /\ used = {}
    /\ effects = [o \in Op |-> 0]
    /\ denied = {}
    /\ marked = {}

Tick ==
    /\ clock < MaxClock
    /\ clock' = clock + 1
    /\ UNCHANGED <<table, handler, idem, history>>

-----------------------------------------------------------------------------
(***************************************************************************)
(* PendingStore._save: open(path, "w") truncates, json.dump writes.        *)
(***************************************************************************)
SaveOpen ==
    /\ saving = "open"
    /\ file' = [torn |-> TRUE, items |-> {}]
    /\ saving' = "write"
    /\ UNCHANGED <<clock, memory, handler, idem, history>>

SaveWrite ==
    /\ saving = "write"
    /\ file' = [torn |-> FALSE, items |-> memory]
    /\ saving' = "no"
    /\ UNCHANGED <<clock, memory, handler, idem, history>>

-----------------------------------------------------------------------------
(***************************************************************************)
(* PendingStore.add, called by chat, stream, the agent loop and the MCP    *)
(* gateway for an operation that needs confirmation.                       *)
(***************************************************************************)
Propose(o, e, u) ==
    /\ stage = "idle"
    /\ o \notin used
    /\ Role[u] # "viewer"
    /\ memory' = {m \in memory : m.event # e} \cup
                   {[event |-> e, op |-> o, owner |-> u, created |-> clock]}
    /\ used' = used \cup {o}
    /\ saving' = "open"
    /\ stage' = "proposing"
    /\ UNCHANGED <<clock, file, request, job, idem, effects, denied,
                   marked>>

Proposed ==
    /\ stage = "proposing"
    /\ saving = "no"
    /\ Finish
    /\ UNCHANGED <<clock, table, idem, history>>

-----------------------------------------------------------------------------
(***************************************************************************)
(* POST /api/confirm.                                                      *)
(***************************************************************************)
Unexpired(entries) == {m \in entries : clock - m.created <= PendingTtl}

\* cleanup_pending, which saves only if it removed something.
Arrive(e, u, confirmed, k) ==
    /\ stage = "idle"
    /\ memory' = Unexpired(memory)
    /\ saving' = IF Unexpired(memory) = memory THEN "no" ELSE "open"
    /\ stage' = "arrived"
    /\ request' = [event |-> e, user |-> u, confirmed |-> confirmed, key |-> k,
                   at |-> clock]
    /\ UNCHANGED <<clock, file, job, idem, history>>

\* The owner decides, or an admin; a viewer never does.
MayDecide(u, entry) ==
    /\ Role[u] # "viewer"
    /\ u = entry.owner \/ Role[u] = "admin"

Candidates == {m \in memory : m.event = request.event}

\* Answers "denied" (viewer, not the owner) or "not_found".
Reject ==
    /\ stage = "arrived"
    /\ saving = "no"
    /\ \A m \in Candidates : ~MayDecide(request.user, m)
    /\ Finish
    /\ UNCHANGED <<clock, table, idem, history>>

\* Seeded fault: compare_and_pop changes the table in memory only.
PopUnsaved(m) ==
    /\ stage = "arrived"
    /\ saving = "no"
    /\ m \in Candidates
    /\ MayDecide(request.user, m)
    /\ memory' = memory \ {m}
    /\ job' = m
    /\ stage' = IF request.confirmed THEN "claimed" ELSE "refused"
    /\ UNCHANGED <<clock, file, saving, request, idem, history>>

\* compare_and_pop: the entry leaves the table and the table is saved, before
\* anything else is done for an approval, and before a denial is answered.
Pop(m) ==
    /\ stage = "arrived"
    /\ saving = "no"
    /\ m \in Candidates
    /\ MayDecide(request.user, m)
    /\ memory' = memory \ {m}
    /\ job' = m
    /\ stage' = IF request.confirmed THEN "claimed" ELSE "refused"
    /\ saving' = "open"
    /\ UNCHANGED <<clock, file, request, idem, history>>

\* Seeded fault: the denial is answered while the save is still to be done.
AnswerDenialEarly ==
    /\ stage = "refused"
    /\ denied' = denied \cup {job.op}
    /\ Finish
    /\ UNCHANGED <<clock, table, idem, used, effects, marked>>

AnswerDenial ==
    /\ stage = "refused"
    /\ saving = "no"
    /\ denied' = denied \cup {job.op}
    /\ Finish
    /\ UNCHANGED <<clock, table, idem, used, effects, marked>>

\* Seeded fault: a key is evicted at its TTL, not after it.
LiveKeysShort == {r \in idem : clock - r.created < IdemTtl}

\* check_or_record, which first evicts the expired keys.
LiveKeys == {r \in idem : clock - r.created <= IdemTtl}
Executed(k) == \E r \in LiveKeys : r.key = k /\ r.executed

\* "idempotency_blocked": the popped entry is not put back.
CheckKeyDuplicate ==
    /\ stage = "claimed"
    /\ saving = "no"
    /\ request.key # NoKey
    /\ Executed(request.key)
    /\ idem' = LiveKeys
    /\ Finish
    /\ UNCHANGED <<clock, table, history>>

\* Seeded fault: an empty idempotency_key is recorded like any other.
CheckKeyAlways ==
    /\ stage = "claimed"
    /\ saving = "no"
    /\ request.key = NoKey \/ ~Executed(request.key)
    /\ idem' = LiveKeys \cup {[key |-> request.key, created |-> clock,
                               executed |-> FALSE]}
    /\ stage' = "cleared"
    /\ UNCHANGED <<clock, table, request, job, history>>

CheckKeyNew ==
    /\ stage = "claimed"
    /\ saving = "no"
    /\ request.key = NoKey \/ ~Executed(request.key)
    /\ idem' = IF request.key = NoKey THEN idem
               ELSE IF \E r \in LiveKeys : r.key = request.key THEN LiveKeys
               ELSE LiveKeys \cup {[key |-> request.key, created |-> clock,
                                    executed |-> FALSE]}
    /\ stage' = "cleared"
    /\ UNCHANGED <<clock, table, request, job, history>>

\* Seeded fault: a blocked approval is put back to be tried again.
BlockedPutBack ==
    /\ stage = "cleared"
    /\ memory' = memory \cup {job}
    /\ Finish
    /\ UNCHANGED <<clock, file, saving, idem, history>>

\* The path, critical-file, pid and scope checks after the claim: the target
\* changed, or the scope saved at validation no longer matches.
Blocked ==
    /\ stage = "cleared"
    /\ Finish
    /\ UNCHANGED <<clock, table, idem, history>>

\* execute_tool with a fresh token: the runtime is called, or the gateway
\* refuses (its token was not consumed); the handler goes on either way.
Execute ==
    /\ stage = "cleared"
    /\ effects' = [effects EXCEPT ![job.op] = @ + 1]
    /\ stage' = "ran"
    /\ UNCHANGED <<clock, table, request, job, idem, used, denied,
                   marked>>

GatewayRefuses ==
    /\ stage = "cleared"
    /\ stage' = "ran"
    /\ UNCHANGED <<clock, table, request, job, idem, history>>

\* mark_executed, whatever the exit code, and the answer.
Answer ==
    /\ stage = "ran"
    /\ idem' = {IF r.key = request.key THEN [r EXCEPT !.executed = TRUE] ELSE r :
                  r \in idem}
    /\ marked' = marked \cup {r \in idem' : r.key = request.key}
    /\ Finish
    /\ UNCHANGED <<clock, table, used, effects, denied>>

-----------------------------------------------------------------------------
\* An exception leaves the handler: a save, or an append to the audit file.
Raise ==
    /\ stage # "idle"
    /\ saving' = "no"
    /\ Finish
    /\ UNCHANGED <<clock, memory, file, idem, used, effects, denied, marked>>

\* The process dies and is started again.
Restart ==
    /\ memory' = Load(file)
    /\ saving' = "no"
    /\ idem' = {}
    /\ marked' = {}
    /\ Finish
    /\ UNCHANGED <<clock, file, used, effects, denied>>

Next ==
    \/ Tick
    \/ SaveOpen
    \/ SaveWrite
    \/ \E o \in Op, e \in Event, u \in User : Propose(o, e, u)
    \/ Proposed
    \/ \E e \in Event, u \in User, c \in BOOLEAN, k \in Key \cup {NoKey} :
          Arrive(e, u, c, k)
    \/ Reject
    \/ \E m \in memory : Pop(m)
    \/ AnswerDenial
    \/ CheckKeyDuplicate
    \/ CheckKeyNew
    \/ Blocked
    \/ Execute
    \/ GatewayRefuses
    \/ Answer
    \/ Raise
    \/ Restart

Spec == Init /\ [][Next]_vars

-----------------------------------------------------------------------------
\* Every variable has its type: the table, its file and the key store hold
\* only entries and keys a client sent.
TypeOK ==
    /\ clock \in Nat
    /\ memory \in SUBSET Entry
    /\ file \in File
    /\ saving \in {"no", "open", "write"}
    /\ stage \in Stage
    /\ request \in Request \cup {NoRequest}
    /\ job \in Entry \cup {NoJob}
    /\ idem \in SUBSET KeyRecord
    /\ used \in SUBSET Op
    /\ effects \in [Op -> Nat]
    /\ denied \in SUBSET Op
    /\ marked \in SUBSET KeyRecord

\* However requests, exceptions and restarts interleave, a proposed operation
\* reaches the system at most once ("Atomic event consumption comes before
\* all execution work", confirm.py).
ExecutedAtMostOnce == \A o \in Op : effects[o] <= 1

\* An operation whose denial the user was told of has not run and never will,
\* a restart from the file included.
DenialIsFinal == \A o \in denied : effects[o] = 0

\* What is executed had not outlived PENDING_TTL when it was approved, and
\* within one process a key whose execution was answered runs nothing again
\* until its record is older than the TTL of keys.
ExecutesInTime ==
    [][Execute =>
          /\ request.at - job.created <= PendingTtl
          /\ \A r \in marked :
                r.key = request.key => clock - r.created > IdemTtl]_vars

-----------------------------------------------------------------------------
(***************************************************************************)
(* The approval of an operation as the specification Approval sees it.  A  *)
(* claim counts once the table without the entry is in the file; until     *)
(* then a restart brings the entry back.                                   *)
(***************************************************************************)
Waiting(o) ==
    \/ o \in Ops(memory)
    \/ o \in Ops(Load(file))
    \/ saving # "no" /\ job # NoJob /\ job.op = o

StatusOf(o) ==
    CASE effects[o] > 0 -> "executed"
      [] /\ effects[o] = 0
         /\ stage \in {"claimed", "cleared", "ran"}
         /\ saving = "no"
         /\ job.op = o -> "claimed"
      [] OTHER -> IF Waiting(o) THEN "pending"
                  ELSE IF o \in used THEN "dropped" ELSE "unseen"

Status == [o \in Op |-> StatusOf(o)]

A == INSTANCE Approval WITH status <- Status

\* The handler, the table and its file implement the approval of each
\* operation: every step is one step of Approval or none.
ImplementsApproval == A!Spec

=============================================================================
