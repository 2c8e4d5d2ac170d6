----------------------------- MODULE AuditChain -----------------------------
(***************************************************************************)
(* The audit log: write_event and the readers of backend/audit/store.py,   *)
(* hash_event and verify_chain of backend/audit/chain.py, query_trail and  *)
(* verify_day of backend/audit/foia.py.                                    *)
(*                                                                         *)
(* There is one JSONL file a day.  All writers run on the event loop and   *)
(* write_event has no await, so a write is one step, with several ends:    *)
(* the append may raise before or in the middle of the line (a full disk,  *)
(* a power cut), inside a multi-byte character too, because the events are *)
(* written with ensure_ascii=False.  _last_hash has moved on by then.      *)
(*                                                                         *)
(* Hashes do not collide: the hash of an event is its number, and "" is 0. *)
(***************************************************************************)
EXTENDS Integers, Sequences, FiniteSets, SequencesExt, FiniteSetsExt

CONSTANTS
    MaxDay,        \* bound of the days of a behaviour
    MaxEvents,     \* bound of the events made
    MaxFailures    \* bound of the appends that raise

ASSUME BoundAssumption ==
    MaxDay \in Nat \ {0} /\ MaxEvents \in Nat /\ MaxFailures \in Nat

VARIABLES
    today,
    file,          \* the lines of each day's file
    lastHash,      \* _last_hash
    seeded,        \* _seeded
    made,          \* events made so far
    failed,        \* appends that raised (history)
    acked          \* events whose write_event returned (history)

chainVars == <<today, file, lastHash, seeded, made, failed, acked>>

Days == 1..MaxDay

(***************************************************************************)
(* A line is an event, one without its newline ("bare"), the beginning of  *)
(* one ("torn", or "cut" when it ends inside a character), or one of these *)
(* with the next event appended to it ("junk", "rotten").                  *)
(***************************************************************************)
Broken == {"bare", "torn", "cut"}
Spoiled == [bare |-> "junk", torn |-> "junk", cut |-> "rotten"]
Line == [kind : {"event", "bare", "torn", "cut", "junk", "rotten"},
         hash : Nat, prev : Nat]

\* The lines that are JSON.
Parsed == {"event", "bare"}
Bad(kind) == [kind |-> kind, hash |-> 0, prev |-> 0]

Unended(f) == f # <<>> /\ Last(f).kind \in Broken

\* Seeded fault: the file is opened with "w".
WithLineOnly(f, line) == <<line>>

\* Opening with "a" and writing a whole line, or a part of one.
WithLine(f, line) ==
    IF Unended(f) THEN Front(f) \o <<Bad(Spoiled[Last(f).kind])>> ELSE Append(f, line)

WithBroken(f, part) ==
    IF Unended(f)
    THEN Front(f) \o <<Bad(IF "cut" \in {Last(f).kind, part.kind} THEN "cut"
                          ELSE "torn")>>
    ELSE Append(f, part)

\* Reading a file with a character cut in two raises UnicodeDecodeError,
\* which none of the readers catches; a line that is not JSON is skipped.
Decodable(f) == \A i \in DOMAIN f : f[i].kind \notin {"cut", "rotten"}

ChainInit ==
    /\ today = 1
    /\ file = [d \in Days |-> <<>>]
    /\ lastHash = 0
    /\ seeded = FALSE
    /\ made = 0
    /\ failed = 0
    /\ acked = {}

NextDay ==
    /\ today < MaxDay
    /\ today' = today + 1
    /\ UNCHANGED <<file, lastHash, seeded, made, failed, acked>>

-----------------------------------------------------------------------------
(***************************************************************************)
(* _seed_from_disk, from the newest file to the oldest: a file ends the    *)
(* search when its last line is an event, or when it cannot be decoded; a  *)
(* file whose last line does not parse is passed over, with the events it  *)
(* holds.                                                                  *)
(***************************************************************************)
\* Seeded fault: only today's file is read.
SearchEndsToday ==
    {d \in Days : d = today /\ file[d] # <<>> /\ Last(file[d]).kind \in Parsed}

SearchEnds ==
    {d \in Days : /\ file[d] # <<>>
                  /\ ~Decodable(file[d]) \/ Last(file[d]).kind \in Parsed}

SeedRaises == SearchEnds # {} /\ ~Decodable(file[Max(SearchEnds)])

SeedHash == IF SearchEnds = {} THEN 0 ELSE Last(file[Max(SearchEnds)]).hash

\* What the next event is chained to.
Prev == IF seeded THEN lastHash ELSE SeedHash

\* Seeded fault: the file of the next day in another time zone.
DailyPathAhead == IF today < MaxDay THEN today + 1 ELSE today

DailyPath == today

(***************************************************************************)
(* write_event, seeding first if the process has not done so.              *)
(***************************************************************************)
MakeEvent ==
    /\ made < MaxEvents
    /\ seeded \/ ~SeedRaises
    /\ seeded' = TRUE
    /\ made' = made + 1
    /\ lastHash' = made + 1

Event == [kind |-> "event", hash |-> made + 1, prev |-> Prev]

Write ==
    /\ MakeEvent
    /\ file' = [file EXCEPT ![DailyPath] = WithLine(@, Event)]
    /\ acked' = acked \cup {made + 1}
    /\ UNCHANGED <<today, failed>>

\* The file cannot be opened: nothing is written.
WriteRaises ==
    /\ failed < MaxFailures
    /\ MakeEvent
    /\ failed' = failed + 1
    /\ UNCHANGED <<today, file, acked>>

\* Part of the line is written, or all of it but the newline.
Part(kind) == IF kind = "bare" THEN [Event EXCEPT !.kind = kind] ELSE Bad(kind)

WriteBreaks(kind) ==
    /\ failed < MaxFailures
    /\ MakeEvent
    /\ file' = [file EXCEPT ![DailyPath] = WithBroken(@, Part(kind))]
    /\ failed' = failed + 1
    /\ UNCHANGED <<today, acked>>

\* The seeding raises; it is not tried again, and the chain starts anew.
SeedFails ==
    /\ made < MaxEvents
    /\ ~seeded
    /\ SeedRaises
    /\ seeded' = TRUE
    /\ UNCHANGED <<today, file, lastHash, made, failed, acked>>

Restart ==
    /\ lastHash' = 0
    /\ seeded' = FALSE
    /\ UNCHANGED <<today, file, made, failed, acked>>

ChainNext ==
    \/ NextDay
    \/ Write
    \/ WriteRaises
    \/ \E kind \in Broken : WriteBreaks(kind)
    \/ SeedFails
    \/ Restart

ChainSpec == ChainInit /\ [][ChainNext]_chainVars

-----------------------------------------------------------------------------
(***************************************************************************)
(* read_range over the files that can be read, and verify_chain: the       *)
(* events, by day and line, that do not follow the one read before them.   *)
(***************************************************************************)
EventsOf(d) == {i \in DOMAIN file[d] : file[d][i].kind \in Parsed}

ReadRange == UNION {{d} \X EventsOf(d) : d \in {e \in Days : Decodable(file[e])}}

Before(p, q) == p[1] < q[1] \/ (p[1] = q[1] /\ p[2] < q[2])

LineAt(p) == file[p[1]][p[2]]

ReadNext(p, q) ==
    /\ Before(p, q)
    /\ ~\E r \in ReadRange : Before(p, r) /\ Before(r, q)

Breaks == {q \in ReadRange :
              \E p \in ReadRange : ReadNext(p, q) /\ LineAt(q).prev # LineAt(p).hash}

-----------------------------------------------------------------------------
(***************************************************************************)
(* Every variable has its type; no file is written ahead of its day.       *)
(***************************************************************************)
ChainTypeOK ==
    /\ today \in Days
    /\ file \in [Days -> Seq(Line)]
    /\ lastHash \in 0..made
    /\ seeded \in BOOLEAN
    /\ made \in 0..MaxEvents
    /\ failed \in 0..MaxFailures
    /\ acked \subseteq 1..made
    /\ \A d \in Days : d > today => file[d] = <<>>

(***************************************************************************)
(* Restarts and the change of the day do not break the chain: what         *)
(* verify_chain reports about the readable files, are appends that raised, *)
(* and there are no more breaks than those.                                *)
(***************************************************************************)
BreaksAreFailures == Cardinality(Breaks) <= failed

(***************************************************************************)
(* A broken line costs at most one event whose write returned, the one     *)
(* appended to it, as long as no line is cut inside a character (then the  *)
(* whole day cannot be read).                                              *)
(***************************************************************************)
Readable == {LineAt(p).hash : p \in ReadRange}

LossIsBounded ==
    (\A d \in Days : Decodable(file[d])) => Cardinality(acked \ Readable) <= failed

=============================================================================
