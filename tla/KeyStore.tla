------------------------------ MODULE KeyStore ------------------------------
(***************************************************************************)
(* API keys (auth/key_store.py) as two kinds of process use them: the      *)
(* server, which validates the Bearer tokens of requests and of the        *)
(* WebSocket's first message (middleware/auth.py), and the command line    *)
(* (auth/cli.py), whose every command is a process of its own.  They share *)
(* one file and nothing guards it: a save truncates and then writes it,    *)
(* and the server reloads it when its modification time has grown.         *)
(*                                                                         *)
(* A key stands for its hash, its id and its entry; last_used_at is left   *)
(* out, the save it causes is not.  The clock is the one that stamps       *)
(* files; two writes may fall into one tick of it.  No API_KEY is set: it  *)
(* is an admin's, beside the table, and ends all anonymous reading.        *)
(***************************************************************************)
EXTENDS Naturals, FiniteSets

CONSTANTS
    Key,           \* API keys
    NoKey,         \* no key, or no header
    Cli,           \* processes of the command line
    MaxTime,       \* bound of the clock
    MaxKills       \* bound of the processes killed

ASSUME KeyAssumption == NoKey \notin Key
ASSUME BoundsAssumption == MaxTime \in Nat \ {0} /\ MaxKills \in Nat

VARIABLES
    file,          \* content and modification time of keys.json
    clock,         \* ticks of the clock
    server,        \* KeyStore of the server: _keys, _mtime and its request
    cli,           \* KeyStore and command of each process
    made,          \* keys a command ever generated
    revoked,       \* keys of which the command line printed "revoked"
    valid,         \* keys shown to the user and not revoked
    answer,        \* last answer of the server
    faults,        \* what happened that a single user does not see
    kills          \* processes killed so far

vars == <<file, clock, server, cli, made, revoked, valid, answer, faults, kills>>

\* No file, one without its end and one with more than a table are no tables.
Content == [state : {"missing", "torn", "mixed"}, keys : {{}}]
             \cup [state : {"whole"}, keys : SUBSET Key]

Whole(keys) == [state |-> "whole", keys |-> keys]
Torn == [state |-> "torn", keys |-> {}]
Mixed == [state |-> "mixed", keys |-> {}]

Idle == [op |-> "idle", key |-> NoKey, table |-> {}]

\* Who the last request came from, and what was true of its key and of any.
NoAnswer == [who |-> "nobody", token |-> FALSE, valid |-> FALSE,
             lapsed |-> FALSE, locked |-> FALSE]

Init ==
    /\ file = [content |-> [state |-> "missing", keys |-> {}], mtime |-> 0]
    /\ clock = 1
    /\ server = [pc |-> "idle", table |-> {}, mtime |-> 0, key |-> NoKey,
                 lapsed |-> FALSE]
    /\ cli = [c \in Cli |-> Idle]
    /\ made = {} /\ revoked = {} /\ valid = {}
    /\ answer = NoAnswer
    /\ faults = {}
    /\ kills = 0

people == <<made, revoked, valid>>

-----------------------------------------------------------------------------
Tick ==
    /\ clock < MaxTime
    /\ clock' = clock + 1
    /\ UNCHANGED <<file, server, cli, people, answer, faults, kills>>

\* What _load makes of the file; a file that does not parse changes nothing.
Loaded(table) == IF file.content.state = "whole" THEN file.content.keys ELSE table

Write(content) == file' = [content |-> content, mtime |-> clock]

\* A writer writes from the beginning: when another one has written since both
\* truncated the file, the end of a longer table stays behind its own.
Left(keys) == IF file.content.state = "torn" THEN {Whole(keys)}
              ELSE {Whole(keys), Mixed}

Overwrite(keys) == \E content \in Left(keys) : Write(content)

\* What a killed process leaves of its save: nothing, a part or all of it.
CutOff(saving, keys) ==
    \/ UNCHANGED file
    \/ saving /\ \E content \in {Whole(keys), Mixed} : Write(content)

\* The file changes again in the tick in which the server has seen it.
Tied == IF file.mtime = clock /\ server.mtime = clock THEN {"tie"} ELSE {}

-----------------------------------------------------------------------------
(***************************************************************************)
(* The server.  validate is synchronous: one request at a time, whose      *)
(* system calls interleave with those of the command line.                 *)
(***************************************************************************)
\* Another process is at work while this one starts.
Crowd == IF server.pc # "idle" \/ \E c \in Cli : cli[c].op # "idle"
         THEN {"overlap"} ELSE {}

\* Seeded fault: a file that was loaded once is not looked at again.
RequestOnce(k) ==
    /\ server.pc = "idle"
    /\ server' = [server EXCEPT !.key = k, !.lapsed = k \in revoked,
                       !.pc = IF file.mtime > 0 /\ server.mtime = 0
                              THEN "stat" ELSE "lookup"]
    /\ faults' = faults \cup Crowd
    /\ UNCHANGED <<file, clock, cli, people, answer, kills>>

\* A request with a token: _ensure_fresh compares the times.
Request(k) ==
    /\ server.pc = "idle"
    /\ server' = [server EXCEPT !.key = k, !.lapsed = k \in revoked,
                       !.pc = IF file.mtime > server.mtime THEN "stat"
                              ELSE "lookup"]
    /\ faults' = faults \cup Crowd
    /\ UNCHANGED <<file, clock, cli, people, answer, kills>>

\* Seeded fault: the time of the load, not of the file.
LoadStatNow ==
    /\ server.pc = "stat"
    /\ server' = [server EXCEPT !.mtime = clock, !.pc = "read"]
    /\ UNCHANGED <<file, clock, cli, people, answer, faults, kills>>

\* _load: the time first, the content after it.
LoadStat ==
    /\ server.pc = "stat"
    /\ server' = [server EXCEPT !.mtime = file.mtime, !.pc = "read"]
    /\ UNCHANGED <<file, clock, cli, people, answer, faults, kills>>

LoadRead ==
    /\ server.pc = "read"
    /\ server' = [server EXCEPT !.table = Loaded(@), !.pc = "lookup"]
    /\ UNCHANGED <<file, clock, cli, people, answer, faults, kills>>

Answered(who) ==
    /\ answer' = [who |-> who, token |-> TRUE, valid |-> server.key \in valid,
                  lapsed |-> server.lapsed, locked |-> valid # {}]
    /\ server' = [server EXCEPT !.pc = "idle", !.key = NoKey, !.lapsed = FALSE]

\* An unknown key is nobody's, and anonymous reads only without any keys.
Refuse ==
    /\ server.pc = "lookup"
    /\ server.key \notin server.table
    /\ Answered(IF server.table = {} THEN "viewer" ELSE "refused")
    /\ UNCHANGED <<file, clock, cli, people, faults, kills>>

\* A known key is saved with the whole table, for its last_used_at.
SaveUse ==
    /\ server.pc = "lookup"
    /\ server.key \in server.table
    /\ Write(Torn)
    /\ server' = [server EXCEPT !.pc = "write"]
    /\ UNCHANGED <<clock, cli, people, answer, faults, kills>>

Grant ==
    /\ server.pc = "write"
    /\ Overwrite(server.table)
    /\ Answered("owner")
    /\ UNCHANGED <<clock, cli, people, faults, kills>>

\* A request without a token never looks at the file.
RequestPlain ==
    /\ server.pc = "idle"
    /\ answer' = [NoAnswer EXCEPT !.locked = valid # {},
                        !.who = IF server.table = {} THEN "viewer" ELSE "refused"]
    /\ UNCHANGED <<file, clock, server, cli, people, faults, kills>>

\* Seeded fault: the time of the start, not of the file.
RestartNow ==
    /\ kills < MaxKills
    /\ kills' = kills + 1
    /\ CutOff(server.pc = "write", server.table)
    /\ server' = [pc |-> "idle", key |-> NoKey, lapsed |-> FALSE,
                  table |-> Loaded({})', mtime |-> clock]
    /\ faults' = IF file.content.state = "torn" THEN faults \cup {"kill"}
                 ELSE faults
    /\ UNCHANGED <<clock, cli, people, answer>>

\* The server is killed and started again.
Restart ==
    /\ kills < MaxKills
    /\ kills' = kills + 1
    /\ CutOff(server.pc = "write", server.table)
    /\ server' = [pc |-> "idle", key |-> NoKey, lapsed |-> FALSE,
                  table |-> Loaded({})',
                  mtime |-> IF file.content.state = "missing" THEN 0
                            ELSE file'.mtime]
    /\ faults' = IF file.content.state = "torn" THEN faults \cup {"kill"}
                 ELSE faults
    /\ UNCHANGED <<clock, cli, people, answer>>

-----------------------------------------------------------------------------
(***************************************************************************)
(* The command line: load, change the table, truncate, write, print.       *)
(***************************************************************************)
Start(c, op, k) ==
    /\ cli[c].op = "idle"
    /\ cli' = [cli EXCEPT ![c] = [op |-> op, key |-> k, table |-> Loaded({})]]
    /\ faults' = faults \cup Crowd

StartAdd(c, k) ==
    /\ k \notin made
    /\ made' = made \cup {k}
    /\ Start(c, "add", k)
    /\ UNCHANGED <<file, clock, server, revoked, valid, answer, kills>>

\* An id that is not in the table is "not found" and nothing is saved.
StartRevoke(c, k) ==
    /\ k \in Loaded({})
    /\ Start(c, "revoke", k)
    /\ UNCHANGED <<file, clock, server, people, answer, kills>>

Truncate(c) ==
    /\ cli[c].op \in {"add", "revoke"}
    /\ cli' = [cli EXCEPT ![c].op = IF @ = "add" THEN "added" ELSE "dropped",
                          ![c].table = IF cli[c].op = "add" THEN @ \cup {cli[c].key}
                                       ELSE @ \ {cli[c].key}]
    /\ Write(Torn)
    /\ faults' = faults \cup Tied
    /\ UNCHANGED <<clock, server, people, answer, kills>>

Finish(c) ==
    /\ Overwrite(cli[c].table)
    /\ cli' = [cli EXCEPT ![c] = Idle]
    /\ faults' = faults \cup Tied
    /\ UNCHANGED <<clock, server, made, answer, kills>>

\* The key is shown, once.
FinishAdd(c) ==
    /\ cli[c].op = "added"
    /\ valid' = valid \cup {cli[c].key}
    /\ Finish(c)
    /\ UNCHANGED revoked

\* "Key ... revoked."
FinishRevoke(c) ==
    /\ cli[c].op = "dropped"
    /\ revoked' = revoked \cup {cli[c].key}
    /\ valid' = valid \ {cli[c].key}
    /\ Finish(c)

Kill(c) ==
    /\ kills < MaxKills
    /\ cli[c].op # "idle"
    /\ kills' = kills + 1
    /\ cli' = [cli EXCEPT ![c] = Idle]
    /\ CutOff(cli[c].op \in {"added", "dropped"}, cli[c].table)
    /\ faults' = IF cli[c].op \in {"added", "dropped"}
                 THEN faults \cup {"kill"} \cup Tied ELSE faults
    /\ UNCHANGED <<clock, server, people, answer>>

Next ==
    \/ Tick \/ LoadStat \/ LoadRead \/ Refuse \/ SaveUse \/ Grant
    \/ RequestPlain \/ Restart
    \/ \E k \in Key : Request(k)
    \/ \E c \in Cli :
          \/ \E k \in Key : StartAdd(c, k) \/ StartRevoke(c, k)
          \/ Truncate(c) \/ FinishAdd(c) \/ FinishRevoke(c) \/ Kill(c)

Spec == Init /\ [][Next]_vars

-----------------------------------------------------------------------------
(***************************************************************************)
(* Types; nobody's table holds a key that was never generated, and the     *)
(* server never believes in a file younger than the one there is.          *)
(***************************************************************************)
TypeOK ==
    /\ file \in [content : Content, mtime : 0..clock]
    /\ clock \in 1..MaxTime
    /\ server.pc \in {"idle", "stat", "read", "lookup", "write"}
    /\ server.table \subseteq made
    /\ server.mtime \in 0..file.mtime
    /\ file.content.keys \subseteq made
    /\ \A c \in Cli :
          /\ cli[c].op \in {"idle", "add", "revoke", "added", "dropped"}
          /\ cli[c].table \subseteq made
    /\ valid \subseteq made /\ revoked \subseteq made \ valid

(***************************************************************************)
(* A table that differs from the file is noticed by the next request with  *)
(* a token ("Reload from disk if file was modified since last load"),      *)
(* however saves and loads interleave and whoever dies within a save,      *)
(* unless two writes fell into one tick.                                   *)
(***************************************************************************)
StaleIsNoticed ==
    /\ "tie" \notin faults
    /\ server.pc = "idle"
    /\ file.content.state = "whole"
    /\ server.table # file.content.keys
    => file.mtime > server.mtime

(***************************************************************************)
(* Used by one person at a time, the store is exact: a token is accepted   *)
(* if and only if its key was shown and not revoked.  Killing a process    *)
(* outside a save changes nothing.                                         *)
(***************************************************************************)
SequentialUseIsExact ==
    faults = {} /\ answer.token => (answer.who = "owner" <=> answer.valid)

(***************************************************************************)
(* "Key ... revoked.": a request that comes after it is not granted that   *)
(* key, if no two writes fell into one tick.                               *)
(***************************************************************************)
RevokedIsRefused ==
    "tie" \notin faults /\ answer.who = "owner" => ~answer.lapsed

=============================================================================
