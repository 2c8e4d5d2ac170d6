--------------------------- MODULE KeyStoreProofs ---------------------------
(***************************************************************************)
(* Proofs about KeyStore, for any keys and processes of the command line   *)
(* and any bounds of the clock and of the processes killed.                *)
(***************************************************************************)
EXTENDS KeyStore, TLAPS

Ops == {"idle", "add", "revoke", "added", "dropped"}

CliType == [op : Ops, key : Key \cup {NoKey}, table : SUBSET Key]

ServerType ==
    [pc : {"idle", "stat", "read", "lookup", "write"}, table : SUBSET Key,
     mtime : Nat, key : Key \cup {NoKey}, lapsed : BOOLEAN]

AnswerType ==
    [who : {"nobody", "viewer", "refused", "owner"}, token : BOOLEAN,
     valid : BOOLEAN, lapsed : BOOLEAN, locked : BOOLEAN]

Typed ==
    /\ file \in [content : Content, mtime : Nat]
    /\ clock \in 1..MaxTime
    /\ server \in ServerType
    /\ cli \in [Cli -> CliType]
    /\ made \subseteq Key /\ valid \subseteq Key /\ revoked \subseteq Key
    /\ answer \in AnswerType
    /\ kills \in Nat

\* Times run forward.
Timed == server.mtime <= file.mtime /\ file.mtime <= clock

(***************************************************************************)
(* A key is known to the process that generated it alone until it is       *)
(* shown: this is why it cannot be revoked before.                         *)
(***************************************************************************)
Adding(c) == cli[c].op \in {"add", "added"}

Secret(c) ==
    /\ cli[c].key \in made \ (valid \cup revoked)
    /\ cli[c].key \notin file.content.keys \cup server.table
    /\ \A d \in Cli \ {c} :
          /\ cli[c].key \notin cli[d].table
          /\ cli[d].op # "idle" => cli[d].key # cli[c].key

KeysAreMade ==
    /\ server.table \subseteq made /\ file.content.keys \subseteq made
    /\ \A c \in Cli :
          /\ cli[c].table \subseteq made
          /\ cli[c].op # "idle" => cli[c].key \in made
          /\ Adding(c) => Secret(c)
    /\ valid \subseteq made /\ revoked \subseteq made \ valid

(***************************************************************************)
(* What the server believes in is what the file of that time holds, but    *)
(* between the two steps of a load.                                        *)
(***************************************************************************)
Believed ==
    /\ "tie" \notin faults
    /\ file.content.state = "whole"
    /\ server.pc # "read"
    /\ server.table # file.content.keys
    => file.mtime > server.mtime

(***************************************************************************)
(* One person at a time: one process at work, and whatever is not within a *)
(* save holds the valid keys.                                              *)
(***************************************************************************)
Saving == server.pc = "write" \/ \E c \in Cli : cli[c].op \in {"added", "dropped"}

Alone ==
    /\ server.pc # "idle" => \A c \in Cli : cli[c].op = "idle"
    /\ \A c, d \in Cli : cli[c].op # "idle" /\ cli[d].op # "idle" => c = d

HoldValid ==
    /\ file.content.state = "torn" <=> Saving
    /\ file.content.state # "mixed"
    /\ ~Saving => file.content.keys = valid
    /\ file.content.state = "missing" => server.table = {} /\ file.content.keys = {}
    /\ server.pc \in {"lookup", "write"} => server.table = valid
    /\ server.pc = "write" => server.key \in server.table
    /\ \A c \in Cli :
          /\ cli[c].op \in {"add", "revoke"} => cli[c].table = valid
          /\ cli[c].op = "added" => cli[c].table = valid \cup {cli[c].key}
          /\ cli[c].op = "dropped" => cli[c].table = valid \ {cli[c].key}

Sequential == faults = {} => Alone /\ HoldValid /\ SequentialUseIsExact

Inv == Typed /\ Timed /\ KeysAreMade /\ Believed /\ Sequential

-----------------------------------------------------------------------------
LEMMA Contents ==
    /\ Torn \in Content /\ Torn.state = "torn" /\ Torn.keys = {}
    /\ Mixed \in Content /\ Mixed.state = "mixed" /\ Mixed.keys = {}
    /\ \A keys \in SUBSET Key :
          Whole(keys) \in Content /\ Whole(keys).state = "whole" /\ Whole(keys).keys = keys
    /\ \A content \in Content :
          /\ content.keys \subseteq Key
          /\ content.state \in {"missing", "torn", "mixed", "whole"}
          /\ content.state # "whole" => content.keys = {}
  BY DEF Torn, Mixed, Whole, Content

LEMMA LoadedIsEither ==
    ASSUME Typed, NEW table \in SUBSET Key
    PROVE  /\ Loaded(table) \in SUBSET Key
           /\ Loaded(table) \subseteq table \cup file.content.keys
           /\ file.content.state = "whole" => Loaded(table) = file.content.keys
           /\ file.content.state # "whole" => Loaded(table) = table
  BY Contents DEF Typed, Loaded

\* A write keeps the file of its type and sets its time to now.
LEMMA Written ==
    ASSUME Typed, NEW content \in Content, Write(content)
    PROVE  /\ file' \in [content : Content, mtime : Nat]
           /\ file'.content = content /\ file'.mtime = clock
  BY DEF Typed, Write

\* What is in the file after a save, and after one that was cut off.
Leaves(content, keys) ==
    content \in Content /\ content \in {Whole(keys), Mixed} /\ Write(content)

LEMMA Overwritten ==
    ASSUME Typed, NEW keys \in SUBSET Key, Overwrite(keys)
    PROVE  \E content : /\ Leaves(content, keys)
                        /\ file.content.state = "torn" => content = Whole(keys)
  BY Contents DEF Overwrite, Left, Leaves

LEMMA CutOffLeaves ==
    ASSUME Typed, NEW keys \in SUBSET Key, NEW saving \in BOOLEAN,
           CutOff(saving, keys)
    PROVE  \/ UNCHANGED file
           \/ saving /\ \E content : Leaves(content, keys)
  <1>1. Whole(keys) \in Content /\ Mixed \in Content
    BY Contents
  <1>2. \A content \in {Whole(keys), Mixed} : Write(content) => Leaves(content, keys)
    BY <1>1 DEF Leaves
  <1> QED
    BY <1>2 DEF CutOff

LEMMA KillLeaves ==
    ASSUME Typed, NEW c \in Cli, Kill(c)
    PROVE  /\ cli[c].table \in SUBSET Key
           /\ \/ UNCHANGED file
              \/ /\ cli[c].op \in {"added", "dropped"}
                 /\ \E content : Leaves(content, cli[c].table)
  <1>1. cli[c].table \in SUBSET Key
    BY DEF Typed, CliType
  <1>2. PICK saving \in BOOLEAN : saving <=> cli[c].op \in {"added", "dropped"}
    OBVIOUS
  <1>3. saving = (cli[c].op \in {"added", "dropped"})
    BY <1>2
  <1>4. CutOff(saving, cli[c].table)
    BY <1>3 DEF Kill
  <1> QED
    BY <1>1, <1>2, <1>4, CutOffLeaves

LEMMA LeftInFile ==
    ASSUME Typed, NEW keys \in SUBSET Key, NEW content, Leaves(content, keys)
    PROVE  /\ file' \in [content : Content, mtime : Nat]
           /\ file'.content = content /\ file'.mtime = clock
           /\ content.keys \subseteq keys
           /\ content.state = "whole" => content.keys = keys
  BY Written, Contents DEF Leaves

\* What a starting server loads.
LEMMA LoadedAtStart ==
    ASSUME file' \in [content : Content, mtime : Nat]
    PROVE  /\ Loaded({})' \in SUBSET Key
           /\ Loaded({})' \subseteq file'.content.keys
           /\ file'.content.state = "whole" => Loaded({})' = file'.content.keys
  BY Contents DEF Loaded

LEMMA TypedInit == Init => Typed
  <1> SUFFICES ASSUME Init PROVE Typed
    OBVIOUS
  <1>1. file \in [content : Content, mtime : Nat]
    BY DEF Init, Content
  <1>2. server \in ServerType /\ cli \in [Cli -> CliType] /\ answer \in AnswerType
    BY DEF Init, ServerType, CliType, Ops, Idle, AnswerType, NoAnswer
  <1> QED
    BY <1>1, <1>2, BoundsAssumption DEF Init, Typed

LEMMA TypedNext == Typed /\ KeysAreMade /\ [Next]_vars => Typed'
  <1> SUFFICES ASSUME Typed, KeysAreMade, [Next]_vars PROVE Typed'
    OBVIOUS
  <1> USE Contents
  <1>1. CASE Tick
    BY <1>1, BoundsAssumption DEF Tick, Typed, people
  <1>2. ASSUME NEW k \in Key, Request(k) PROVE Typed'
    <2>1. PICK lapsed \in BOOLEAN : lapsed <=> k \in revoked
      OBVIOUS
    <2>2. lapsed = (k \in revoked)
      BY <2>1
    <2>3. PICK pc \in {"stat", "lookup"} :
            pc = IF file.mtime > server.mtime THEN "stat" ELSE "lookup"
      OBVIOUS
    <2>4. server' = [server EXCEPT !.key = k, !.lapsed = lapsed, !.pc = pc]
      BY <1>2, <2>2, <2>3 DEF Request
    <2>5. server' \in ServerType
      BY <2>4 DEF Typed, ServerType
    <2> QED
      BY <1>2, <2>5 DEF Request, Typed, people
  <1>3. CASE LoadStat
    BY <1>3 DEF LoadStat, Typed, people, ServerType
  <1>4. CASE LoadRead
    <2>1. Loaded(server.table) \in SUBSET Key
      BY LoadedIsEither DEF Typed, ServerType
    <2> QED
      BY <1>4, <2>1 DEF LoadRead, Typed, people, ServerType
  <1>5. ASSUME NEW who \in {"viewer", "refused", "owner"}, Answered(who)
        PROVE  answer' \in AnswerType /\ server' \in ServerType
    <2>1. PICK isValid \in BOOLEAN : isValid <=> server.key \in valid
      OBVIOUS
    <2>2. PICK locked \in BOOLEAN : locked <=> valid # {}
      OBVIOUS
    <2>3. isValid = (server.key \in valid) /\ locked = (valid # {})
      BY <2>1, <2>2
    <2>4. answer' = [who |-> who, token |-> TRUE, valid |-> isValid,
                     lapsed |-> server.lapsed, locked |-> locked]
      BY <1>5, <2>3 DEF Answered
    <2>5. server' = [server EXCEPT !.pc = "idle", !.key = NoKey, !.lapsed = FALSE]
      BY <1>5 DEF Answered
    <2>6. answer' \in AnswerType
      BY <2>4 DEF Typed, AnswerType, ServerType
    <2>7. server' \in ServerType
      BY <2>5 DEF Typed, ServerType
    <2> QED
      BY <2>6, <2>7
  <1>6. CASE Refuse
    BY <1>5, <1>6 DEF Refuse, Typed, people
  <1>7. CASE SaveUse
    BY <1>7, Written DEF SaveUse, Typed, people, ServerType
  <1>8. CASE Grant
    <2>1. file' \in [content : Content, mtime : Nat]
      BY <1>8, Overwritten, LeftInFile DEF Grant, Typed, ServerType
    <2> QED
      BY <1>5, <1>8, <2>1 DEF Grant, Typed, people
  <1>9. CASE RequestPlain
    BY <1>9 DEF RequestPlain, Typed, people, AnswerType, NoAnswer
  <1>10. CASE Restart
    <2>1. file' \in [content : Content, mtime : Nat]
      <3>1. CutOff(server.pc = "write", server.table) /\ server.table \in SUBSET Key
        BY <1>10 DEF Restart, Typed, ServerType
      <3> QED
        BY <3>1, CutOffLeaves, LeftInFile DEF Typed
    <2>2. Loaded({})' \in SUBSET Key
      BY <2>1, LoadedAtStart
    <2> QED
      BY <1>10, <2>1, <2>2 DEF Restart, Typed, people, ServerType
  <1>11. ASSUME NEW c \in Cli, NEW op \in Ops, NEW k \in Key, Start(c, op, k)
         PROVE  cli' \in [Cli -> CliType]
    <2>1. Loaded({}) \in SUBSET Key
      BY LoadedIsEither
    <2> QED
      BY <1>11, <2>1 DEF Start, Typed, CliType
  <1>12. ASSUME NEW c \in Cli, NEW k \in Key, StartAdd(c, k) \/ StartRevoke(c, k)
         PROVE  Typed'
    BY <1>11, <1>12 DEF StartAdd, StartRevoke, Typed, people, Ops
  <1>13. ASSUME NEW c \in Cli, Truncate(c) PROVE Typed'
    <2>1. cli' \in [Cli -> CliType]
      <3> PICK op \in Ops : op = IF cli[c].op = "add" THEN "added" ELSE "dropped"
        BY DEF Ops
      <3>1. cli[c] \in CliType
        BY DEF Typed
      <3>2. cli[c].key \in Key
        BY <1>13 DEF Truncate, Typed, KeysAreMade
      <3>5. cli[c].table \in SUBSET Key
        BY <3>1 DEF CliType
      <3>3. PICK table \in SUBSET Key :
              table = IF cli[c].op = "add" THEN cli[c].table \cup {cli[c].key}
                      ELSE cli[c].table \ {cli[c].key}
        BY <3>2, <3>5
      <3>4. cli' = [cli EXCEPT ![c] = [@ EXCEPT !.op = op, !.table = table]]
        BY <1>13, <3>3 DEF Truncate
      <3> QED
        BY <3>1, <3>4 DEF Typed, CliType
    <2> QED
      BY <1>13, <2>1, Written DEF Truncate, Typed, people
  <1>14. ASSUME NEW c \in Cli, FinishAdd(c) \/ FinishRevoke(c) PROVE Typed'
    <2>1. cli[c] \in CliType /\ cli[c].op \in {"added", "dropped"}
      BY <1>14 DEF FinishAdd, FinishRevoke, Typed
    <2>2. file' \in [content : Content, mtime : Nat]
      BY <1>14, <2>1, Overwritten, LeftInFile DEF CliType, FinishAdd, FinishRevoke, Finish
    <2>3. cli' \in [Cli -> CliType]
      BY <1>14 DEF FinishAdd, FinishRevoke, Finish, Typed, CliType, Idle, Ops
    <2>4. cli[c].key \in Key
      BY <2>1 DEF Typed, KeysAreMade
    <2> QED
      BY <1>14, <2>2, <2>3, <2>4 DEF FinishAdd, FinishRevoke, Finish, Typed
  <1>15. ASSUME NEW c \in Cli, Kill(c) PROVE Typed'
    <2>1. file' \in [content : Content, mtime : Nat]
      <3>1. CASE UNCHANGED file
        BY <3>1 DEF Typed
      <3>2. ASSUME NEW content, Leaves(content, cli[c].table)
            PROVE  file' \in [content : Content, mtime : Nat]
        BY <1>15, <3>2, KillLeaves, LeftInFile
      <3> QED
        BY <1>15, <3>1, <3>2, KillLeaves
    <2> QED
      BY <1>15, <2>1 DEF Kill, Typed, people, CliType, Idle, Ops
  <1>16. CASE UNCHANGED vars
    BY <1>16 DEF vars, people, Typed
  <1> QED
    BY <1>1, <1>2, <1>3, <1>4, <1>6, <1>7, <1>8, <1>9, <1>10, <1>12, <1>13, <1>14,
       <1>15, <1>16 DEF Next

-----------------------------------------------------------------------------
LEMMA TimedNext == Typed /\ Timed /\ [Next]_vars => Timed'
  <1> SUFFICES ASSUME Typed, Timed, [Next]_vars PROVE Timed'
    OBVIOUS
  <1>0. file.mtime \in Nat /\ clock \in Nat /\ server.mtime \in Nat /\ server \in ServerType
    BY DEF Typed, ServerType
  <1>1. CASE Tick
    BY <1>0, <1>1 DEF Tick, Timed
  <1>2. ASSUME NEW content, Write(content), UNCHANGED clock, server'.mtime = server.mtime
        PROVE  Timed'
    BY <1>0, <1>2 DEF Write, Timed
  <1>3. ASSUME UNCHANGED <<file, clock>>, server'.mtime \in {0, server.mtime, file.mtime}
        PROVE  Timed'
    BY <1>0, <1>3 DEF Timed
  <1>4. CASE SaveUse
    BY <1>0, <1>2, <1>4 DEF SaveUse, ServerType
  <1>5. CASE Grant
    BY <1>0, <1>2, <1>5 DEF Grant, Overwrite, Answered, ServerType
  <1>6. ASSUME NEW c \in Cli, Truncate(c) \/ FinishAdd(c) \/ FinishRevoke(c)
        PROVE  Timed'
    BY <1>2, <1>6 DEF Truncate, FinishAdd, FinishRevoke, Finish, Overwrite
  <1>7. ASSUME NEW k \in Key, Request(k) PROVE Timed'
    BY <1>0, <1>3, <1>7 DEF Request, ServerType
  <1>8. CASE LoadStat \/ LoadRead \/ Refuse \/ RequestPlain \/ Restart
    <2>1. CASE LoadStat \/ LoadRead
      BY <1>0, <1>3, <2>1 DEF LoadStat, LoadRead, ServerType
    <2>2. CASE Refuse \/ RequestPlain
      BY <1>0, <1>3, <2>2 DEF Refuse, RequestPlain, Answered, ServerType
    <2>3. CASE Restart
      <3>1. file'.mtime \in {file.mtime, clock} /\ UNCHANGED clock
        BY <2>3 DEF Restart, CutOff, Write
      <3>2. server'.mtime \in {0, file'.mtime}
        BY <2>3 DEF Restart
      <3>3. file'.mtime <= clock /\ file'.mtime \in Nat
        BY <1>0, <3>1 DEF Timed
      <3>4. server'.mtime <= file'.mtime
        BY <3>2, <3>3
      <3> QED
        BY <3>1, <3>3, <3>4 DEF Timed
    <2> QED
      BY <1>8, <2>1, <2>2, <2>3
  <1>9. ASSUME NEW c \in Cli,
               Kill(c) \/ \E k \in Key : StartAdd(c, k) \/ StartRevoke(c, k)
        PROVE  Timed'
    BY <1>2, <1>3, <1>9 DEF Kill, CutOff, StartAdd, StartRevoke
  <1>10. CASE UNCHANGED vars
    BY <1>3, <1>10 DEF vars
  <1> QED
    BY <1>1, <1>4, <1>5, <1>6, <1>7, <1>8, <1>9, <1>10 DEF Next

\* A write of the command line is younger than what the server has seen, or
\* the two fell into one tick.
LEMMA WriteIsYounger ==
    ASSUME Typed, Timed, NEW content \in Content, Write(content),
           Tied \subseteq faults', UNCHANGED <<clock, server>>
    PROVE  Believed'
  <1>1. file'.mtime = clock
    BY Written
  <1>2. server.mtime <= file.mtime /\ file.mtime <= clock
        /\ server.mtime \in Nat /\ file.mtime \in Nat /\ clock \in Nat
    BY DEF Typed, Timed, ServerType
  <1>3. CASE server.mtime = clock
    <2>1. "tie" \in faults'
      BY <1>2, <1>3 DEF Tied
    <2> QED
      BY <2>1 DEF Believed
  <1>4. CASE server.mtime # clock
    BY <1>1, <1>2, <1>4 DEF Believed
  <1> QED
    BY <1>3, <1>4

LEMMA BelievedNext == Typed /\ Timed /\ Believed /\ [Next]_vars => Believed'
  <1> SUFFICES ASSUME Typed, Timed, Believed, [Next]_vars PROVE Believed'
    OBVIOUS
  <1>0. server \in ServerType
    BY DEF Typed
  <1>1. ASSUME UNCHANGED file, faults \subseteq faults',
               server'.table = server.table, server'.mtime = server.mtime,
               server'.pc # "read" => server.pc # "read"
        PROVE  Believed'
    BY <1>1 DEF Believed
  <1>2. CASE Tick \/ RequestPlain
    BY <1>1, <1>2 DEF Tick, RequestPlain
  <1>3. ASSUME NEW k \in Key, Request(k) PROVE Believed'
    <2>1. server.pc = "idle"
      BY <1>3 DEF Request
    <2> QED
      BY <1>0, <1>1, <1>3, <2>1 DEF Request, ServerType
  <1>4. CASE LoadStat
    <2>1. server'.pc = "read"
      BY <1>0, <1>4 DEF LoadStat, ServerType
    <2> QED
      BY <2>1 DEF Believed
  <1>5. CASE LoadRead
    <2>1. file' = file /\ server'.table = Loaded(server.table)
      BY <1>0, <1>5 DEF LoadRead, ServerType
    <2> QED
      BY <2>1 DEF Believed, Loaded
  <1>6. CASE Refuse
    BY <1>0, <1>1, <1>6 DEF Refuse, Answered, ServerType
  <1>7. CASE SaveUse
    <2>1. file'.content.state = "torn"
      BY <1>7, Written, Contents DEF SaveUse
    <2> QED
      BY <2>1 DEF Believed
  <1>8. CASE Grant
    <2>2. file'.content.state = "whole" => file'.content.keys = server.table
      BY <1>0, <1>8, Overwritten, LeftInFile DEF Grant, ServerType
    <2>3. server'.table = server.table
      BY <1>0, <1>8 DEF Grant, Answered, ServerType
    <2> QED
      BY <2>2, <2>3 DEF Believed
  <1>9. CASE Restart
    <2>1. server'.table = Loaded({})'
      BY <1>9 DEF Restart
    <2> QED
      BY <2>1 DEF Believed, Loaded
  <1>10. ASSUME NEW c \in Cli, \E k \in Key : StartAdd(c, k) \/ StartRevoke(c, k)
         PROVE  Believed'
    BY <1>1, <1>10 DEF StartAdd, StartRevoke, Start
  <1>11. ASSUME NEW c \in Cli, Kill(c) PROVE Believed'
    <2>2. CASE UNCHANGED file
      BY <1>1, <1>11, <2>2 DEF Kill
    <2>3. ASSUME cli[c].op \in {"added", "dropped"}, NEW content,
                 Leaves(content, cli[c].table)
          PROVE  Believed'
      BY <1>11, <2>3, WriteIsYounger DEF Kill, Leaves
    <2> QED
      BY <1>11, <2>2, <2>3, KillLeaves
  <1>12. ASSUME NEW c \in Cli, Truncate(c) PROVE Believed'
    BY <1>12, Contents, WriteIsYounger DEF Truncate
  <1>13. ASSUME NEW c \in Cli, FinishAdd(c) \/ FinishRevoke(c) PROVE Believed'
    <2>1. PICK content : Leaves(content, cli[c].table)
      BY <1>13, Overwritten DEF FinishAdd, FinishRevoke, Finish, Typed, CliType
    <2> QED
      BY <1>13, <2>1, WriteIsYounger DEF FinishAdd, FinishRevoke, Finish, Leaves
  <1>14. CASE UNCHANGED vars
    BY <1>1, <1>14 DEF vars
  <1> QED
    BY <1>2, <1>3, <1>4, <1>5, <1>6, <1>7, <1>8, <1>9, <1>10, <1>11, <1>12, <1>13,
       <1>14 DEF Next

-----------------------------------------------------------------------------
(***************************************************************************)
(* KeysAreMade: a secret key gets nowhere while its process adds it.       *)
(***************************************************************************)
\* Who starts knows a key that is new, or one of the file.
LEMMA StartKeepsMade ==
    ASSUME Typed, KeysAreMade, NEW c \in Cli, NEW k \in Key,
           StartAdd(c, k) \/ StartRevoke(c, k)
    PROVE  KeysAreMade'
  <1>0. cli \in [Cli -> CliType] /\ Loaded({}) \subseteq file.content.keys
    BY LoadedIsEither DEF Typed
  <1>1. PICK op \in {"add", "revoke"} :
          cli' = [cli EXCEPT ![c] = [op |-> op, key |-> k, table |-> Loaded({})]]
    BY DEF StartAdd, StartRevoke, Start
  <1>2. /\ cli'[c].op = op /\ cli'[c].key = k /\ cli'[c].table = Loaded({})
        /\ \A d \in Cli \ {c} : cli'[d] = cli[d]
    BY <1>0, <1>1
  <1>3. UNCHANGED <<file, server, valid, revoked>> /\ made \subseteq made' /\ k \in made'
    BY <1>0 DEF StartAdd, StartRevoke, people, KeysAreMade
  <1>4. ASSUME NEW d \in Cli \ {c}, Adding(d)' PROVE Secret(d)'
    <2>1. Adding(d) /\ Secret(d)
      BY <1>2, <1>4 DEF Adding, KeysAreMade
    <2>2. cli[d].key \notin Loaded({}) /\ cli[d].key # k
      BY <1>0, <2>1 DEF StartAdd, StartRevoke, Secret
    <2> QED
      BY <1>2, <1>3, <2>1, <2>2 DEF Secret
  <1>5. ASSUME Adding(c)' PROVE Secret(c)'
    <2>1. k \notin made /\ k \in made'
      BY <1>1, <1>2, <1>3, <1>5 DEF Adding, StartAdd, StartRevoke, Start
    <2>2. \A d \in Cli \ {c} : k \notin cli'[d].table
      BY <1>2, <2>1 DEF KeysAreMade
    <2> QED
      BY <1>2, <1>3, <2>1, <2>2 DEF Secret, KeysAreMade
  <1> QED
    BY <1>0, <1>2, <1>3, <1>4, <1>5 DEF KeysAreMade

\* The table of a command gets its own key, or loses it.
LEMMA TruncateKeepsMade ==
    ASSUME Typed, KeysAreMade, NEW c \in Cli, Truncate(c) PROVE KeysAreMade'
  <1>0. cli \in [Cli -> CliType] /\ cli[c].op # "idle"
    BY DEF Typed, Truncate
  <1>1. PICK op \in {"added", "dropped"} :
          op = IF cli[c].op = "add" THEN "added" ELSE "dropped"
    OBVIOUS
  <1>2. PICK table : table = IF cli[c].op = "add" THEN cli[c].table \cup {cli[c].key}
                             ELSE cli[c].table \ {cli[c].key}
    OBVIOUS
  <1>3. /\ cli'[c].op = op /\ cli'[c].key = cli[c].key /\ cli'[c].table = table
        /\ \A d \in Cli \ {c} : cli'[d] = cli[d]
    BY <1>0, <1>1, <1>2 DEF Truncate, CliType
  <1>4. UNCHANGED <<server, made, valid, revoked>> /\ file'.content.keys = {}
    BY Written, Contents DEF Truncate, people
  <1>5. cli[c].key \in made /\ table \subseteq cli[c].table \cup {cli[c].key}
    BY <1>0, <1>2 DEF KeysAreMade
  <1>6. ASSUME NEW d \in Cli, Adding(d)' PROVE Secret(d)'
    <2>1. Adding(d)
      BY <1>1, <1>3, <1>6 DEF Adding, Truncate
    <2>2. Secret(d)
      BY <2>1 DEF KeysAreMade
    <2>3. d # c => cli[d].key # cli[c].key
      BY <1>0, <2>2 DEF Secret
    <2>4. cli'[d].key = cli[d].key
      BY <1>3
    <2>5. ASSUME NEW e \in Cli \ {d}
          PROVE  /\ cli[d].key \notin cli'[e].table
                 /\ cli'[e].op # "idle" => cli'[e].key # cli[d].key
      <3>1. CASE e = c
        BY <1>0, <1>3, <1>5, <2>2, <2>3, <3>1 DEF Secret
      <3>2. CASE e # c
        BY <1>3, <2>2, <3>2 DEF Secret
      <3> QED
        BY <3>1, <3>2
    <2> QED
      BY <1>4, <2>2, <2>4, <2>5 DEF Secret
  <1>7. ASSUME NEW d \in Cli
        PROVE  cli'[d].table \subseteq made /\ (cli'[d].op # "idle" => cli'[d].key \in made)
    <2>1. CASE d = c
      BY <1>3, <1>5, <2>1 DEF KeysAreMade
    <2>2. CASE d # c
      BY <1>3, <2>2 DEF KeysAreMade
    <2> QED
      BY <2>1, <2>2
  <1> QED
    BY <1>4, <1>6, <1>7 DEF KeysAreMade

\* A command that ends, well or not, forgets its table.
LEMMA EndKeepsMade ==
    ASSUME Typed, KeysAreMade, NEW c \in Cli, FinishAdd(c) \/ FinishRevoke(c) \/ Kill(c)
    PROVE  KeysAreMade'
  <1>0. cli \in [Cli -> CliType] /\ cli[c].op # "idle" /\ cli[c].table \in SUBSET Key
    BY DEF Typed, FinishAdd, FinishRevoke, Kill, CliType
  <1>1. /\ cli'[c].op = "idle" /\ cli'[c].table = {}
        /\ \A d \in Cli \ {c} : cli'[d] = cli[d]
    BY <1>0 DEF FinishAdd, FinishRevoke, Finish, Kill, Idle
  <1>2. /\ UNCHANGED <<server, made>>
        /\ file'.content.keys \subseteq file.content.keys \cup cli[c].table
    <2>1. UNCHANGED file \/ \E content : Leaves(content, cli[c].table)
      BY <1>0, Overwritten, KillLeaves DEF FinishAdd, FinishRevoke, Finish
    <2>2. file'.content.keys \subseteq file.content.keys \cup cli[c].table
      BY <1>0, <2>1, LeftInFile
    <2> QED
      BY <2>2 DEF FinishAdd, FinishRevoke, Finish, Kill, people
  <1>3. /\ valid' \subseteq valid \cup {cli[c].key}
        /\ revoked' \subseteq revoked \cup {cli[c].key}
        /\ valid' \cap revoked' = {}
    <2>1. CASE FinishAdd(c)
      <3>1. Secret(c)
        BY <2>1 DEF FinishAdd, KeysAreMade, Adding
      <3> QED
        BY <2>1, <3>1 DEF FinishAdd, Secret, KeysAreMade
    <2>2. CASE FinishRevoke(c)
      BY <2>2 DEF FinishRevoke, KeysAreMade
    <2>3. CASE Kill(c)
      BY <2>3 DEF Kill, people, KeysAreMade
    <2> QED
      BY <2>1, <2>2, <2>3
  <1>4. cli[c].key \in made
    BY <1>0 DEF KeysAreMade
  <1>5. ASSUME NEW d \in Cli, Adding(d)' PROVE Secret(d)'
    <2>1. d # c /\ cli'[d] = cli[d] /\ Adding(d)
      BY <1>1, <1>5 DEF Adding
    <2>2. Secret(d)
      BY <2>1 DEF KeysAreMade
    <2>3. cli[d].key # cli[c].key /\ cli[d].key \notin cli[c].table
      BY <1>0, <2>1, <2>2 DEF Secret
    <2>4. ASSUME NEW e \in Cli \ {d}
          PROVE  /\ cli[d].key \notin cli'[e].table
                 /\ cli'[e].op # "idle" => cli'[e].key # cli[d].key
      BY <1>1, <2>2 DEF Secret
    <2>5. /\ cli[d].key \in made' \ (valid' \cup revoked')
          /\ cli[d].key \notin file'.content.keys \cup server'.table
      BY <1>2, <1>3, <2>2, <2>3 DEF Secret
    <2>6. cli'[d].key = cli[d].key
      BY <2>1
    <2> QED
      BY <2>4, <2>5, <2>6 DEF Secret
  <1> QED
    BY <1>1, <1>2, <1>3, <1>4, <1>5 DEF KeysAreMade

LEMMA KeysAreMadeNext == Typed /\ KeysAreMade /\ [Next]_vars => KeysAreMade'
  <1> SUFFICES ASSUME Typed, KeysAreMade, [Next]_vars PROVE KeysAreMade'
    OBVIOUS
  <1>0. server \in ServerType
    BY DEF Typed
  \* The server passes keys from its table to the file and back.
  <1>1. ASSUME UNCHANGED <<cli, people>>,
               server'.table \subseteq server.table \cup file.content.keys,
               file'.content.keys \subseteq server.table \cup file.content.keys
        PROVE  KeysAreMade'
    BY <1>1 DEF KeysAreMade, Adding, Secret, people
  <1>2. CASE Tick \/ RequestPlain \/ UNCHANGED vars
    BY <1>1, <1>2 DEF Tick, RequestPlain, vars, people
  <1>3. CASE LoadStat \/ Refuse \/ \E k \in Key : Request(k)
    BY <1>0, <1>1, <1>3 DEF LoadStat, Refuse, Request, Answered, ServerType
  <1>4. CASE LoadRead
    <2>1. Loaded(server.table) \subseteq server.table \cup file.content.keys
      BY <1>0, LoadedIsEither DEF ServerType
    <2> QED
      BY <1>0, <1>1, <1>4, <2>1 DEF LoadRead, ServerType
  <1>5. CASE Restart
    <2>1. server.table \in SUBSET Key /\ CutOff(server.pc = "write", server.table)
      BY <1>0, <1>5 DEF Restart, ServerType
    <2>2. /\ file' \in [content : Content, mtime : Nat]
          /\ file'.content.keys \subseteq file.content.keys \cup server.table
      BY <2>1, CutOffLeaves, LeftInFile DEF Typed
    <2>3. Loaded({})' \subseteq file'.content.keys
      BY <2>2, LoadedAtStart
    <2> QED
      BY <1>1, <1>5, <2>2, <2>3 DEF Restart
  <1>6. CASE SaveUse
    <2>1. file'.content.keys = {}
      BY <1>6, Written, Contents DEF SaveUse
    <2> QED
      BY <1>0, <1>1, <1>6, <2>1 DEF SaveUse, ServerType
  <1>7. CASE Grant
    <2>1. file'.content.keys \subseteq server.table
      BY <1>0, <1>7, Overwritten, LeftInFile DEF Grant, ServerType
    <2> QED
      BY <1>0, <1>1, <1>7, <2>1 DEF Grant, Answered, ServerType
  <1> QED
    BY <1>2, <1>3, <1>4, <1>5, <1>6, <1>7, StartKeepsMade, TruncateKeepsMade,
       EndKeepsMade DEF Next

-----------------------------------------------------------------------------
(***************************************************************************)
(* Sequential: as long as nothing happened that a single user does not     *)
(* see, one process is at work and knows the valid keys.                   *)
(***************************************************************************)
Calm == Inv /\ faults = {} /\ faults' = {}

Goal == Alone' /\ HoldValid' /\ SequentialUseIsExact'

LEMMA CalmFacts ==
    ASSUME Calm
    PROVE  /\ Alone /\ HoldValid /\ SequentialUseIsExact
           /\ server \in ServerType /\ cli \in [Cli -> CliType]
           /\ file.content \in Content /\ Typed
           /\ file.content.state \in {"missing", "torn", "whole"}
  BY Contents DEF Calm, Inv, Sequential, Typed, HoldValid

\* Outside a save, loading gives the valid keys.
LEMMA LoadedIsValid ==
    ASSUME Calm, ~Saving, NEW table \in {{}, server.table}
    PROVE  Loaded(table) = valid
  BY CalmFacts DEF HoldValid, Loaded

LEMMA RequestIsExact ==
    ASSUME Calm, NEW k \in Key, Request(k) PROVE Goal
  <1>1. /\ Alone /\ HoldValid /\ SequentialUseIsExact /\ server \in ServerType
        /\ file.content.state \in {"missing", "torn", "whole"}
    BY CalmFacts
  <1>2. server.pc = "idle" /\ \A c \in Cli : cli[c].op = "idle"
    BY DEF Request, Calm, Crowd
  <1>3. /\ UNCHANGED <<file, cli, valid, answer>> /\ server'.table = server.table
        /\ server'.pc \in {"stat", "lookup"}
        /\ server'.pc = "lookup" => ~(file.mtime > server.mtime)
    BY <1>1 DEF Request, ServerType, people
  <1>4. ~Saving /\ ~Saving'
    BY <1>2, <1>3 DEF Saving
  <1>5. server'.pc = "lookup" => server.table = valid
    BY <1>1, <1>2, <1>3, <1>4 DEF HoldValid, Calm, Inv, Believed
  <1>6. HoldValid'
    BY <1>1, <1>2, <1>3, <1>4, <1>5 DEF HoldValid
  <1> QED
    BY <1>1, <1>2, <1>3, <1>6 DEF Goal, Alone, SequentialUseIsExact, Calm

LEMMA LoadIsExact == ASSUME Calm, LoadStat \/ LoadRead PROVE Goal
  <1>1. /\ Alone /\ HoldValid /\ SequentialUseIsExact /\ server \in ServerType
    BY CalmFacts
  <1>2. server.pc # "idle" /\ \A c \in Cli : cli[c].op = "idle"
    BY <1>1 DEF LoadStat, LoadRead, Alone
  <1>3. /\ UNCHANGED <<file, cli, valid, answer>> /\ server.pc # "write"
        /\ \/ server'.pc = "read" /\ server'.table = server.table
           \/ server'.pc = "lookup" /\ server'.table = Loaded(server.table)
    BY <1>1 DEF LoadStat, LoadRead, ServerType, people
  <1>4. ~Saving /\ ~Saving'
    BY <1>2, <1>3 DEF Saving
  <1>5. Loaded(server.table) = valid
    BY <1>4, LoadedIsValid
  <1>6. HoldValid'
    BY <1>1, <1>2, <1>3, <1>4, <1>5 DEF HoldValid
  <1> QED
    BY <1>1, <1>2, <1>3, <1>6 DEF Goal, Alone, SequentialUseIsExact, Calm

LEMMA AnswerIsExact ==
    ASSUME Calm, Refuse \/ SaveUse \/ Grant \/ RequestPlain PROVE Goal
  <1>1. /\ Alone /\ HoldValid /\ SequentialUseIsExact /\ server \in ServerType
        /\ cli \in [Cli -> CliType] /\ Typed
    BY CalmFacts
  <1>2. CASE Refuse
    <2>1. PICK who \in {"viewer", "refused"} : Answered(who)
      BY <1>2 DEF Refuse
    <2>2. /\ server'.pc = "idle" /\ server'.table = server.table /\ server.pc = "lookup"
          /\ UNCHANGED <<file, cli, valid>>
      BY <1>1, <1>2, <2>1 DEF Refuse, Answered, ServerType, people
    <2>3. server.key \notin valid
      BY <1>1, <1>2 DEF Refuse, HoldValid
    <2>4. answer'.who = who /\ ~answer'.valid
      BY <2>1, <2>3 DEF Answered
    <2>5. Saving' <=> Saving
      BY <2>2 DEF Saving
    <2>6. HoldValid'
      BY <1>1, <2>2, <2>5 DEF HoldValid
    <2> QED
      BY <1>1, <2>2, <2>4, <2>6 DEF Goal, Alone, SequentialUseIsExact
  <1>3. CASE SaveUse
    <2>1. /\ server'.pc = "write" /\ server'.table = server.table
          /\ server'.key = server.key /\ server.pc = "lookup"
          /\ server.key \in server.table /\ UNCHANGED <<cli, valid, answer>>
      BY <1>1, <1>3 DEF SaveUse, ServerType, people
    <2>2. file'.content.state = "torn"
      BY <1>1, <1>3, Written, Contents DEF SaveUse
    <2>3. Saving' /\ \A c \in Cli : cli[c].op = "idle"
      BY <1>1, <2>1 DEF Saving, Alone
    <2>4. HoldValid'
      BY <1>1, <2>1, <2>2, <2>3 DEF HoldValid
    <2> QED
      BY <1>1, <2>1, <2>4 DEF Goal, Alone, SequentialUseIsExact, Calm
  <1>4. CASE Grant
    <2>1. /\ server'.pc = "idle" /\ server'.table = server.table /\ server.pc = "write"
          /\ UNCHANGED <<cli, valid>>
      BY <1>1, <1>4 DEF Grant, Answered, ServerType, people
    <2>2. file'.content.state = "whole" /\ file'.content.keys = server.table
      <3>1. file.content.state = "torn"
        BY <1>1, <2>1 DEF HoldValid, Saving
      <3>2. Leaves(Whole(server.table), server.table) /\ server.table \in SUBSET Key
        BY <1>1, <1>4, <3>1, Overwritten DEF Grant, ServerType
      <3> QED
        BY <1>1, <3>2, LeftInFile, Contents
    <2>3. server.table = valid /\ server.key \in valid
      BY <1>1, <2>1 DEF HoldValid
    <2>4. answer'.who = "owner" /\ answer'.valid
      BY <1>4, <2>3 DEF Grant, Answered
    <2>5. ~Saving' /\ \A c \in Cli : cli[c].op = "idle"
      BY <1>1, <2>1 DEF Saving, Alone
    <2>6. HoldValid'
      BY <1>1, <2>1, <2>2, <2>3, <2>5 DEF HoldValid
    <2> QED
      BY <1>1, <2>1, <2>4, <2>6 DEF Goal, Alone, SequentialUseIsExact
  <1>5. CASE RequestPlain
    <2>1. UNCHANGED <<file, server, cli, valid>> /\ ~answer'.token
      BY <1>5 DEF RequestPlain, people, NoAnswer
    <2> QED
      BY <1>1, <2>1 DEF Goal, Alone, HoldValid, Saving, SequentialUseIsExact
  <1> QED
    BY <1>2, <1>3, <1>4, <1>5

LEMMA RestartIsExact == ASSUME Calm, Restart PROVE Goal
  <1>1. /\ Alone /\ HoldValid /\ SequentialUseIsExact
        /\ file.content.state \in {"missing", "torn", "whole"}
    BY CalmFacts
  <1>2. file.content.state # "torn"
    BY DEF Calm, Restart
  <1>6. server.pc # "write"
    BY <1>1, <1>2 DEF HoldValid, Saving
  <1>7. file' = file
    BY <1>6 DEF Restart, CutOff
  <1>3. /\ UNCHANGED <<file, cli, valid, answer>>
        /\ server'.pc = "idle" /\ server'.table = Loaded({})
    BY <1>7 DEF Restart, people, Loaded
  <1>4. ~Saving /\ ~Saving'
    BY <1>1, <1>2, <1>3 DEF HoldValid, Saving
  <1>5. HoldValid'
    BY <1>1, <1>3, <1>4 DEF HoldValid, Loaded
  <1> QED
    BY <1>1, <1>3, <1>5 DEF Goal, Alone, SequentialUseIsExact, Calm

LEMMA StartIsExact ==
    ASSUME Calm, NEW c \in Cli, NEW k \in Key, StartAdd(c, k) \/ StartRevoke(c, k)
    PROVE  Goal
  <1>1. /\ Alone /\ HoldValid /\ SequentialUseIsExact /\ cli \in [Cli -> CliType]
    BY CalmFacts
  <1>2. PICK op \in {"add", "revoke"} : Start(c, op, k)
    BY DEF StartAdd, StartRevoke
  <1>3. server.pc = "idle" /\ \A d \in Cli : cli[d].op = "idle"
    BY <1>2 DEF Start, Calm, Crowd
  <1>4. UNCHANGED <<file, server, valid, answer>>
    BY DEF StartAdd, StartRevoke, people
  <1>5. /\ cli'[c].op = op /\ cli'[c].table = Loaded({})
        /\ \A d \in Cli \ {c} : cli'[d] = cli[d]
    BY <1>1, <1>2 DEF Start
  <1>6. ~Saving /\ ~Saving'
    BY <1>3, <1>4, <1>5 DEF Saving
  <1>7. Loaded({}) = valid
    BY <1>6, LoadedIsValid
  <1>8. HoldValid'
    BY <1>1, <1>3, <1>4, <1>5, <1>6, <1>7 DEF HoldValid
  <1> QED
    BY <1>1, <1>3, <1>4, <1>5, <1>8 DEF Goal, Alone, SequentialUseIsExact, Calm

LEMMA TruncateIsExact == ASSUME Calm, NEW c \in Cli, Truncate(c) PROVE Goal
  <1>1. /\ Alone /\ HoldValid /\ SequentialUseIsExact /\ cli \in [Cli -> CliType]
        /\ Typed
    BY CalmFacts
  <1>2. server.pc = "idle" /\ \A d \in Cli \ {c} : cli[d].op = "idle"
    BY <1>1 DEF Truncate, Alone
  <1>3. UNCHANGED <<server, valid, answer>> /\ file'.content.state = "torn"
    BY <1>1, Written, Contents DEF Truncate, people
  <1>4. cli[c].op \in {"add", "revoke"} /\ cli[c].table = valid
    BY <1>1 DEF Truncate, HoldValid
  <1>5. /\ cli'[c].op = IF cli[c].op = "add" THEN "added" ELSE "dropped"
        /\ cli'[c].key = cli[c].key
        /\ cli'[c].table = IF cli[c].op = "add" THEN cli[c].table \cup {cli[c].key}
                           ELSE cli[c].table \ {cli[c].key}
        /\ \A d \in Cli \ {c} : cli'[d] = cli[d]
    BY <1>1 DEF Truncate, CliType
  <1>6. Saving'
    BY <1>5 DEF Saving
  <1>7. HoldValid'
    BY <1>1, <1>2, <1>3, <1>4, <1>5, <1>6 DEF HoldValid
  <1> QED
    BY <1>1, <1>2, <1>3, <1>5, <1>7 DEF Goal, Alone, SequentialUseIsExact, Calm

LEMMA FinishIsExact ==
    ASSUME Calm, NEW c \in Cli, FinishAdd(c) \/ FinishRevoke(c) PROVE Goal
  <1>1. /\ Alone /\ HoldValid /\ SequentialUseIsExact /\ cli \in [Cli -> CliType]
        /\ Typed
    BY CalmFacts
  <1>2. server.pc = "idle" /\ \A d \in Cli \ {c} : cli[d].op = "idle"
    BY <1>1 DEF FinishAdd, FinishRevoke, Alone
  <1>3. UNCHANGED <<server, answer>> /\ cli[c].table = valid'
    BY <1>1 DEF FinishAdd, FinishRevoke, Finish, HoldValid
  <1>4. file'.content.state = "whole" /\ file'.content.keys = cli[c].table
    <2>1. cli[c].table \in SUBSET Key
      BY <1>1 DEF CliType
    <2>2. file.content.state = "torn"
      BY <1>1 DEF FinishAdd, FinishRevoke, HoldValid, Saving
    <2>3. Leaves(Whole(cli[c].table), cli[c].table)
      BY <1>1, <2>1, <2>2, Overwritten DEF FinishAdd, FinishRevoke, Finish
    <2> QED
      BY <1>1, <2>1, <2>3, LeftInFile, Contents
  <1>5. cli'[c].op = "idle" /\ \A d \in Cli \ {c} : cli'[d] = cli[d]
    BY <1>1 DEF FinishAdd, FinishRevoke, Finish, Idle
  <1>6. ~Saving'
    BY <1>2, <1>3, <1>5 DEF Saving
  <1>7. HoldValid'
    BY <1>1, <1>2, <1>3, <1>4, <1>5, <1>6 DEF HoldValid
  <1> QED
    BY <1>1, <1>2, <1>3, <1>5, <1>7 DEF Goal, Alone, SequentialUseIsExact, Calm

LEMMA KillIsExact == ASSUME Calm, NEW c \in Cli, Kill(c) PROVE Goal
  <1>1. Alone /\ HoldValid /\ SequentialUseIsExact /\ cli \in [Cli -> CliType]
    BY CalmFacts
  <1>2. cli[c].op \notin {"added", "dropped"}
    BY DEF Kill, Calm
  <1>3. UNCHANGED <<file, server, valid, answer>>
    BY <1>2 DEF Kill, CutOff, people
  <1>4. cli'[c].op = "idle" /\ \A d \in Cli \ {c} : cli'[d] = cli[d]
    BY <1>1 DEF Kill, Idle
  <1>5. Saving' <=> Saving
    BY <1>2, <1>3, <1>4 DEF Saving
  <1>6. HoldValid'
    BY <1>1, <1>3, <1>4, <1>5 DEF HoldValid
  <1> QED
    BY <1>1, <1>3, <1>4, <1>6 DEF Goal, Alone, SequentialUseIsExact, Calm

LEMMA SequentialNext == Inv /\ [Next]_vars => Sequential'
  <1> SUFFICES ASSUME Inv, [Next]_vars, faults' = {} PROVE Goal
    BY DEF Sequential, Goal
  <1>1. faults \subseteq faults'
    BY DEF Next, vars, Tick, LoadStat, LoadRead, Refuse, SaveUse, Grant, RequestPlain,
           Restart, Request, StartAdd, StartRevoke, Start, Truncate, FinishAdd,
           FinishRevoke, Finish, Kill
  <1>2. Calm
    BY <1>1 DEF Calm
  <1>3. CASE Tick \/ UNCHANGED vars
    <2>1. UNCHANGED <<file, server, cli, valid, answer, faults>>
      BY <1>3 DEF Tick, vars, people
    <2> QED
      BY <1>2, <2>1, CalmFacts
      DEF Goal, Alone, HoldValid, Saving, SequentialUseIsExact
  <1> QED
    BY <1>2, <1>3, RequestIsExact, LoadIsExact, AnswerIsExact, RestartIsExact,
       StartIsExact, TruncateIsExact, FinishIsExact, KillIsExact DEF Next

-----------------------------------------------------------------------------
LEMMA InvInit == Init => Inv
  <1> SUFFICES ASSUME Init PROVE Inv
    OBVIOUS
  <1>1. Typed
    BY TypedInit
  <1>2. /\ file.content.state = "missing" /\ file.content.keys = {} /\ file.mtime = 0
        /\ server.table = {} /\ server.mtime = 0 /\ server.pc = "idle" /\ clock = 1
        /\ valid = {} /\ made = {} /\ revoked = {} /\ ~answer.token
        /\ \A c \in Cli : cli[c].op = "idle" /\ cli[c].table = {}
    BY DEF Init, Idle, NoAnswer
  <1>3. Timed /\ KeysAreMade /\ Believed
    BY <1>2 DEF Timed, KeysAreMade, Adding, Believed
  <1>4. Alone /\ HoldValid /\ SequentialUseIsExact
    BY <1>2 DEF Alone, HoldValid, Saving, SequentialUseIsExact
  <1> QED
    BY <1>1, <1>3, <1>4 DEF Inv, Sequential

LEMMA InvNext == Inv /\ [Next]_vars => Inv'
  BY TypedNext, TimedNext, KeysAreMadeNext, BelievedNext, SequentialNext DEF Inv

THEOREM InvariantHolds == Spec => []Inv
  BY InvInit, InvNext, PTL DEF Spec

(***************************************************************************)
(* Nobody's table holds a key that was never generated, a key is not       *)
(* revoked before it was shown, and the server never believes in a file    *)
(* younger than the one there is.                                          *)
(***************************************************************************)
THEOREM TypeCorrect == Spec => []TypeOK
  <1>1. Inv => TypeOK
    <2> SUFFICES ASSUME Inv PROVE TypeOK
      OBVIOUS
    <2>1. file \in [content : Content, mtime : 0..clock] /\ server.mtime \in 0..file.mtime
      BY DEF Inv, Typed, Timed, ServerType
    <2>2. server.pc \in {"idle", "stat", "read", "lookup", "write"}
      BY DEF Inv, Typed, ServerType
    <2>3. \A c \in Cli : cli[c].op \in {"idle", "add", "revoke", "added", "dropped"}
      BY DEF Inv, Typed, CliType, Ops
    <2> QED
      BY <2>1, <2>2, <2>3 DEF Inv, Typed, KeysAreMade, TypeOK
  <1> QED
    BY <1>1, InvariantHolds, PTL

(***************************************************************************)
(* A table that differs from the file is noticed by the next request with  *)
(* a token, however saves and loads interleave and whoever dies within a   *)
(* save, unless two writes fell into one tick.                             *)
(***************************************************************************)
THEOREM StaleIsNoticedAlways == Spec => []StaleIsNoticed
  <1>1. Inv => StaleIsNoticed
    BY DEF Inv, Believed, StaleIsNoticed
  <1> QED
    BY <1>1, InvariantHolds, PTL

(***************************************************************************)
(* Used by one person at a time, the store is exact: a token is accepted   *)
(* if and only if its key was shown and not revoked.                       *)
(***************************************************************************)
THEOREM SequentialUseIsExactAlways == Spec => []SequentialUseIsExact
  <1>1. Inv => SequentialUseIsExact
    BY DEF Inv, Sequential, SequentialUseIsExact
  <1> QED
    BY <1>1, InvariantHolds, PTL
=============================================================================
