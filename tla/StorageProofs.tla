--------------------------- MODULE StorageProofs ---------------------------
(***************************************************************************)
(* Proofs about what is kept in files: the audit log (AuditChain), for     *)
(* every number of days, events and failures, and the snapshots            *)
(* (Rollback), for every set of files and contents.  Both need that sets   *)
(* of numbers have a least and a greatest member.                          *)
(***************************************************************************)
EXTENDS AuditChain, Rollback, FiniteSetTheorems, WellFoundedInduction, TLAPS

(***************************************************************************)
(* Induction on the natural numbers for a set of them, from the            *)
(* well-foundedness of their order.                                        *)
(***************************************************************************)
Less == {pair \in Nat \X Nat : pair[1] < pair[2]}

LEMMA LessIsOrder == OpToRel(<, Nat) = Less
  BY DEF OpToRel, Less

LEMMA LessWellFounded == IsWellFoundedOn(Less, Nat)
  BY NatLessThanWellFounded, LessIsOrder

\* A set of numbers that is not empty has a least member.
LEMMA LeastExists ==
    ASSUME NEW S, S \subseteq Nat, S # {}
    PROVE  \E m \in S : \A n \in S : m <= n
  <1>1. PICK m \in S : \A n \in S : ~(<<n, m>> \in Less)
    BY LessWellFounded, WFMin
  <1>2. \A n \in S : ~(n < m)
    BY <1>1 DEF Less
  <1> QED
    BY <1>2

\* If it is bounded, it has a greatest one.
LEMMA GreatestExists ==
    ASSUME NEW S, S \subseteq Nat, S # {}, NEW b \in Nat, \A n \in S : n <= b
    PROVE  \E m \in S : \A n \in S : m >= n
  <1> DEFINE above == {n \in Nat : \A k \in S : k <= n}
  <1>1. b \in above /\ above \subseteq Nat
    OBVIOUS
  <1> HIDE DEF above
  <1>2. PICK m \in above : \A n \in above : m <= n
    BY <1>1, LeastExists
  <1>3. m \in Nat /\ (\A k \in S : k <= m)
    BY <1>2 DEF above
  <1>4. m \in S
    <2> SUFFICES ASSUME m \notin S PROVE FALSE
      OBVIOUS
    <2>1. \A k \in S : k \in Nat /\ k <= m - 1
      BY <1>3
    <2>2. PICK k \in S : TRUE
      OBVIOUS
    <2>3. m - 1 \in Nat
      BY <1>3, <2>1, <2>2
    <2>4. m - 1 \in above
      BY <2>1, <2>3 DEF above
    <2> QED
      BY <1>2, <1>3, <2>4
  <1> QED
    BY <1>3, <1>4

\* What holds of 0 and of the successor of each number it holds of.
LEMMA NatSetInduction ==
    ASSUME NEW S, 0 \in S, \A n \in Nat : n \in S => n + 1 \in S
    PROVE  Nat \subseteq S
  <1> SUFFICES ASSUME Nat \ S # {} PROVE FALSE
    OBVIOUS
  <1>1. PICK m \in Nat \ S : \A n \in Nat \ S : m <= n
    BY LeastExists
  <1>2. m # 0 /\ m - 1 \in Nat
    OBVIOUS
  <1>3. m - 1 \in S
    BY <1>1, <1>2
  <1> QED
    BY <1>2, <1>3

-----------------------------------------------------------------------------
(***************************************************************************)
(* AuditChain: what the files of the log hold.  EventPlaces is ReadRange   *)
(* of any files, so that what is shown of it holds before and after a step.*)
(***************************************************************************)
EventPlaces(files) ==
    UNION {{d} \X {i \in DOMAIN files[d] : files[d][i].kind \in Parsed} :
              d \in {e \in Days : Decodable(files[e])}}

LEMMA ReadRangeIs == ReadRange = EventPlaces(file)
  BY DEF ReadRange, EventsOf, EventPlaces

LEMMA PlaceIs ==
    ASSUME NEW files \in [Days -> Seq(Line)], NEW p
    PROVE  p \in EventPlaces(files) <=>
              \E d \in Days, i \in Nat :
                  /\ p = <<d, i>>
                  /\ Decodable(files[d])
                  /\ i \in DOMAIN files[d]
                  /\ files[d][i].kind \in Parsed
  <1>1. \A d \in Days : DOMAIN files[d] \subseteq Nat
    OBVIOUS
  <1> QED
    BY <1>1 DEF EventPlaces

\* Writing a whole line to a file that ends with a newline.
LEMMA LineAdded ==
    ASSUME NEW f \in Seq(Line), NEW line \in Line, ~Unended(f)
    PROVE  /\ WithLine(f, line) = Append(f, line)
           /\ WithLine(f, line) \in Seq(Line)
           /\ ~Unended(WithLine(f, line)) <=> line.kind \notin Broken
  BY DEF WithLine, Unended, Last

(***************************************************************************)
(* Whatever is appended to a broken line is lost, and so is a beginning of *)
(* a line; the events that were there keep their places, but for the last  *)
(* one when it lacks its newline.                                          *)
(***************************************************************************)
KeepsEvents(f, g) ==
    /\ \A i \in DOMAIN g : g[i].kind \in Parsed => i \in DOMAIN f /\ g[i] = f[i]
    /\ \A i \in DOMAIN f : f[i].kind \in Parsed =>
          \/ i \in DOMAIN g /\ g[i] = f[i]
          \/ i = Len(f) /\ f[i].kind = "bare"

LEMMA LastReplaced ==
    ASSUME NEW f \in Seq(Line), Unended(f), NEW line \in Line, line.kind \notin Parsed
    PROVE  LET g == Front(f) \o <<line>>
           IN  /\ g \in Seq(Line)
               /\ g # <<>> /\ Last(g) = line
               /\ KeepsEvents(f, g)
               /\ Decodable(g) <=> /\ \A i \in 1..(Len(f) - 1) : f[i].kind \notin {"cut", "rotten"}
                                   /\ line.kind \notin {"cut", "rotten"}
  <1>1. Len(f) \in Nat \ {0} /\ f[Len(f)].kind \in Broken
    BY DEF Unended, Last
  <1> DEFINE g == Front(f) \o <<line>>
  <1>2. /\ Front(f) \in Seq(Line) /\ Len(Front(f)) = Len(f) - 1
        /\ \A i \in 1..(Len(f) - 1) : Front(f)[i] = f[i]
    <2>1. Front(f) = SubSeq(f, 1, Len(f) - 1) /\ Len(f) - 1 \in Nat
      BY <1>1 DEF Front
    <2>2. Front(f) = [i \in 1..(Len(f) - 1) |-> f[i]]
      BY <1>1, <2>1
    <2> QED
      BY <1>1, <2>2
  <1>3. /\ g \in Seq(Line) /\ Len(g) = Len(f) /\ g[Len(f)] = line
        /\ \A i \in 1..(Len(f) - 1) : g[i] = f[i]
    BY <1>1, <1>2
  <1> HIDE DEF g
  <1>4. DOMAIN g = 1..Len(f) /\ DOMAIN f = 1..Len(f)
    BY <1>3
  <1>5. KeepsEvents(f, g)
    <2>1. \A i \in 1..Len(f) : i = Len(f) \/ i \in 1..(Len(f) - 1)
      BY <1>1
    <2>2. f[Len(f)].kind \in Parsed => f[Len(f)].kind = "bare"
      BY <1>1 DEF Broken, Parsed
    <2> QED
      BY <1>3, <1>4, <2>1, <2>2 DEF KeepsEvents
  <1>6. Last(g) = line /\ g # <<>>
    BY <1>1, <1>3 DEF Last
  <1>7. Decodable(g) <=> /\ \A i \in 1..(Len(f) - 1) : f[i].kind \notin {"cut", "rotten"}
                         /\ line.kind \notin {"cut", "rotten"}
    BY <1>1, <1>3, <1>4 DEF Decodable
  <1> QED
    BY <1>3, <1>5, <1>6, <1>7 DEF g

LEMMA LineSpoiled ==
    ASSUME NEW f \in Seq(Line), NEW line \in Line, Unended(f)
    PROVE  /\ WithLine(f, line) \in Seq(Line)
           /\ ~Unended(WithLine(f, line))
           /\ KeepsEvents(f, WithLine(f, line))
           /\ Decodable(WithLine(f, line)) <=> Decodable(f)
  <1> DEFINE bad == Bad(Spoiled[Last(f).kind])
  <1>1. /\ Len(f) \in Nat \ {0} /\ Last(f) = f[Len(f)]
        /\ Last(f).kind \in {"bare", "torn", "cut"}
    BY DEF Unended, Last, Broken
  <1>2. /\ bad \in Line /\ bad.kind \notin Broken /\ bad.kind \notin Parsed
        /\ bad.kind \in {"cut", "rotten"} <=> Last(f).kind \in {"cut", "rotten"}
    BY <1>1 DEF Bad, Spoiled, Line, Broken, Parsed
  <1>3. WithLine(f, line) = Front(f) \o <<bad>>
    BY DEF WithLine
  <1> HIDE DEF bad
  <1>4. Decodable(f) <=> /\ \A i \in 1..(Len(f) - 1) : f[i].kind \notin {"cut", "rotten"}
                         /\ Last(f).kind \notin {"cut", "rotten"}
    BY <1>1 DEF Decodable
  <1> QED
    BY <1>2, <1>3, <1>4, LastReplaced DEF Unended

\* A part that is no event of its own.
LEMMA LineBroken ==
    ASSUME NEW f \in Seq(Line), NEW part \in Line, part.kind \in Broken,
           Unended(f) \/ part.kind # "bare"
    PROVE  /\ WithBroken(f, part) \in Seq(Line)
           /\ KeepsEvents(f, WithBroken(f, part))
           /\ Decodable(WithBroken(f, part)) => Decodable(f)
  <1>1. CASE Unended(f)
    <2> DEFINE bad == Bad(IF "cut" \in {Last(f).kind, part.kind} THEN "cut" ELSE "torn")
    <2>1. /\ Len(f) \in Nat \ {0} /\ Last(f) = f[Len(f)]
          /\ Last(f).kind \in {"bare", "torn", "cut"}
      BY <1>1 DEF Unended, Last, Broken
    <2>2. /\ bad \in Line /\ bad.kind \notin Parsed
          /\ bad.kind \notin {"cut", "rotten"} => Last(f).kind \notin {"cut", "rotten"}
      BY <2>1 DEF Bad, Line, Parsed
    <2>3. WithBroken(f, part) = Front(f) \o <<bad>>
      BY <1>1 DEF WithBroken
    <2> HIDE DEF bad
    <2>4. Decodable(f) <=> /\ \A i \in 1..(Len(f) - 1) : f[i].kind \notin {"cut", "rotten"}
                           /\ Last(f).kind \notin {"cut", "rotten"}
      BY <2>1 DEF Decodable
    <2> QED
      BY <1>1, <2>2, <2>3, <2>4, LastReplaced
  <1>2. CASE ~Unended(f)
    <2>1. part.kind \notin Parsed
      BY <1>2 DEF Broken, Parsed
    <2>2. WithBroken(f, part) = Append(f, part)
      BY <1>2 DEF WithBroken
    <2> QED
      BY <2>1, <2>2 DEF KeepsEvents, Decodable
  <1> QED
    BY <1>1, <1>2

(***************************************************************************)
(* A damaged file loses all of its events, none, or the last one if that   *)
(* lacks its newline.  Being the last file, it takes no event from between *)
(* two others.                                                             *)
(***************************************************************************)
LEMMA Damaged ==
    ASSUME ChainTypeOK, NEW g \in Seq(Line),
           file' = [file EXCEPT ![today] = g],
           Decodable(g) => Decodable(file[today]) /\ KeepsEvents(file[today], g)
    PROVE  /\ ReadRange' \subseteq ReadRange
           /\ \A p \in ReadRange' : LineAt(p)' = LineAt(p)
           /\ Breaks' \subseteq Breaks
           /\ Decodable(g) => \A p \in ReadRange \ ReadRange' : LineAt(p).kind = "bare"
  <1>1. /\ today \in Days /\ file \in [Days -> Seq(Line)]
        /\ \A d \in Days : d \in Nat /\ (d > today => file[d] = <<>>)
    BY BoundAssumption DEF ChainTypeOK, Days
  <1>2. /\ file' \in [Days -> Seq(Line)] /\ file'[today] = g
        /\ \A d \in Days : d # today => file'[d] = file[d]
    BY <1>1
  <1>3. ReadRange' = EventPlaces(file') /\ ReadRange = EventPlaces(file)
    BY ReadRangeIs DEF ReadRange, EventsOf, EventPlaces
  \* What is still read: it was there, not later than today.
  <1>4. ASSUME NEW d \in Days, NEW i \in Nat, Decodable(file'[d]), i \in DOMAIN file'[d],
               file'[d][i].kind \in Parsed
        PROVE  /\ Decodable(file[d]) /\ i \in DOMAIN file[d] /\ file[d][i] = file'[d][i]
               /\ d <= today /\ (d = today => Decodable(g))
    <2>1. d \in Nat /\ today \in Nat /\ ~(d > today)
      <3>1. file'[d] # <<>>
        BY <1>4
      <3> QED
        BY <1>1, <1>2, <3>1
    <2> QED
      BY <1>2, <1>4, <2>1 DEF KeepsEvents
  <1>5. ASSUME NEW p \in ReadRange'
        PROVE  p \in ReadRange /\ LineAt(p)' = LineAt(p)
    <2>1. PICK d \in Days, i \in Nat :
             p = <<d, i>> /\ Decodable(file'[d]) /\ i \in DOMAIN file'[d]
               /\ file'[d][i].kind \in Parsed
      <3>1. p \in EventPlaces(file') /\ file' \in [Days -> Seq(Line)]
        BY <1>2, <1>3, <1>5
      <3> QED
        BY <3>1, PlaceIs
    <2>2. Decodable(file[d]) /\ i \in DOMAIN file[d] /\ file[d][i] = file'[d][i]
      BY <1>4, <2>1
    <2>3. file[d][i].kind \in Parsed
      BY <2>1, <2>2
    <2>4. p \in EventPlaces(file)
      BY <1>1, <2>1, <2>2, <2>3, PlaceIs
    <2> QED
      BY <1>3, <2>1, <2>2, <2>4 DEF LineAt
  \* What is not read any more.
  <1>6. ASSUME NEW p \in ReadRange, p \notin ReadRange'
        PROVE  /\ p[1] = today
               /\ Decodable(g) => /\ p[2] = Len(file[today]) /\ LineAt(p).kind = "bare"
                                  /\ ~(p[2] \in DOMAIN g /\ g[p[2]] = file[today][p[2]])
    <2>1. PICK d \in Days, i \in Nat :
             p = <<d, i>> /\ Decodable(file[d]) /\ i \in DOMAIN file[d]
               /\ file[d][i].kind \in Parsed
      BY <1>1, <1>3, PlaceIs
    <2>2. ~(Decodable(file'[d]) /\ i \in DOMAIN file'[d] /\ file'[d][i] = file[d][i])
      BY <1>2, <1>3, <1>6, <2>1, PlaceIs
    <2>3. d = today
      BY <1>2, <2>1, <2>2
    <2> QED
      BY <1>2, <2>1, <2>2, <2>3 DEF KeepsEvents, LineAt
  <1>7. ASSUME NEW p \in ReadRange', NEW q \in ReadRange, q \notin ReadRange'
        PROVE  ~Before(q, p)
    <2>1. PICK d \in Days, i \in Nat :
             p = <<d, i>> /\ Decodable(file'[d]) /\ i \in DOMAIN file'[d]
               /\ file'[d][i].kind \in Parsed
      BY <1>2, <1>3, <1>7, PlaceIs
    <2>2. q[1] = today /\ today \in Nat /\ d \in Nat /\ d <= today
      BY <1>1, <1>4, <1>6, <1>7, <2>1
    <2>3. CASE d # today
      BY <2>1, <2>2, <2>3 DEF Before
    <2>4. CASE d = today
      <3>1. Decodable(g) /\ i \in DOMAIN file[today] /\ q[2] = Len(file[today])
        BY <1>4, <1>6, <1>7, <2>1, <2>4
      <3>2. i <= q[2] /\ q[2] \in Nat
        BY <1>1, <3>1
      <3> QED
        BY <2>1, <2>2, <2>4, <3>2 DEF Before
    <2> QED
      BY <2>3, <2>4
  <1>8. ASSUME NEW q \in Breaks'
        PROVE  q \in Breaks
    <2>1. PICK p \in ReadRange' :
             q \in ReadRange' /\ ReadNext(p, q)' /\ LineAt(q)'.prev # LineAt(p)'.hash
      BY <1>8 DEF Breaks
    <2>2. Before(p, q) /\ ~\E r \in ReadRange' : Before(p, r) /\ Before(r, q)
      BY <2>1 DEF ReadNext, Before
    <2>3. ReadNext(p, q)
      BY <1>7, <2>1, <2>2 DEF ReadNext
    <2> QED
      BY <1>5, <2>1, <2>3 DEF Breaks
  <1> QED
    BY <1>5, <1>6, <1>8

\* A new event of a readable file is the last one, and the only one that can
\* be a new break.
LEMMA Extended ==
    ASSUME ChainTypeOK, NEW line \in Line, line.kind \in Parsed,
           Decodable(file[today]),
           file' = [file EXCEPT ![today] = Append(@, line)],
           NEW p, p = <<today, Len(file[today]) + 1>>
    PROVE  /\ ReadRange' = ReadRange \cup {p}
           /\ LineAt(p)' = line
           /\ \A q \in ReadRange : LineAt(q)' = LineAt(q)
           /\ Breaks' \subseteq Breaks \cup {p}
           /\ p \in Breaks' =>
                 \E q \in ReadRange : /\ \A r \in ReadRange : ~Before(q, r)
                                     /\ line.prev # LineAt(q).hash
  <1> DEFINE n == Len(file[today])
             g == Append(file[today], line)
  <1>1. /\ today \in Days /\ today \in Nat /\ file \in [Days -> Seq(Line)]
        /\ \A d \in Days : d \in Nat /\ (d > today => file[d] = <<>>)
        /\ n \in Nat
    BY BoundAssumption DEF ChainTypeOK, Days
  <1>2. /\ g \in Seq(Line) /\ DOMAIN g = DOMAIN file[today] \cup {n + 1}
        /\ g[n + 1] = line /\ n + 1 \notin DOMAIN file[today]
        /\ DOMAIN file[today] = 1..n
        /\ \A i \in DOMAIN file[today] : g[i] = file[today][i]
    BY <1>1
  <1>3. Decodable(g)
    BY <1>2 DEF Decodable, Parsed
  <1> HIDE DEF g
  <1>4. /\ file' \in [Days -> Seq(Line)] /\ file'[today] = g
        /\ \A d \in Days : d # today => file'[d] = file[d]
    BY <1>1, <1>2 DEF g
  <1> HIDE DEF n
  <1>5. ReadRange' = EventPlaces(file') /\ ReadRange = EventPlaces(file)
    BY ReadRangeIs DEF ReadRange, EventsOf, EventPlaces
  <1>6. p = <<today, n + 1>>
    BY DEF n
  <1>7. p \in ReadRange' /\ LineAt(p)' = line
    <2>1. /\ n + 1 \in Nat /\ n + 1 \in DOMAIN file'[today]
          /\ file'[today][n + 1] = line /\ Decodable(file'[today])
      <3>1. n + 1 \in DOMAIN g /\ n + 1 \in Nat
        BY <1>1, <1>2
      <3> QED
        BY <1>2, <1>3, <1>4, <3>1
    <2>2. p \in EventPlaces(file')
      <3>1. file'[today][n + 1].kind \in Parsed /\ file' \in [Days -> Seq(Line)]
        BY <1>4, <2>1
      <3> QED
        BY <1>1, <1>6, <2>1, <3>1, PlaceIs
    <2> QED
      BY <1>2, <1>4, <1>5, <1>6, <2>2 DEF LineAt
  <1>8. ASSUME NEW q \in ReadRange
        PROVE  /\ q \in ReadRange' /\ LineAt(q)' = LineAt(q)
               /\ q[1] \in Nat /\ q[2] \in Nat
               /\ Before(q, p) /\ ~Before(p, q) /\ q # p
    <2>1. PICK d \in Days, i \in Nat :
             q = <<d, i>> /\ Decodable(file[d]) /\ i \in DOMAIN file[d]
               /\ file[d][i].kind \in Parsed
      BY <1>1, <1>5, PlaceIs
    <2>2. Decodable(file'[d]) /\ i \in DOMAIN file'[d] /\ file'[d][i] = file[d][i]
      BY <1>2, <1>3, <1>4, <2>1
    <2>3. file'[d][i].kind \in Parsed
      BY <2>1, <2>2
    <2>4. q \in EventPlaces(file')
      BY <1>4, <2>1, <2>2, <2>3, PlaceIs
    <2>5. d < today \/ (d = today /\ i < n + 1)
      <3>1. file[d] # <<>>
        BY <2>1
      <3>2. ~(d > today)
        BY <1>1, <3>1
      <3>3. CASE d = today
        BY <1>1, <1>2, <2>1, <3>3
      <3> QED
        BY <1>1, <3>2, <3>3
    <2>6. Before(q, p) /\ ~Before(p, q) /\ q # p
      BY <1>1, <1>6, <2>1, <2>5 DEF Before
    <2>7. LineAt(q)' = LineAt(q)
      BY <2>1, <2>2 DEF LineAt
    <2> QED
      <3>1. d \in Nat /\ q[1] = d /\ q[2] = i
        BY <1>1, <2>1
      <3> QED
        BY <1>5, <2>1, <2>4, <2>6, <2>7, <3>1
  <1>9. ASSUME NEW q \in ReadRange'
        PROVE  q \in ReadRange \cup {p}
    <2>1. PICK d \in Days, i \in Nat :
             q = <<d, i>> /\ Decodable(file'[d]) /\ i \in DOMAIN file'[d]
               /\ file'[d][i].kind \in Parsed
      <3>1. q \in EventPlaces(file') /\ file' \in [Days -> Seq(Line)]
        BY <1>4, <1>5, <1>9
      <3> QED
        BY <3>1, PlaceIs
    <2>2. CASE d = today /\ i = n + 1
      BY <1>6, <2>1, <2>2
    <2>3. CASE ~(d = today /\ i = n + 1)
      <3>1. Decodable(file[d]) /\ i \in DOMAIN file[d] /\ file[d][i] = file'[d][i]
        BY <1>2, <1>4, <2>1, <2>3
      <3>2. file[d][i].kind \in Parsed
        BY <2>1, <3>1
      <3>3. q \in EventPlaces(file)
        BY <1>1, <2>1, <3>1, <3>2, PlaceIs
      <3> QED
        BY <1>5, <3>3
    <2> QED
      BY <2>2, <2>3
  <1>10. ReadRange' = ReadRange \cup {p}
    BY <1>7, <1>8, <1>9
  <1>11. ~Before(p, p)
    BY <1>1, <1>6 DEF Before
  <1>12. ASSUME NEW q \in Breaks', q # p
         PROVE  q \in Breaks
    <2>1. PICK r \in ReadRange' :
             q \in ReadRange' /\ ReadNext(r, q)' /\ LineAt(q)'.prev # LineAt(r)'.hash
      BY <1>12 DEF Breaks
    <2>2. Before(r, q) /\ ~\E x \in ReadRange' : Before(r, x) /\ Before(x, q)
      BY <2>1 DEF ReadNext, Before
    <2>3. q \in ReadRange /\ r \in ReadRange
      BY <1>8, <1>10, <1>12, <2>1, <2>2
    <2>4. ReadNext(r, q)
      BY <1>10, <2>2 DEF ReadNext
    <2> QED
      BY <1>8, <2>1, <2>3, <2>4 DEF Breaks
  <1>13. ASSUME p \in Breaks'
         PROVE  \E q \in ReadRange : /\ \A r \in ReadRange : ~Before(q, r)
                                    /\ line.prev # LineAt(q).hash
    <2>1. PICK q \in ReadRange' :
             ReadNext(q, p)' /\ LineAt(p)'.prev # LineAt(q)'.hash
      BY <1>13 DEF Breaks
    <2>2. Before(q, p) /\ ~\E x \in ReadRange' : Before(q, x) /\ Before(x, p)
      BY <2>1 DEF ReadNext, Before
    <2>3. q \in ReadRange
      BY <1>10, <1>11, <2>1, <2>2
    <2>4. \A r \in ReadRange : ~Before(q, r)
      BY <1>8, <1>10, <2>2
    <2> QED
      BY <1>7, <1>8, <2>1, <2>3, <2>4
  <1> QED
    BY <1>7, <1>8, <1>10, <1>12, <1>13

(***************************************************************************)
(* What the next event is chained to is a hash, and it has its type.       *)
(***************************************************************************)
LEMMA MaxExists ==
    ASSUME NEW S, S \subseteq Nat, S # {}, NEW b \in Nat, \A n \in S : n <= b
    PROVE  Max(S) \in S /\ \A n \in S : Max(S) >= n
  BY GreatestExists DEF Max

LEMMA SearchEndsMax ==
    ASSUME ChainTypeOK, SearchEnds # {}
    PROVE  /\ Max(SearchEnds) \in SearchEnds
           /\ \A d \in SearchEnds : Max(SearchEnds) >= d
  <1>1. SearchEnds \subseteq Nat /\ MaxDay \in Nat /\ \A d \in SearchEnds : d <= MaxDay
    BY BoundAssumption DEF SearchEnds, Days
  <1> QED
    BY <1>1, MaxExists

LEMMA EventType ==
    ChainTypeOK => /\ Event \in Line /\ Event.kind = "event"
                   /\ \A kind \in Broken : Part(kind) \in Line /\ Part(kind).kind = kind
                   /\ Part("bare").hash = made + 1
  <1> SUFFICES ASSUME ChainTypeOK
               PROVE  /\ Event \in Line
                      /\ \A kind \in Broken : Part(kind) \in Line /\ Part(kind).kind = kind
                      /\ Part("bare").hash = made + 1
    BY DEF Event
  <1>1. made \in Nat /\ lastHash \in Nat /\ file \in [Days -> Seq(Line)]
    BY BoundAssumption DEF ChainTypeOK
  <1>2. SeedHash \in Nat
    <2>1. CASE SearchEnds = {}
      BY <2>1 DEF SeedHash
    <2>2. CASE SearchEnds # {}
      <3> DEFINE f == file[Max(SearchEnds)]
      <3>1. f \in Seq(Line) /\ f # <<>>
        BY <1>1, <2>2, SearchEndsMax DEF SearchEnds
      <3>2. f[Len(f)] \in Line
        BY <3>1
      <3>3. SeedHash = f[Len(f)].hash
        BY <2>2 DEF SeedHash, Last
      <3> HIDE DEF f
      <3> QED
        BY <3>2, <3>3 DEF Line
    <2> QED
      BY <2>1, <2>2
  <1>3. Prev \in Nat /\ made + 1 \in Nat
    BY <1>1, <1>2 DEF Prev
  <1>4. Event = [kind |-> "event", hash |-> made + 1, prev |-> Prev] /\ Event \in Line
    BY <1>3 DEF Event, Line
  <1>5. Part("bare") = [kind |-> "bare", hash |-> made + 1, prev |-> Prev]
    BY <1>4 DEF Part
  <1>6. \A kind \in Broken : kind # "bare" => Part(kind) = [kind |-> kind, hash |-> 0, prev |-> 0]
    BY DEF Part, Bad
  <1> QED
    BY <1>3, <1>4, <1>5, <1>6 DEF Broken, Line

(***************************************************************************)
(* What a write does to the file of the day.                               *)
(***************************************************************************)
LEMMA Written ==
    ASSUME ChainTypeOK, Write
    PROVE  LET f == file[today]
               g == WithLine(f, Event)
           IN  /\ file' = [file EXCEPT ![today] = g]
               /\ g \in Seq(Line) /\ ~Unended(g)
               /\ ~Unended(f) => g = Append(f, Event)
               /\ Unended(f) \/ ~Decodable(f) =>
                     (Decodable(g) => Decodable(f) /\ KeepsEvents(f, g))
  <1> DEFINE f == file[today]
             g == WithLine(f, Event)
  <1>1. file' = [file EXCEPT ![today] = g]
    BY DEF Write, DailyPath
  <1>2. f \in Seq(Line) /\ Event \in Line /\ Event.kind = "event"
    BY EventType DEF ChainTypeOK
  <1> HIDE DEF f
  <1>3. CASE Unended(f)
    BY <1>1, <1>2, <1>3, LineSpoiled DEF f
  <1>4. CASE ~Unended(f)
    <2>1. g = Append(f, Event) /\ g \in Seq(Line) /\ ~Unended(g)
      BY <1>2, <1>4, LineAdded DEF Broken
    <2>2. Decodable(g) => Decodable(f)
      BY <1>2, <2>1 DEF Decodable
    <2> QED
      BY <1>1, <1>4, <2>1, <2>2 DEF f
  <1> QED
    BY <1>3, <1>4

LEMMA WrittenPart ==
    ASSUME ChainTypeOK, NEW kind \in Broken, WriteBreaks(kind)
    PROVE  LET f == file[today]
               g == WithBroken(f, Part(kind))
           IN  /\ file' = [file EXCEPT ![today] = g]
               /\ g \in Seq(Line)
               /\ \/ Decodable(g) => Decodable(f) /\ KeepsEvents(f, g)
                  \/ kind = "bare" /\ Decodable(f) /\ g = Append(f, Part("bare"))
  <1> DEFINE f == file[today]
             g == WithBroken(f, Part(kind))
  <1>1. file' = [file EXCEPT ![today] = g] /\ f \in Seq(Line)
    BY DEF ChainTypeOK, WriteBreaks, DailyPath
  <1>2. Part(kind) \in Line /\ Part(kind).kind = kind
    BY EventType
  <1> HIDE DEF f
  <1>3. CASE Unended(f) \/ kind # "bare"
    BY <1>1, <1>2, <1>3, LineBroken DEF f
  <1>4. CASE ~Unended(f) /\ kind = "bare"
    <2>1. g = Append(f, Part(kind))
      BY <1>4 DEF WithBroken
    <2>2. Decodable(g) => Decodable(f)
      BY <1>1, <1>2, <2>1 DEF Decodable
    <2> QED
      BY <1>1, <1>2, <1>4, <2>1, <2>2 DEF f
  <1> QED
    BY <1>3, <1>4

LEMMA ChainTypeStep == ChainTypeOK /\ [ChainNext]_chainVars => ChainTypeOK'
  <1> SUFFICES ASSUME ChainTypeOK, [ChainNext]_chainVars PROVE ChainTypeOK'
    OBVIOUS
  <1> USE BoundAssumption
  <1>1. ASSUME NEW g \in Seq(Line), file' = [file EXCEPT ![today] = g],
               MakeEvent, UNCHANGED today, failed' \in 0..MaxFailures,
               acked' \subseteq acked \cup {made + 1}
        PROVE  ChainTypeOK'
    <2>1. /\ file' \in [Days -> Seq(Line)]
          /\ \A d \in Days : d > today' => file'[d] = <<>>
      BY <1>1 DEF ChainTypeOK, Days
    <2> QED
      BY <1>1, <2>1 DEF ChainTypeOK, MakeEvent
  <1>2. CASE NextDay
    BY <1>2 DEF NextDay, ChainTypeOK, Days
  <1>3. CASE Write
    BY <1>1, <1>3, Written DEF Write, ChainTypeOK
  <1>4. CASE WriteRaises
    BY <1>4 DEF WriteRaises, MakeEvent, ChainTypeOK
  <1>5. ASSUME NEW kind \in Broken, WriteBreaks(kind)
        PROVE  ChainTypeOK'
    <2>1. MakeEvent /\ today' = today /\ failed' \in 0..MaxFailures /\ acked' = acked
      BY <1>5 DEF WriteBreaks, ChainTypeOK
    <2>2. PICK g \in Seq(Line) : file' = [file EXCEPT ![today] = g]
      BY <1>5, WrittenPart
    <2> QED
      BY <1>1, <2>1, <2>2
  <1>6. CASE SeedFails
    BY <1>6 DEF SeedFails, ChainTypeOK
  <1>7. CASE Restart
    <2>1. made \in Nat /\ 0 \in 0..made
      BY DEF ChainTypeOK
    <2> QED
      BY <1>7, <2>1 DEF Restart, ChainTypeOK
  <1>8. CASE UNCHANGED chainVars
    BY <1>8 DEF chainVars, ChainTypeOK
  <1> QED
    BY <1>2, <1>3, <1>4, <1>5, <1>6, <1>7, <1>8 DEF ChainNext

LEMMA ChainTypeInit == ChainInit => ChainTypeOK
  <1> SUFFICES ASSUME ChainInit PROVE ChainTypeOK
    OBVIOUS
  <1>1. <<>> \in Seq(Line)
    OBVIOUS
  <1>2. /\ 1 \in Days /\ 0 \in 0..0
        /\ 0 \in 0..MaxEvents /\ 0 \in 0..MaxFailures
    BY BoundAssumption DEF Days
  <1>3. /\ file \in [Days -> Seq(Line)]
        /\ \A d \in Days : file[d] = <<>>
    BY <1>1 DEF ChainInit
  <1> QED
    BY <1>2, <1>3 DEF ChainInit, ChainTypeOK

-----------------------------------------------------------------------------
(***************************************************************************)
(* BreaksAreFailures is not inductive.  The chain is smooth when the next  *)
(* event will follow the last one that is read; while it is not, one more  *)
(* append has failed than breaks have shown.                               *)
(***************************************************************************)
Smooth ==
    \/ ReadRange = {}
    \/ \E d \in Days :
          /\ file[d] # <<>>
          /\ \A e \in Days : e > d => file[e] = <<>>
          /\ Decodable(file[d])
          /\ Last(file[d]).kind = "event"
          /\ seeded => lastHash = Last(file[d]).hash

BreaksPaid ==
    /\ IsFiniteSet(ReadRange)
    /\ Cardinality(Breaks) + (IF Smooth THEN 0 ELSE 1) <= failed

\* The last file of a smooth chain is where the seed is found.
LEMMA SmoothSeed ==
    ASSUME ChainTypeOK, NEW d \in Days,
           file[d] # <<>>, \A e \in Days : e > d => file[e] = <<>>,
           Decodable(file[d]), Last(file[d]).kind = "event"
    PROVE  ~SeedRaises /\ SeedHash = Last(file[d]).hash
  <1>1. d \in SearchEnds /\ d \in Nat
    BY BoundAssumption DEF SearchEnds, Days, Parsed
  <1>2. \A e \in SearchEnds : e \in Nat /\ e <= d
    BY BoundAssumption DEF SearchEnds, Days
  <1>3. Max(SearchEnds) = d
    <2>1. PICK e \in SearchEnds : e = Max(SearchEnds) /\ e >= d
      BY <1>1, SearchEndsMax
    <2>2. e = d
      BY <1>1, <1>2, <2>1
    <2> QED
      BY <2>1, <2>2
  <1> QED
    BY <1>1, <1>3 DEF SeedRaises, SeedHash

\* An event written to a smooth chain follows the last one.
LEMMA SmoothFollows ==
    ASSUME ChainTypeOK, Smooth, seeded \/ ~SeedRaises,
           NEW q \in ReadRange, \A r \in ReadRange : ~Before(q, r)
    PROVE  Event.prev = LineAt(q).hash
  <1>1. PICK d \in Days :
          /\ file[d] # <<>>
          /\ \A e \in Days : e > d => file[e] = <<>>
          /\ Decodable(file[d])
          /\ Last(file[d]).kind = "event"
          /\ seeded => lastHash = Last(file[d]).hash
    BY DEF Smooth
  <1>2. Event.prev = Last(file[d]).hash
    BY <1>1, SmoothSeed DEF Event, Prev
  <1>3. file \in [Days -> Seq(Line)] /\ \A e \in Days : e \in Nat
    BY BoundAssumption DEF ChainTypeOK, Days
  <1> DEFINE m == Len(file[d])
  <1>4. m \in Nat /\ DOMAIN file[d] = 1..m /\ m \in 1..m
    BY <1>1, <1>3
  <1>5. <<d, m>> \in ReadRange
    <2>1. file[d][m].kind \in Parsed
      BY <1>1 DEF Last, Parsed
    <2> QED
      BY <1>1, <1>3, <1>4, <2>1, PlaceIs, ReadRangeIs
  <1>6. PICK e \in Days, i \in Nat : q = <<e, i>> /\ i \in DOMAIN file[e]
    BY <1>3, PlaceIs, ReadRangeIs
  <1>7. e <= d
    BY <1>1, <1>3, <1>6
  <1> HIDE DEF m
  <1>8. e = d /\ i = m
    BY <1>3, <1>4, <1>5, <1>6, <1>7 DEF Before
  <1> QED
    BY <1>2, <1>6, <1>8 DEF LineAt, Last, m

LEMMA FewerBreaks ==
    ASSUME IsFiniteSet(ReadRange),
           ReadRange' \subseteq ReadRange, Breaks' \subseteq Breaks
    PROVE  /\ IsFiniteSet(ReadRange')
           /\ Cardinality(Breaks) \in Nat /\ Cardinality(Breaks') \in Nat
           /\ Cardinality(Breaks') <= Cardinality(Breaks)
  <1>1. Breaks \subseteq ReadRange
    BY DEF Breaks
  <1>2. IsFiniteSet(Breaks) /\ IsFiniteSet(Breaks') /\ IsFiniteSet(ReadRange')
    BY <1>1, FS_Subset
  <1> QED
    BY <1>2, FS_Subset, FS_CardinalityType

\* One more event that is read.
LEMMA MoreBreaks ==
    ASSUME IsFiniteSet(ReadRange), NEW p,
           ReadRange' = ReadRange \cup {p}, Breaks' \subseteq Breaks \cup {p}
    PROVE  /\ IsFiniteSet(ReadRange')
           /\ Cardinality(Breaks) \in Nat /\ Cardinality(Breaks') \in Nat
           /\ Cardinality(Breaks') <= Cardinality(Breaks) + 1
           /\ Breaks' \subseteq Breaks => Cardinality(Breaks') <= Cardinality(Breaks)
  <1>1. IsFiniteSet(ReadRange') /\ IsFiniteSet(Breaks)
    <2>1. Breaks \subseteq ReadRange
      BY DEF Breaks
    <2> QED
      BY <2>1, FS_AddElement, FS_Subset
  <1>2. /\ IsFiniteSet(Breaks \cup {p})
        /\ Cardinality(Breaks \cup {p})
              = IF p \in Breaks THEN Cardinality(Breaks) ELSE Cardinality(Breaks) + 1
    BY <1>1, FS_AddElement
  <1>3. /\ IsFiniteSet(Breaks')
        /\ Cardinality(Breaks') <= Cardinality(Breaks \cup {p})
    BY <1>2, FS_Subset
  <1>4. /\ Cardinality(Breaks) \in Nat /\ Cardinality(Breaks') \in Nat
        /\ Cardinality(Breaks \cup {p}) \in Nat
    BY <1>1, <1>2, <1>3, FS_CardinalityType
  <1>5. Breaks' \subseteq Breaks => Cardinality(Breaks') <= Cardinality(Breaks)
    BY <1>1, FS_Subset
  <1> QED
    BY <1>1, <1>2, <1>3, <1>4, <1>5

LEMMA BreaksStep ==
    ChainTypeOK /\ BreaksPaid /\ [ChainNext]_chainVars => BreaksPaid'
  <1> SUFFICES ASSUME ChainTypeOK, BreaksPaid, [ChainNext]_chainVars PROVE BreaksPaid'
    OBVIOUS
  <1>1. /\ IsFiniteSet(ReadRange) /\ failed \in Nat
        /\ Cardinality(Breaks) + (IF Smooth THEN 0 ELSE 1) <= failed
    BY BoundAssumption DEF BreaksPaid, ChainTypeOK
  <1>2. ASSUME ReadRange' \subseteq ReadRange, Breaks' \subseteq Breaks,
               failed' \in Nat, failed' >= failed,
               failed' = failed + 1 \/ (Smooth => Smooth')
        PROVE  BreaksPaid'
    <2>1. /\ IsFiniteSet(ReadRange')
          /\ Cardinality(Breaks) \in Nat /\ Cardinality(Breaks') \in Nat
          /\ Cardinality(Breaks') <= Cardinality(Breaks)
      BY <1>1, <1>2, FewerBreaks
    <2> QED
      BY <1>1, <1>2, <2>1 DEF BreaksPaid
  <1>3. ASSUME file' = file
        PROVE  ReadRange' = ReadRange /\ Breaks' = Breaks
    BY <1>3 DEF ReadRange, EventsOf, Breaks, ReadNext, LineAt, Before
  <1>4. ASSUME file' = file, seeded' => seeded /\ lastHash' = lastHash
        PROVE  Smooth => Smooth'
    BY <1>3, <1>4 DEF Smooth
  <1>5. CASE NextDay
    BY <1>1, <1>2, <1>3, <1>4, <1>5 DEF NextDay
  <1>6. CASE Write
    <2> DEFINE f == file[today]
               g == WithLine(f, Event)
    <2>1. /\ file' = [file EXCEPT ![today] = g] /\ g \in Seq(Line)
          /\ ~Unended(f) => g = Append(f, Event)
          /\ Unended(f) \/ ~Decodable(f) =>
                (Decodable(g) => Decodable(f) /\ KeepsEvents(f, g))
      BY <1>6, Written
    <2>2. /\ failed' = failed /\ today' = today
          /\ seeded \/ ~SeedRaises
          /\ lastHash' = Event.hash
      BY <1>6 DEF Write, MakeEvent, Event
    <2> HIDE DEF g
    <2>3. CASE Unended(f) \/ ~Decodable(f)
      <3>1. ReadRange' \subseteq ReadRange /\ Breaks' \subseteq Breaks
        BY <2>1, <2>3, Damaged
      <3>2. Smooth => ReadRange = {}
        <4> SUFFICES ASSUME NEW d \in Days, file[d] # <<>>,
                            \A e \in Days : e > d => file[e] = <<>>,
                            Decodable(file[d]), Last(file[d]).kind = "event"
                     PROVE  FALSE
          BY DEF Smooth
        <4>1. ~Unended(file[d])
          BY DEF Unended, Broken
        <4>2. today # d /\ today \in Nat /\ d \in Nat /\ today \in Days
          BY <2>3, <4>1, BoundAssumption DEF ChainTypeOK, Days
        <4>3. file[today] = <<>>
          BY <4>2 DEF ChainTypeOK
        <4> QED
          BY <2>3, <4>3 DEF Unended, Decodable
      <3>3. Smooth => Smooth'
        BY <3>1, <3>2 DEF Smooth
      <3> QED
        <4>1. failed' \in Nat /\ failed' >= failed
          BY <1>1, <2>2
        <4> QED
          BY <1>2, <3>1, <3>3, <4>1
    <2>4. CASE ~Unended(f) /\ Decodable(f)
      <3> DEFINE p == <<today, Len(f) + 1>>
      <3>1. /\ g = Append(f, Event) /\ Event \in Line /\ Event.kind = "event"
            /\ Event.kind \in Parsed
        BY <2>1, <2>4, EventType DEF Parsed
      <3>2. /\ ReadRange' = ReadRange \cup {p}
            /\ Breaks' \subseteq Breaks \cup {p}
            /\ p \in Breaks' =>
                  \E q \in ReadRange : /\ \A r \in ReadRange : ~Before(q, r)
                                      /\ Event.prev # LineAt(q).hash
        BY <2>1, <2>4, <3>1, Extended
      <3> HIDE DEF p
      <3>3. Smooth => Breaks' \subseteq Breaks
        BY <2>2, <3>2, SmoothFollows
      <3>4. Smooth'
        <4>1. /\ today \in Days /\ f \in Seq(Line) /\ file \in [Days -> Seq(Line)]
              /\ \A d \in Days : d > today => file[d] = <<>>
          BY DEF ChainTypeOK
        <4>2. /\ g # <<>> /\ Last(g) = Event /\ Decodable(g)
          BY <2>4, <3>1, <4>1 DEF Last, Decodable
        <4>3. file'[today] = g /\ \A d \in Days : d > today => file'[d] = <<>>
          BY <2>1, <4>1, BoundAssumption DEF Days
        <4> QED
          BY <2>2, <3>1, <4>1, <4>2, <4>3 DEF Smooth
      <3>6. /\ IsFiniteSet(ReadRange')
            /\ Cardinality(Breaks) \in Nat /\ Cardinality(Breaks') \in Nat
            /\ Cardinality(Breaks') <= Cardinality(Breaks) + IF Smooth THEN 0 ELSE 1
        BY <1>1, <3>2, <3>3, MoreBreaks
      <3> QED
        <4>1. Cardinality(Breaks') <= failed'
          BY <1>1, <2>2, <3>6
        <4>2. Cardinality(Breaks') + (IF Smooth' THEN 0 ELSE 1) <= failed'
          BY <3>4, <3>6, <4>1
        <4> QED
          BY <3>6, <4>2 DEF BreaksPaid
    <2> QED
      BY <2>3, <2>4
  <1>7. CASE WriteRaises
    BY <1>1, <1>2, <1>3, <1>7 DEF WriteRaises
  <1>8. ASSUME NEW kind \in Broken, WriteBreaks(kind)
        PROVE  BreaksPaid'
    <2> DEFINE f == file[today]
               g == WithBroken(f, Part(kind))
    <2>1. /\ file' = [file EXCEPT ![today] = g] /\ g \in Seq(Line)
          /\ \/ Decodable(g) => Decodable(f) /\ KeepsEvents(f, g)
             \/ kind = "bare" /\ Decodable(f) /\ g = Append(f, Part("bare"))
      BY <1>8, WrittenPart
    <2>2. failed' = failed + 1 /\ (seeded \/ ~SeedRaises)
      BY <1>8 DEF WriteBreaks, MakeEvent
    <2> HIDE DEF g
    <2>3. CASE Decodable(g) => Decodable(f) /\ KeepsEvents(f, g)
      <3>1. ReadRange' \subseteq ReadRange /\ Breaks' \subseteq Breaks
        BY <2>1, <2>3, Damaged
      <3> QED
        BY <1>1, <1>2, <2>2, <3>1
    <2>4. CASE kind = "bare" /\ Decodable(f) /\ g = Append(f, Part("bare"))
      <3> DEFINE p == <<today, Len(f) + 1>>
      <3>1. /\ Part("bare") \in Line /\ Part("bare").kind \in Parsed
            /\ Part("bare").prev = Event.prev
        BY EventType DEF Broken, Parsed, Part, Event
      <3>2. /\ ReadRange' = ReadRange \cup {p}
            /\ Breaks' \subseteq Breaks \cup {p}
            /\ p \in Breaks' =>
                  \E q \in ReadRange : /\ \A r \in ReadRange : ~Before(q, r)
                                      /\ Part("bare").prev # LineAt(q).hash
        BY <2>1, <2>4, <3>1, Extended
      <3> HIDE DEF p
      <3>3. Smooth => Breaks' \subseteq Breaks
        BY <2>2, <3>1, <3>2, SmoothFollows
      <3>4. /\ IsFiniteSet(ReadRange')
            /\ Cardinality(Breaks) \in Nat /\ Cardinality(Breaks') \in Nat
            /\ Cardinality(Breaks') <= Cardinality(Breaks) + 1
            /\ Smooth => Cardinality(Breaks') <= Cardinality(Breaks)
        BY <1>1, <3>2, <3>3, MoreBreaks
      <3>5. Cardinality(Breaks') + 1 <= failed'
        BY <1>1, <2>2, <3>4
      <3>6. Cardinality(Breaks') + (IF Smooth' THEN 0 ELSE 1) <= failed'
        BY <1>1, <2>2, <3>4, <3>5
      <3> QED
        BY <3>4, <3>6 DEF BreaksPaid
    <2> QED
      BY <2>1, <2>3, <2>4
  <1>9. CASE SeedFails
    <2>1. Smooth => ReadRange = {}
      BY <1>9, SmoothSeed DEF Smooth, SeedFails
    <2>2. Smooth => Smooth'
      BY <1>3, <1>9, <2>1 DEF Smooth, SeedFails
    <2> QED
      BY <1>1, <1>2, <1>3, <1>9, <2>2 DEF SeedFails
  <1>10. CASE Restart
    BY <1>1, <1>2, <1>3, <1>4, <1>10 DEF Restart
  <1>11. CASE UNCHANGED chainVars
    BY <1>1, <1>2, <1>3, <1>4, <1>11 DEF chainVars
  <1> QED
    BY <1>5, <1>6, <1>7, <1>8, <1>9, <1>10, <1>11 DEF ChainNext

-----------------------------------------------------------------------------
(***************************************************************************)
(* LossIsBounded is not inductive either: a broken line at the end of the  *)
(* day's file is a failure that has not cost its event yet, and an event   *)
(* without its newline is none whose write returned.  A file that cannot   *)
(* be decoded stays so.                                                    *)
(***************************************************************************)
LossPaid ==
    (\A d \in Days : Decodable(file[d])) =>
        Cardinality(acked \ Readable) + (IF Unended(file[today]) THEN 1 ELSE 0)
            <= failed

BareNotAcked ==
    \A p \in ReadRange :
        LineAt(p).kind = "bare" => LineAt(p).hash \in (1..made) \ acked

\* How the number of lost events changes with the set of them.
LEMMA Losses ==
    ASSUME ChainTypeOK, NEW S, NEW x, S \subseteq (acked \ Readable) \cup {x}
    PROVE  /\ Cardinality(S) \in Nat /\ Cardinality(acked \ Readable) \in Nat
           /\ Cardinality(S) <= Cardinality(acked \ Readable) + 1
           /\ S \subseteq acked \ Readable => Cardinality(S) <= Cardinality(acked \ Readable)
  <1> DEFINE L == acked \ Readable
  <1>1. IsFiniteSet(L)
    <2>1. made \in Nat
      BY BoundAssumption DEF ChainTypeOK
    <2>2. L \subseteq 1..made
      BY DEF ChainTypeOK
    <2>3. IsFiniteSet(1..made)
      BY <2>1, FS_Interval
    <2> QED
      BY <2>2, <2>3, FS_Subset
  <1>2. /\ IsFiniteSet(L \cup {x})
        /\ Cardinality(L \cup {x}) = IF x \in L THEN Cardinality(L) ELSE Cardinality(L) + 1
    BY <1>1, FS_AddElement
  <1>3. Cardinality(L) \in Nat /\ Cardinality(L \cup {x}) \in Nat
    BY <1>1, <1>2, FS_CardinalityType
  <1>4. IsFiniteSet(S) /\ Cardinality(S) <= Cardinality(L \cup {x})
    BY <1>2, FS_Subset
  <1>5. Cardinality(S) \in Nat
    BY <1>4, FS_CardinalityType
  <1>6. S \subseteq L => Cardinality(S) <= Cardinality(L)
    BY <1>1, FS_Subset
  <1> QED
    BY <1>2, <1>3, <1>4, <1>5, <1>6

LEMMA BareStep == ChainTypeOK /\ BareNotAcked /\ [ChainNext]_chainVars => BareNotAcked'
  <1> SUFFICES ASSUME ChainTypeOK, BareNotAcked, [ChainNext]_chainVars PROVE BareNotAcked'
    OBVIOUS
  <1>1. made \in Nat /\ acked \subseteq 1..made
    BY BoundAssumption DEF ChainTypeOK
  <1>2. ASSUME ReadRange' \subseteq ReadRange, \A p \in ReadRange' : LineAt(p)' = LineAt(p),
               made' \in {made, made + 1}, acked' \subseteq acked \cup {made + 1}
        PROVE  BareNotAcked'
    BY <1>1, <1>2 DEF BareNotAcked
  <1>3. ASSUME file' = file
        PROVE  ReadRange' = ReadRange /\ \A p \in ReadRange' : LineAt(p)' = LineAt(p)
    BY <1>3 DEF ReadRange, EventsOf, LineAt
  <1>4. ASSUME NEW line \in Line, line.kind \in Parsed, Decodable(file[today]),
               file' = [file EXCEPT ![today] = Append(@, line)],
               made' = made + 1, acked' \subseteq acked \cup {made + 1},
               line.kind = "bare" => line.hash = made + 1 /\ acked' = acked
        PROVE  BareNotAcked'
    <2> PICK p : p = <<today, Len(file[today]) + 1>>
      OBVIOUS
    <2>1. /\ ReadRange' = ReadRange \cup {p} /\ LineAt(p)' = line
          /\ \A q \in ReadRange : LineAt(q)' = LineAt(q)
      BY <1>4, Extended
    <2> QED
      BY <1>1, <1>4, <2>1 DEF BareNotAcked
  <1>5. CASE NextDay \/ WriteRaises \/ SeedFails \/ Restart \/ UNCHANGED chainVars
    <2>1. file' = file /\ acked' = acked /\ made' \in {made, made + 1}
      BY <1>5 DEF NextDay, WriteRaises, MakeEvent, SeedFails, Restart, chainVars
    <2> QED
      BY <1>2, <1>3, <2>1
  <1>6. CASE Write
    <2> DEFINE f == file[today]
               g == WithLine(f, Event)
    <2>1. /\ file' = [file EXCEPT ![today] = g] /\ g \in Seq(Line)
          /\ ~Unended(f) => g = Append(f, Event)
          /\ Unended(f) \/ ~Decodable(f) =>
                (Decodable(g) => Decodable(f) /\ KeepsEvents(f, g))
      BY <1>6, Written
    <2>2. made' = made + 1 /\ acked' = acked \cup {made + 1}
      BY <1>6 DEF Write, MakeEvent
    <2> HIDE DEF g
    <2>3. CASE Unended(f) \/ ~Decodable(f)
      BY <1>2, <2>1, <2>2, <2>3, Damaged
    <2>4. CASE ~Unended(f) /\ Decodable(f)
      <3>1. Event \in Line /\ Event.kind \in Parsed /\ Event.kind # "bare"
        BY EventType DEF Parsed
      <3> QED
        BY <1>4, <2>1, <2>2, <2>4, <3>1
    <2> QED
      BY <2>3, <2>4
  <1>7. ASSUME NEW kind \in Broken, WriteBreaks(kind)
        PROVE  BareNotAcked'
    <2> DEFINE f == file[today]
               g == WithBroken(f, Part(kind))
    <2>1. /\ file' = [file EXCEPT ![today] = g] /\ g \in Seq(Line)
          /\ \/ Decodable(g) => Decodable(f) /\ KeepsEvents(f, g)
             \/ kind = "bare" /\ Decodable(f) /\ g = Append(f, Part("bare"))
      BY <1>7, WrittenPart
    <2>2. made' = made + 1 /\ acked' = acked
      BY <1>7 DEF WriteBreaks, MakeEvent
    <2> HIDE DEF g
    <2>3. CASE Decodable(g) => Decodable(f) /\ KeepsEvents(f, g)
      BY <1>2, <2>1, <2>2, <2>3, Damaged
    <2>4. CASE kind = "bare" /\ Decodable(f) /\ g = Append(f, Part("bare"))
      <3>1. /\ Part("bare") \in Line /\ Part("bare").kind \in Parsed
            /\ Part("bare").hash = made + 1
        BY EventType DEF Broken, Parsed
      <3> QED
        BY <1>4, <2>1, <2>2, <2>4, <3>1
    <2> QED
      BY <2>1, <2>3, <2>4
  <1> QED
    BY <1>5, <1>6, <1>7 DEF ChainNext

LEMMA LossStep ==
    ChainTypeOK /\ LossPaid /\ BareNotAcked /\ [ChainNext]_chainVars => LossPaid'
  <1> SUFFICES ASSUME ChainTypeOK, LossPaid, BareNotAcked, [ChainNext]_chainVars,
                      \A d \in Days : Decodable(file'[d])
               PROVE  Cardinality(acked' \ Readable')
                         + (IF Unended(file'[today']) THEN 1 ELSE 0) <= failed'
    BY DEF LossPaid
  <1>1. /\ failed \in Nat /\ made \in Nat
        /\ file \in [Days -> Seq(Line)] /\ today \in Days
    BY BoundAssumption DEF ChainTypeOK
  <1>2. ASSUME \A d \in Days : Decodable(file[d])
        PROVE  Cardinality(acked \ Readable)
                  + (IF Unended(file[today]) THEN 1 ELSE 0) <= failed
    BY <1>2 DEF LossPaid
  <1>3. ASSUME file' = file
        PROVE  Readable' = Readable
    BY <1>3 DEF Readable, ReadRange, EventsOf, LineAt
  <1>4. ASSUME NEW g \in Seq(Line), file' = [file EXCEPT ![today] = g],
               Decodable(g) => Decodable(file[today]) /\ KeepsEvents(file[today], g)
        PROVE  /\ acked \ Readable' \subseteq acked \ Readable
               /\ \A d \in Days : Decodable(file[d])
    <2>1. /\ Decodable(g)
          /\ \A d \in Days : d # today => file'[d] = file[d]
      BY <1>1, <1>4
    <2>2. /\ \A p \in ReadRange' : LineAt(p)' = LineAt(p)
          /\ \A p \in ReadRange \ ReadRange' : LineAt(p).kind = "bare"
      BY <1>4, <2>1, Damaged
    <2>3. ASSUME NEW p \in ReadRange, LineAt(p).hash \in acked
          PROVE  LineAt(p).hash \in Readable'
      <3>1. p \in ReadRange'
        BY <2>2, <2>3 DEF BareNotAcked
      <3> QED
        BY <2>2, <3>1 DEF Readable
    <2> QED
      BY <1>4, <2>1, <2>3 DEF Readable
  <1>5. ASSUME file' = file, acked' = acked, failed' \in Nat, failed' >= failed,
               Unended(file'[today']) => failed' = failed + 1 \/ today' = today
        PROVE  Cardinality(acked' \ Readable')
                  + (IF Unended(file'[today']) THEN 1 ELSE 0) <= failed'
    <2>1. Cardinality(acked \ Readable) \in Nat
      BY Losses
    <2> QED
      BY <1>1, <1>2, <1>3, <1>5, <2>1
  <1>6. CASE NextDay
    <2>1. today' \in Days /\ today' > today
      BY <1>6, BoundAssumption DEF NextDay, ChainTypeOK, Days
    <2>2. ~Unended(file'[today'])
      BY <1>6, <2>1 DEF NextDay, ChainTypeOK, Unended
    <2> QED
      BY <1>1, <1>5, <1>6, <2>2 DEF NextDay
  <1>7. CASE Write
    <2> DEFINE f == file[today]
               g == WithLine(f, Event)
    <2>1. /\ file' = [file EXCEPT ![today] = g] /\ g \in Seq(Line) /\ ~Unended(g)
          /\ ~Unended(f) => g = Append(f, Event)
          /\ Unended(f) \/ ~Decodable(f) =>
                (Decodable(g) => Decodable(f) /\ KeepsEvents(f, g))
      BY <1>7, Written
    <2>2. /\ failed' = failed /\ today' = today /\ acked' = acked \cup {made + 1}
          /\ Event.hash = made + 1
      BY <1>7 DEF Write, Event
    <2> HIDE DEF g
    <2>3. ~Unended(file'[today']) /\ Decodable(g)
      BY <1>1, <2>1, <2>2
    <2>4. CASE Unended(f) \/ ~Decodable(f)
      <3>1. /\ acked \ Readable' \subseteq acked \ Readable
            /\ \A d \in Days : Decodable(file[d])
        BY <1>4, <2>1, <2>4
      <3>2. Unended(f)
        BY <1>1, <2>4, <3>1
      <3>3. Cardinality(acked \ Readable) + 1 <= failed
        BY <1>2, <3>1, <3>2
      <3>4. acked' \ Readable' \subseteq (acked \ Readable) \cup {made + 1}
        BY <2>2, <3>1
      <3>5. /\ Cardinality(acked' \ Readable') \in Nat
            /\ Cardinality(acked \ Readable) \in Nat
            /\ Cardinality(acked' \ Readable') <= Cardinality(acked \ Readable) + 1
        BY <3>4, Losses
      <3> QED
        BY <1>1, <2>2, <2>3, <3>3, <3>5
    <2>5. CASE ~Unended(f) /\ Decodable(f)
      <3> PICK p : p = <<today, Len(f) + 1>>
        OBVIOUS
      <3>1. /\ g = Append(f, Event) /\ Event \in Line
            /\ Event.kind \in Parsed /\ Event.kind # "bare"
        BY <2>1, <2>5, EventType DEF Parsed
      <3>2. /\ ReadRange' = ReadRange \cup {p}
            /\ LineAt(p)' = Event
            /\ \A q \in ReadRange : LineAt(q)' = LineAt(q)
        BY <2>1, <2>5, <3>1, Extended
      <3>3. Readable' = Readable \cup {made + 1}
        <4>1. \A q \in ReadRange' : q \in ReadRange \/ q = p
          BY <3>2
        <4> QED
          BY <2>2, <3>2, <4>1 DEF Readable
      <3>4. \A d \in Days : Decodable(file[d])
        BY <1>1, <2>1, <2>5
      <3>5. acked' \ Readable' \subseteq acked \ Readable
        BY <2>2, <3>3
      <3>6. /\ Cardinality(acked' \ Readable') \in Nat
            /\ Cardinality(acked \ Readable) \in Nat
            /\ Cardinality(acked' \ Readable') <= Cardinality(acked \ Readable)
        BY <3>5, Losses
      <3>7. Cardinality(acked \ Readable) <= failed
        BY <1>1, <1>2, <3>4, <3>6
      <3> QED
        BY <1>1, <2>2, <2>3, <3>6, <3>7
    <2> QED
      BY <2>4, <2>5
  <1>8. CASE WriteRaises
    BY <1>1, <1>5, <1>8 DEF WriteRaises
  <1>9. ASSUME NEW kind \in Broken, WriteBreaks(kind)
        PROVE  Cardinality(acked' \ Readable')
                  + (IF Unended(file'[today']) THEN 1 ELSE 0) <= failed'
    <2> DEFINE f == file[today]
               g == WithBroken(f, Part(kind))
    <2>1. /\ file' = [file EXCEPT ![today] = g] /\ g \in Seq(Line)
          /\ \/ Decodable(g) => Decodable(f) /\ KeepsEvents(f, g)
             \/ kind = "bare" /\ Decodable(f) /\ g = Append(f, Part("bare"))
      BY <1>9, WrittenPart
    <2>2. acked' = acked /\ failed' = failed + 1
      BY <1>9 DEF WriteBreaks
    <2> HIDE DEF g
    <2>3. /\ acked \ Readable' \subseteq acked \ Readable
          /\ \A d \in Days : Decodable(file[d])
      <3>1. CASE Decodable(g) => Decodable(f) /\ KeepsEvents(f, g)
        BY <1>4, <2>1, <3>1
      <3>2. CASE kind = "bare" /\ Decodable(f) /\ g = Append(f, Part("bare"))
        <4>1. Part("bare") \in Line /\ Part("bare").kind \in Parsed
          BY EventType DEF Broken, Parsed
        <4>2. /\ ReadRange \subseteq ReadRange'
              /\ \A q \in ReadRange : LineAt(q)' = LineAt(q)
          BY <2>1, <3>2, <4>1, Extended
        <4> QED
          BY <1>1, <2>1, <3>2, <4>2 DEF Readable
      <3> QED
        BY <2>1, <3>1, <3>2
    <2>4. /\ Cardinality(acked' \ Readable') \in Nat
          /\ Cardinality(acked \ Readable) \in Nat
          /\ Cardinality(acked' \ Readable') <= Cardinality(acked \ Readable)
      BY <2>2, <2>3, Losses
    <2>5. Cardinality(acked \ Readable) <= failed
      BY <1>1, <1>2, <2>3, <2>4
    <2> QED
      BY <1>1, <2>2, <2>4, <2>5
  <1>10. CASE SeedFails
    BY <1>1, <1>5, <1>10 DEF SeedFails
  <1>11. CASE Restart
    BY <1>1, <1>5, <1>11 DEF Restart
  <1>12. CASE UNCHANGED chainVars
    BY <1>1, <1>5, <1>12 DEF chainVars
  <1> QED
    BY <1>6, <1>7, <1>8, <1>9, <1>10, <1>11, <1>12 DEF ChainNext

-----------------------------------------------------------------------------
ChainInv == ChainTypeOK /\ BreaksPaid /\ LossPaid /\ BareNotAcked

LEMMA ChainInvInit == ChainInit => ChainInv
  <1> SUFFICES ASSUME ChainInit PROVE ChainInv
    OBVIOUS
  <1>1. ChainTypeOK /\ failed = 0 /\ acked = {} /\ \A d \in Days : file[d] = <<>>
    BY ChainTypeInit DEF ChainInit
  <1>2. ReadRange = {}
    BY <1>1 DEF ReadRange, EventsOf
  <1>3. IsFiniteSet({}) /\ Cardinality({}) = 0
    BY FS_EmptySet
  <1>4. Breaks = {} /\ acked \ Readable = {}
    BY <1>1, <1>2 DEF Breaks
  <1>5. today \in Days /\ ~Unended(file[today])
    BY <1>1 DEF ChainTypeOK, Unended
  <1> QED
    BY <1>1, <1>2, <1>3, <1>4, <1>5 DEF ChainInv, BreaksPaid, LossPaid, BareNotAcked, Smooth

LEMMA ChainInvStep == ChainInv /\ [ChainNext]_chainVars => ChainInv'
  BY ChainTypeStep, BreaksStep, LossStep, BareStep DEF ChainInv

LEMMA ChainInvariant == ChainSpec => []ChainInv
  BY ChainInvInit, ChainInvStep, PTL DEF ChainSpec

(***************************************************************************)
(* The variables of the log keep their types, and no file is written ahead *)
(* of its day (_daily_path).                                               *)
(***************************************************************************)
THEOREM ChainTypeCorrect == ChainSpec => []ChainTypeOK
  <1>1. ChainInv => ChainTypeOK
    BY DEF ChainInv
  <1> QED
    BY <1>1, ChainInvariant, PTL

(***************************************************************************)
(* verify_chain over the readable files reports no more breaks than there  *)
(* were appends that raised, whatever restarts and days passed: the seed   *)
(* found by _seed_from_disk is the hash of the last event.                 *)
(***************************************************************************)
THEOREM BreaksAlwaysFailures == ChainSpec => []BreaksAreFailures
  <1>1. ChainInv => BreaksAreFailures
    <2> SUFFICES ASSUME ChainInv PROVE Cardinality(Breaks) <= failed
      BY DEF BreaksAreFailures
    <2>1. IsFiniteSet(Breaks) /\ failed \in Nat
      <3>1. Breaks \subseteq ReadRange
        BY DEF Breaks
      <3> QED
        BY <3>1, FS_Subset, BoundAssumption DEF ChainInv, BreaksPaid, ChainTypeOK
    <2>2. Cardinality(Breaks) \in Nat
      BY <2>1, FS_CardinalityType
    <2> QED
      BY <2>1, <2>2 DEF ChainInv, BreaksPaid
  <1> QED
    BY <1>1, ChainInvariant, PTL

(***************************************************************************)
(* As long as every file can be decoded, no more events whose write_event  *)
(* returned are unreadable than appends have raised.                       *)
(***************************************************************************)
THEOREM LossAlwaysBounded == ChainSpec => []LossIsBounded
  <1>1. ChainInv => LossIsBounded
    <2> SUFFICES ASSUME ChainInv, \A d \in Days : Decodable(file[d])
                 PROVE  Cardinality(acked \ Readable) <= failed
      BY DEF LossIsBounded
    <2>1. Cardinality(acked \ Readable) \in Nat /\ failed \in Nat
      <3>1. ChainTypeOK
        BY DEF ChainInv
      <3>2. acked \ Readable \subseteq (acked \ Readable) \cup {0}
        OBVIOUS
      <3>3. Cardinality(acked \ Readable) \in Nat
        BY <3>1, <3>2, Losses
      <3> QED
        BY <3>1, <3>3, BoundAssumption DEF ChainTypeOK
    <2> QED
      BY <2>1 DEF ChainInv, LossPaid
  <1> QED
    BY <1>1, ChainInvariant, PTL

-----------------------------------------------------------------------------
(***************************************************************************)
(* Rollback: the filter of cleanup.  IsKept(n, kept, from): kept holds the *)
(* unexpired ones of the first n entries, the i-th from place from[i].     *)
(***************************************************************************)
IsKept(cutoff, n, kept, from) ==
    /\ kept \in Seq(Entry) /\ Len(kept) <= n
    /\ from \in [1..Len(kept) -> 1..n]
    /\ \A i \in 1..Len(kept) : kept[i] = manifest[from[i]]
    /\ \A i, j \in 1..Len(kept) : i < j => from[i] < from[j]
    /\ \A k \in 1..n : ~Expired(manifest[k], cutoff) =>
                          \E i \in 1..Len(kept) : from[i] = k

\* One turn of the loop.
KeptStep(cutoff, kept, n) ==
    IF n = 0 THEN <<>>
    ELSE IF Expired(manifest[n], cutoff) THEN kept[n - 1]
    ELSE Append(kept[n - 1], manifest[n])

LEMMA KeptExists ==
    ASSUME NEW cutoff, NEW len \in Nat
    PROVE  \E kept : kept = [n \in 0..len |-> KeptStep(cutoff, kept, n)]
  <1> DEFINE S == {l \in Nat : \E kept : kept = [n \in 0..l |-> KeptStep(cutoff, kept, n)]}
  <1>1. 0 \in S
    <2> DEFINE kept == [n \in 0..0 |-> <<>>]
    <2>1. kept = [n \in 0..0 |-> KeptStep(cutoff, kept, n)]
      BY DEF KeptStep
    <2> QED
      BY <2>1
  <1>2. ASSUME NEW l \in Nat, l \in S
        PROVE  l + 1 \in S
    <2>1. PICK kept : kept = [n \in 0..l |-> KeptStep(cutoff, kept, n)]
      BY <1>2
    <2> DEFINE more == [n \in 0..(l + 1) |-> IF n <= l THEN kept[n] ELSE KeptStep(cutoff, kept, n)]
    <2>2. ASSUME NEW n \in 0..(l + 1)
          PROVE  more[n] = KeptStep(cutoff, more, n)
      <3>1. n # 0 => n - 1 \in 0..l /\ more[n - 1] = kept[n - 1]
        OBVIOUS
      <3>2. KeptStep(cutoff, more, n) = KeptStep(cutoff, kept, n)
        BY <3>1 DEF KeptStep
      <3>3. n <= l => kept[n] = KeptStep(cutoff, kept, n)
        BY <2>1
      <3> QED
        BY <3>2, <3>3
    <2>3. more = [n \in 0..(l + 1) |-> KeptStep(cutoff, more, n)]
      BY <2>2
    <2> HIDE DEF more
    <2>4. l + 1 \in Nat /\ \E k : k = [n \in 0..(l + 1) |-> KeptStep(cutoff, k, n)]
      BY <2>3
    <2> QED
      BY <2>4
  <1> HIDE DEF S
  <1>3. Nat \subseteq S
    BY <1>1, <1>2, NatSetInduction
  <1> QED
    BY <1>3 DEF S

LEMMA UnexpiredIs ==
    ASSUME NEW cutoff, manifest \in Seq(Entry)
    PROVE  \E from : IsKept(cutoff, Len(manifest), Unexpired(cutoff), from)
  <1> DEFINE len == Len(manifest)
  <1>1. len \in Nat /\ DOMAIN manifest = 1..len
    OBVIOUS
  <1> HIDE DEF len
  <1>2. \E kept : kept = [n \in 0..len |-> KeptStep(cutoff, kept, n)]
    BY <1>1, KeptExists
  <1>3. PICK kept : /\ kept = [n \in 0..len |-> KeptStep(cutoff, kept, n)]
                    /\ Unexpired(cutoff) = kept[len]
    BY <1>2 DEF KeptStep, Unexpired, len
  <1> DEFINE S == {n \in Nat : n <= len => \E from : IsKept(cutoff, n, kept[n], from)}
  <1>4. 0 \in S
    <2> DEFINE from == [i \in {} |-> i]
    <2>1. kept[0] = <<>>
      BY <1>1, <1>3 DEF KeptStep
    <2>2. from \in [1..0 -> 1..0]
      OBVIOUS
    <2>3. IsKept(cutoff, 0, kept[0], from)
      BY <2>1, <2>2 DEF IsKept
    <2> QED
      BY <2>3
  <1>5. ASSUME NEW n \in Nat, n \in S
        PROVE  n + 1 \in S
    <2> SUFFICES ASSUME n + 1 <= len
                 PROVE  \E from : IsKept(cutoff, n + 1, kept[n + 1], from)
      OBVIOUS
    <2>1. PICK from : IsKept(cutoff, n, kept[n], from)
      BY <1>1, <1>5
    <2> DEFINE e == manifest[n + 1]
               m == Len(kept[n])
    <2>2. kept[n + 1] = IF Expired(e, cutoff) THEN kept[n] ELSE Append(kept[n], e)
      <3>1. n + 1 \in 0..len /\ n + 1 # 0 /\ (n + 1) - 1 = n
        BY <1>1
      <3>2. kept[n + 1] = KeptStep(cutoff, kept, n + 1)
        BY <1>3, <3>1
      <3> QED
        BY <3>1, <3>2 DEF KeptStep
    <2>3. e \in Entry
      BY <1>1
    <2>4. /\ kept[n] \in Seq(Entry) /\ m <= n /\ m \in Nat
          /\ from \in [1..m -> 1..n]
          /\ \A i \in 1..m : kept[n][i] = manifest[from[i]]
          /\ \A i, j \in 1..m : i < j => from[i] < from[j]
          /\ \A k \in 1..n : ~Expired(manifest[k], cutoff) => \E i \in 1..m : from[i] = k
      BY <2>1 DEF IsKept
    <2>5. CASE Expired(e, cutoff)
      <3>1. kept[n + 1] = kept[n]
        BY <2>2, <2>5
      <3>2. from \in [1..m -> 1..(n + 1)] /\ m <= n + 1
        BY <2>4
      <3>3. \A k \in 1..(n + 1) : ~Expired(manifest[k], cutoff) => \E i \in 1..m : from[i] = k
        <4> SUFFICES ASSUME NEW k \in 1..(n + 1), ~Expired(manifest[k], cutoff)
                     PROVE  \E i \in 1..m : from[i] = k
          OBVIOUS
        <4>1. k # n + 1
          BY <2>5
        <4>2. k \in 1..n
          BY <4>1
        <4> QED
          BY <2>4, <4>2
      <3>4. IsKept(cutoff, n + 1, kept[n], from)
        BY <2>4, <3>2, <3>3 DEF IsKept
      <3> QED
        BY <3>1, <3>4
    <2>6. CASE ~Expired(e, cutoff)
      <3> DEFINE g == Append(kept[n], e)
                 h == [i \in 1..(m + 1) |-> IF i = m + 1 THEN n + 1 ELSE from[i]]
      <3>1. kept[n + 1] = g
        BY <2>2, <2>6
      <3>2. /\ g \in Seq(Entry) /\ Len(g) = m + 1
            /\ g[m + 1] = e /\ \A i \in 1..m : g[i] = kept[n][i]
        BY <2>3, <2>4
      <3> HIDE DEF g, m, e
      <3>3. /\ h \in [1..(m + 1) -> 1..(n + 1)]
            /\ h[m + 1] = n + 1 /\ \A i \in 1..m : h[i] = from[i]
            /\ \A i \in 1..m : h[i] \in 1..n
        BY <2>4
      <3> HIDE DEF h
      <3>4. \A i \in 1..(m + 1) : g[i] = manifest[h[i]]
        <4> SUFFICES ASSUME NEW i \in 1..(m + 1) PROVE g[i] = manifest[h[i]]
          OBVIOUS
        <4>1. CASE i = m + 1
          BY <3>2, <3>3, <4>1 DEF e
        <4>2. CASE i # m + 1
          <5>1. i \in 1..m
            BY <2>4, <4>2
          <5> QED
            BY <2>4, <3>2, <3>3, <5>1
        <4> QED
          BY <4>1, <4>2
      <3>5. \A i, j \in 1..(m + 1) : i < j => h[i] < h[j]
        <4> SUFFICES ASSUME NEW i \in 1..(m + 1), NEW j \in 1..(m + 1), i < j
                     PROVE  h[i] < h[j]
          OBVIOUS
        <4>1. i \in 1..m
          BY <2>4
        <4>2. CASE j = m + 1
          BY <3>3, <4>1, <4>2
        <4>3. CASE j # m + 1
          <5>1. j \in 1..m
            BY <2>4, <4>3
          <5> QED
            BY <2>4, <3>3, <4>1, <5>1
        <4> QED
          BY <4>2, <4>3
      <3>6. ASSUME NEW k \in 1..(n + 1), ~Expired(manifest[k], cutoff)
            PROVE  \E i \in 1..(m + 1) : h[i] = k
        <4>1. CASE k = n + 1
          <5>1. m + 1 \in 1..(m + 1)
            BY <2>4
          <5> QED
            BY <3>3, <4>1, <5>1
        <4>2. CASE k # n + 1
          <5>1. k \in 1..n
            BY <4>2
          <5>2. PICK i \in 1..m : from[i] = k
            BY <2>4, <3>6, <5>1
          <5>3. i \in 1..(m + 1)
            BY <2>4
          <5> QED
            BY <3>3, <5>2, <5>3
        <4> QED
          BY <4>1, <4>2
      <3>7. m + 1 <= n + 1
        BY <2>4
      <3>8. IsKept(cutoff, n + 1, g, h)
        BY <3>2, <3>3, <3>4, <3>5, <3>6, <3>7 DEF IsKept
      <3> QED
        BY <3>1, <3>8
    <2> QED
      BY <2>5, <2>6
  <1> HIDE DEF S
  <1>6. Nat \subseteq S
    BY <1>4, <1>5, NatSetInduction
  <1> QED
    BY <1>1, <1>3, <1>6 DEF S, len

-----------------------------------------------------------------------------
(***************************************************************************)
(* Rollback: what an operation in progress may rely on.                    *)
(***************************************************************************)
Ordered(entries) ==
    \A i \in DOMAIN entries :
        /\ entries[i].id[1] <= clock
        /\ \A j \in 1..i : entries[j].id[1] <= entries[i].id[1]

InModify == op.at = "modify" => op.file \in File

InCopy ==
    op.at = "copy" =>
        /\ op.file \in File /\ op.next \in Then(op.file)
        /\ disk[op.file] \in Hash
        /\ Len(manifest) < MaxEntries

InAppend ==
    op.at = "append" =>
        /\ op.entry \in Entry /\ op.next \in Then(op.entry.file)
        /\ Len(manifest) < MaxEntries
        /\ op.entry.id[1] <= clock
        /\ \A i \in DOMAIN manifest : manifest[i].id[1] <= op.entry.id[1]

InDump ==
    op.at = "dump" =>
        /\ op.entries \in Seq(Entry) /\ Len(op.entries) <= MaxEntries
        /\ Ordered(op.entries) /\ torn
        /\ op.fresh \subseteq Entry
        /\ \/ op.next = Idle
           \/ \E f \in File : op.next = [at |-> "modify", file |-> f]

InMark ==
    op.at = "mark" =>
        \E i \in DOMAIN manifest :
            /\ op.entry = manifest[i]
            /\ op.entries = [manifest EXCEPT ![i].restored = TRUE]

InClean ==
    op.at = "clean" =>
        /\ op \in [at : {"clean"}, cutoff : Nat, seen : Nat]
        /\ op.seen <= Len(manifest)

OpOK == InModify /\ InCopy /\ InAppend /\ InDump /\ InMark /\ InClean

Typed == TypeOK /\ owed \subseteq Entry /\ OpOK

\* What the type invariant needs of each list that a save may write.
LEMMA AppendedTyped ==
    ASSUME NEW entries \in Seq(Entry), Ordered(entries),
           NEW e \in Entry, e.id[1] <= clock,
           \A i \in DOMAIN entries : entries[i].id[1] <= e.id[1]
    PROVE  /\ Append(entries, e) \in Seq(Entry)
           /\ Len(Append(entries, e)) = Len(entries) + 1
           /\ Ordered(Append(entries, e))
  <1> DEFINE g == Append(entries, e)
             n == Len(entries)
  <1>1. /\ g \in Seq(Entry) /\ Len(g) = n + 1 /\ n \in Nat
        /\ DOMAIN entries = 1..n /\ DOMAIN g = 1..(n + 1)
        /\ g[n + 1] = e /\ \A i \in 1..n : g[i] = entries[i]
    OBVIOUS
  <1> HIDE DEF g, n
  <1>2. ASSUME NEW i \in 1..(n + 1), NEW j \in 1..i
        PROVE  g[i].id[1] <= clock /\ g[j].id[1] <= g[i].id[1]
    <2>1. e.id[1] \in Nat
      BY DEF Entry, Id
    <2>2. CASE i = n + 1 /\ j = n + 1
      BY <1>1, <2>1, <2>2
    <2>3. CASE i = n + 1 /\ j # n + 1
      <3>1. j \in 1..n
        BY <1>1, <2>3
      <3> QED
        BY <1>1, <2>3, <3>1
    <2>4. CASE i # n + 1
      <3>1. i \in 1..n /\ j \in 1..n /\ j \in 1..i
        BY <1>1, <2>4
      <3> QED
        BY <1>1, <3>1 DEF Ordered
    <2> QED
      BY <1>1, <2>2, <2>3, <2>4
  <1>3. Ordered(g)
    <2> SUFFICES ASSUME NEW i \in 1..(n + 1)
                 PROVE  g[i].id[1] <= clock /\ \A j \in 1..i : g[j].id[1] <= g[i].id[1]
      BY <1>1 DEF Ordered
    <2>1. i \in 1..i
      BY <1>1
    <2> QED
      BY <1>2, <2>1
  <1> QED
    BY <1>1, <1>3 DEF g, n

Marked(entries, i) == [entries EXCEPT ![i].restored = TRUE]

LEMMA MarkedTyped ==
    ASSUME NEW entries \in Seq(Entry), Ordered(entries), NEW i \in DOMAIN entries,
           NEW g, g = Marked(entries, i)
    PROVE  /\ g \in Seq(Entry) /\ Len(g) = Len(entries) /\ Ordered(g)
           /\ DOMAIN g = DOMAIN entries
           /\ \A j \in DOMAIN entries : g[j].id = entries[j].id
           /\ \A j \in DOMAIN entries : j # i => g[j] = entries[j]
  <1>1. entries[i] \in Entry /\ [entries[i] EXCEPT !.restored = TRUE] \in Entry
    <2>1. entries[i] \in Entry
      OBVIOUS
    <2>2. \A e \in Entry : [e EXCEPT !.restored = TRUE] \in Entry
      BY DEF Entry
    <2> QED
      BY <2>1, <2>2
  <1>2. g = [entries EXCEPT ![i] = [entries[i] EXCEPT !.restored = TRUE]]
    BY DEF Marked
  <1>3. g \in Seq(Entry) /\ Len(g) = Len(entries) /\ DOMAIN g = DOMAIN entries
    BY <1>1, <1>2
  <1>4. \A j \in DOMAIN entries : j # i => g[j] = entries[j]
    BY <1>2
  <1>5. g[i].id = entries[i].id
    BY <1>1, <1>2 DEF Entry
  <1>6. \A j \in DOMAIN entries : g[j].id = entries[j].id
    BY <1>4, <1>5
  <1>7. Ordered(g)
    <2>1. \A k \in DOMAIN entries : \A j \in 1..k : j \in DOMAIN entries
      OBVIOUS
    <2> QED
      BY <1>3, <1>6, <2>1 DEF Ordered
  <1> QED
    BY <1>3, <1>4, <1>6, <1>7

LEMMA UnexpiredTyped ==
    ASSUME NEW cutoff, manifest \in Seq(Entry), Ordered(manifest)
    PROVE  /\ Unexpired(cutoff) \in Seq(Entry)
           /\ Len(Unexpired(cutoff)) <= Len(manifest)
           /\ Ordered(Unexpired(cutoff))
  <1> DEFINE g == Unexpired(cutoff)
  <1>1. PICK from : IsKept(cutoff, Len(manifest), g, from)
    BY UnexpiredIs
  <1> HIDE DEF g
  <1>2. /\ g \in Seq(Entry) /\ Len(g) <= Len(manifest) /\ Len(g) \in Nat
        /\ DOMAIN g = 1..Len(g) /\ DOMAIN manifest = 1..Len(manifest)
        /\ \A i \in 1..Len(g) : from[i] \in 1..Len(manifest) /\ g[i] = manifest[from[i]]
        /\ \A i, j \in 1..Len(g) : i < j => from[i] < from[j]
    BY <1>1 DEF IsKept
  <1>3. ASSUME NEW i \in 1..Len(g), NEW j \in 1..i
        PROVE  g[i].id[1] <= clock /\ g[j].id[1] <= g[i].id[1]
    <2>1. j \in 1..Len(g) /\ (j < i \/ j = i)
      BY <1>2
    <2>2. from[j] \in 1..from[i]
      BY <1>2, <2>1
    <2> QED
      BY <1>2, <2>1, <2>2 DEF Ordered
  <1>4. Ordered(g)
    <2> SUFFICES ASSUME NEW i \in 1..Len(g)
                 PROVE  g[i].id[1] <= clock /\ \A j \in 1..i : g[j].id[1] <= g[i].id[1]
      BY <1>2 DEF Ordered
    <2>1. i \in 1..i
      BY <1>2
    <2> QED
      BY <1>3, <2>1
  <1> QED
    BY <1>2, <1>4 DEF g

(***************************************************************************)
(* Least and greatest place of a set of places of the manifest.            *)
(***************************************************************************)
LEMMA PlacesExtreme ==
    ASSUME manifest \in Seq(Entry), NEW S, S \subseteq DOMAIN manifest, S # {}
    PROVE  /\ FirstOf(S) \in S
           /\ LastOf(S) \in S /\ \A j \in S : LastOf(S) >= j
  <1>1. S \subseteq Nat /\ Len(manifest) \in Nat /\ \A j \in S : j <= Len(manifest)
    OBVIOUS
  <1> QED
    BY <1>1, LeastExists, GreatestExists DEF FirstOf, LastOf

\* An entry gets another time.
LEMMA HashedType ==
    ASSUME TypeOK, op.entry \in Entry
    PROVE  /\ Hashed \in Entry /\ Hashed.id = op.entry.id /\ Hashed.file = op.entry.file
           /\ Hashed.hash = op.entry.hash
  <1>1. clock \in 1..MaxTime
    BY DEF TypeOK
  <1> QED
    BY <1>1 DEF Hashed, Entry

LEMMA NewIdType ==
    ASSUME TypeOK, NEW f \in File
    PROVE  NewId(f) \in Id /\ NewId(f)[1] = clock
  BY DEF NewId, Id, Base, TypeOK

\* Restoring by an id or the last of a file restores or fails to restore
\* one entry of the manifest.
LEMMA RestoresEntry ==
    ASSUME TypeOK, \/ \E id \in Id : Restore(id)
                   \/ \E f \in File : RestoreLast(f)
    PROVE  /\ op.at = "idle"
           /\ \E i \in DOMAIN manifest : RestoreEntry(i) \/ RestoreFails(i)
  <1>1. manifest \in Seq(Entry)
    BY DEF TypeOK
  <1>2. ASSUME NEW id, Named(id) # {}
        PROVE  FirstOf(Named(id)) \in DOMAIN manifest
    BY <1>1, <1>2, PlacesExtreme DEF Named, Unrestored
  <1>3. ASSUME NEW f, Ours(f) # {}
        PROVE  Named(manifest[LastOf(Ours(f))].id) # {}
    BY <1>1, <1>3, PlacesExtreme DEF Ours, Named, Unrestored
  <1> QED
    BY <1>2, <1>3 DEF Restore, RestoreLast

LEMMA TypedInit == Init => Typed
  <1> SUFFICES ASSUME Init PROVE Typed
    OBVIOUS
  <1>1. /\ manifest = <<>> /\ manifest \in Seq(Entry) /\ Len(manifest) = 0
        /\ DOMAIN manifest = {}
    BY DEF Init
  <1>2. clock \in 1..MaxTime /\ 0 <= MaxEntries
    BY BoundsAssumption DEF Init
  <1>3. op.at = "idle"
    BY DEF Init, Idle
  <1>4. disk \in [File -> Hash \cup {"missing", "empty"}]
    BY DEF Init, Hash
  <1>5. backup \in [Id -> Hash \cup {"missing", "cut"}] /\ torn = FALSE /\ owed = {}
    BY DEF Init
  <1> QED
    BY <1>1, <1>2, <1>3, <1>4, <1>5
       DEF Typed, TypeOK, OpOK, InModify, InCopy, InAppend, InDump, InMark, InClean

(***************************************************************************)
(* TypeOK is inductive together with the types of the operation.  Steps    *)
(* that leave the manifest alone keep what TypeOK says of it.              *)
(***************************************************************************)
LEMMA ManifestKept ==
    ASSUME TypeOK, manifest' = manifest, torn' = torn,
           clock' \in 1..MaxTime, clock' >= clock,
           disk' \in [File -> Hash \cup {"missing", "empty"}],
           backup' \in [Id -> Hash \cup {"missing", "cut"}],
           op'.at \in {"idle", "copy", "append", "dump", "modify", "mark", "clean"}
    PROVE  TypeOK'
  <1>1. clock \in Nat /\ clock' \in Nat
    BY BoundsAssumption DEF TypeOK
  <1>2. ASSUME NEW i \in DOMAIN manifest
        PROVE  manifest[i].id[1] \in Nat
    <2>1. manifest[i] \in Entry
      BY DEF TypeOK
    <2> QED
      BY <2>1 DEF Entry, Id
  <1>3. \A i \in DOMAIN manifest :
          /\ manifest[i].id[1] <= clock'
          /\ \A j \in 1..i : manifest[j].id[1] <= manifest[i].id[1]
    BY <1>1, <1>2 DEF TypeOK
  <1> QED
    BY <1>3 DEF TypeOK

\* A save empties the manifest until it is written.
LEMMA SaveTyped ==
    ASSUME TypeOK, owed' \subseteq Entry,
           NEW entries \in Seq(Entry), Len(entries) <= MaxEntries, Ordered(entries),
           NEW fresh, fresh \subseteq Entry, NEW next,
           next = Idle \/ \E f \in File : next = [at |-> "modify", file |-> f],
           Save(entries, fresh, next), UNCHANGED <<clock, disk, backup>>
    PROVE  Typed'
  <1>1. op' = [at |-> "dump", entries |-> entries, fresh |-> fresh, next |-> next]
    BY DEF Save
  <1>2. manifest' = <<>> /\ DOMAIN manifest' = {} /\ Len(manifest') = 0
        /\ manifest' \in Seq(Entry)
    BY DEF Save
  <1>3. TypeOK'
    BY <1>1, <1>2, BoundsAssumption DEF TypeOK
  <1>4. InDump'
    BY <1>1 DEF InDump, Ordered, Save
  <1>5. OpOK'
    BY <1>1, <1>4 DEF OpOK, InModify, InCopy, InAppend, InMark, InClean
  <1> QED
    BY <1>3, <1>5 DEF Typed

\* What an operation goes on with after its snapshot.
LEMMA ThenTyped ==
    ASSUME NEW f \in File, op' \in Then(f)
    PROVE  OpOK' /\ op'.at \in {"idle", "modify"}
  <1>1. op'.at = "idle" \/ (op'.at = "modify" /\ op'.file = f)
    BY DEF Then, Idle
  <1> QED
    BY <1>1 DEF OpOK, InModify, InCopy, InAppend, InDump, InMark, InClean

LEMMA TypedStep == Typed /\ [Next]_vars => Typed'
  <1> SUFFICES ASSUME Typed, [Next]_vars PROVE Typed'
    OBVIOUS
  <1> USE DEF promises
  <1>1. TypeOK /\ owed \subseteq Entry /\ OpOK
    BY DEF Typed
  <1>2. /\ clock \in 1..MaxTime /\ clock \in Nat
        /\ disk \in [File -> Hash \cup {"missing", "empty"}]
        /\ backup \in [Id -> Hash \cup {"missing", "cut"}]
        /\ manifest \in Seq(Entry) /\ Len(manifest) <= MaxEntries /\ Len(manifest) \in Nat
        /\ Ordered(manifest)
        /\ op.at \in {"idle", "copy", "append", "dump", "modify", "mark", "clean"}
    BY <1>1, BoundsAssumption DEF TypeOK, Ordered
  <1>3. ASSUME op'.at = "idle"
        PROVE  OpOK'
    BY <1>3 DEF OpOK, InModify, InCopy, InAppend, InDump, InMark, InClean
  <1>4. CASE Tick
    <2>1. clock' = clock + 1 /\ clock' \in 1..MaxTime
      BY <1>2, <1>4, BoundsAssumption DEF Tick
    <2>2. TypeOK'
      BY <1>1, <1>2, <1>4, <2>1, ManifestKept DEF Tick
    <2>3. ASSUME NEW entries \in Seq(Entry), Ordered(entries)
          PROVE  Ordered(entries)'
      <3>1. \A i \in DOMAIN entries : entries[i].id[1] \in Nat
        <4>1. \A i \in DOMAIN entries : entries[i] \in Entry
          OBVIOUS
        <4> QED
          BY <4>1 DEF Entry, Id
      <3> QED
        BY <1>2, <2>1, <2>3, <3>1 DEF Ordered
    <2>4. InDump'
      BY <1>1, <1>4, <2>3 DEF Tick, OpOK, InDump, Ordered
    <2>5. op.at = "append" => op.entry.id[1] <= clock'
      <3> SUFFICES ASSUME op.at = "append" PROVE op.entry.id[1] <= clock'
        OBVIOUS
      <3>1. op.entry.id[1] \in Nat /\ op.entry.id[1] <= clock
        BY <1>1 DEF OpOK, InAppend, Entry, Id
      <3> QED
        BY <1>2, <2>1, <3>1
    <2>6. InAppend'
      BY <1>1, <1>4, <2>5 DEF Tick, OpOK, InAppend
    <2>7. InModify' /\ InCopy' /\ InMark'
      BY <1>1, <1>4 DEF Tick, OpOK, InModify, InCopy, InMark
    <2>8. InClean'
      BY <1>1, <1>2, <1>4, <2>1 DEF Tick, OpOK, InClean
    <2> QED
      BY <1>1, <1>4, <2>2, <2>4, <2>6, <2>7, <2>8 DEF Typed, OpOK, Tick
  <1>5. CASE Fail
    <2>1. op' = Idle /\ op'.at = "idle"
      BY <1>5 DEF Fail, Idle
    <2>2. TypeOK'
      BY <1>1, <1>2, <1>5, <2>1, ManifestKept DEF Fail
    <2>3. owed' \subseteq owed
      BY <1>5 DEF Fail
    <2> QED
      BY <1>1, <1>3, <1>5, <2>1, <2>2, <2>3 DEF Typed, Fail
  <1>6. CASE Dump
    <2>1. /\ op.entries \in Seq(Entry) /\ Len(op.entries) <= MaxEntries
          /\ Ordered(op.entries) /\ op.fresh \subseteq Entry
          /\ op.next = Idle \/ \E f \in File : op.next = [at |-> "modify", file |-> f]
      BY <1>1, <1>6 DEF Dump, OpOK, InDump
    <2>2. OpOK' /\ op'.at \in {"idle", "modify"}
      <3>1. op' = op.next
        BY <1>6 DEF Dump
      <3>2. CASE op.next = Idle
        BY <1>3, <3>1, <3>2 DEF Idle
      <3>3. ASSUME NEW f \in File, op.next = [at |-> "modify", file |-> f]
            PROVE  OpOK' /\ op'.at \in {"idle", "modify"}
        BY <3>1, <3>3, ThenTyped DEF Then
      <3> QED
        BY <2>1, <3>2, <3>3
    <2>3. TypeOK'
      BY <1>2, <1>6, <2>1, <2>2 DEF Dump, TypeOK, Ordered
    <2> QED
      BY <1>1, <1>6, <2>1, <2>2, <2>3 DEF Typed, Dump
  <1>7. CASE Copy
    <2>1. /\ op.at = "copy" /\ op.file \in File /\ op.next \in Then(op.file)
          /\ disk[op.file] \in Hash /\ Len(manifest) < MaxEntries
      BY <1>1, <1>7 DEF Copy, OpOK, InCopy
    <2> DEFINE id == NewId(op.file)
               e == [id |-> id, file |-> op.file, hash |-> disk[op.file],
                     time |-> clock, restored |-> FALSE]
    <2>2. id \in Id /\ id[1] = clock
      BY <1>1, <2>1, NewIdType
    <2> HIDE DEF id
    <2>3. e \in Entry /\ e.id = id /\ e.file = op.file
      BY <1>2, <2>1, <2>2 DEF Entry
    <2> HIDE DEF e
    <2>4. /\ op' = [at |-> "append", next |-> op.next, entry |-> e]
          /\ backup' = [backup EXCEPT ![id] = disk[op.file]]
          /\ UNCHANGED <<clock, disk, manifest, torn, owed>>
      BY <1>7 DEF Copy, id, e
    <2>5. backup' \in [Id -> Hash \cup {"missing", "cut"}]
      BY <1>2, <2>1, <2>4
    <2>6. TypeOK'
      BY <1>1, <1>2, <2>4, <2>5, ManifestKept
    <2>7. InAppend'
      BY <1>2, <2>1, <2>2, <2>3, <2>4 DEF InAppend, Ordered
    <2>8. OpOK'
      BY <2>4, <2>7 DEF OpOK, InModify, InCopy, InDump, InMark, InClean
    <2> QED
      BY <1>1, <2>4, <2>6, <2>8 DEF Typed
  <1>8. CASE CopyFails
    <2>1. /\ op.file \in File /\ op' \in Then(op.file)
      BY <1>1, <1>8 DEF CopyFails, OpOK, InCopy
    <2>2. backup' \in [Id -> Hash \cup {"missing", "cut"}]
      BY <1>2, <1>8 DEF CopyFails
    <2>3. OpOK' /\ op'.at \in {"idle", "modify"}
      BY <2>1, ThenTyped
    <2>4. TypeOK'
      BY <1>1, <1>2, <1>8, <2>2, <2>3, ManifestKept DEF CopyFails
    <2> QED
      BY <1>1, <1>8, <2>3, <2>4 DEF Typed, CopyFails
  <1>9. CASE AppendEntry
    <2>1. /\ op.entry \in Entry /\ op.next \in Then(op.entry.file)
          /\ Len(manifest) < MaxEntries /\ op.entry.id[1] <= clock
          /\ \A i \in DOMAIN manifest : manifest[i].id[1] <= op.entry.id[1]
      BY <1>1, <1>9 DEF AppendEntry, OpOK, InAppend
    <2>5. Hashed \in Entry /\ Hashed.id = op.entry.id
      BY <1>1, <2>1, HashedType
    <2>2. /\ Append(manifest, Hashed) \in Seq(Entry)
          /\ Len(Append(manifest, Hashed)) <= MaxEntries
          /\ Ordered(Append(manifest, Hashed))
      BY <1>2, <2>1, <2>5, AppendedTyped, BoundsAssumption
    <2>3. op.next = Idle \/ \E f \in File : op.next = [at |-> "modify", file |-> f]
      BY <2>1 DEF Then, Entry
    <2>4. Save(Append(manifest, Hashed), {Hashed}, op.next)
            /\ UNCHANGED <<clock, disk, backup, owed>>
      BY <1>9 DEF AppendEntry
    <2> QED
      BY <1>1, <2>2, <2>3, <2>4, <2>5, SaveTyped
  <1>10. CASE Modify
    <2>1. op'.at = "idle"
      BY <1>10 DEF Modify, Idle
    <2>2. disk' \in [File -> Hash \cup {"missing", "empty"}]
      BY <1>2, <1>10 DEF Modify, Hash
    <2>3. TypeOK'
      BY <1>1, <1>2, <1>10, <2>1, <2>2, ManifestKept DEF Modify
    <2> QED
      BY <1>1, <1>3, <1>10, <2>1, <2>3 DEF Typed, Modify
  <1>11. CASE Mark
    <2>1. PICK i \in DOMAIN manifest : op.entries = [manifest EXCEPT ![i].restored = TRUE]
      BY <1>1, <1>11 DEF Mark, OpOK, InMark
    <2>2. op.entries \in Seq(Entry) /\ Len(op.entries) <= MaxEntries /\ Ordered(op.entries)
      <3>1. op.entries = Marked(manifest, i)
        BY <2>1 DEF Marked
      <3> QED
        BY <1>2, <3>1, MarkedTyped
    <2>3. /\ Save(op.entries, {}, Idle)
          /\ UNCHANGED <<clock, disk, backup>> /\ owed' \subseteq Entry
      BY <1>1, <1>11 DEF Mark
    <2> QED
      BY <1>1, <2>2, <2>3, SaveTyped
  <1>12. CASE RemoveBackup
    <2>1. /\ op \in [at : {"clean"}, cutoff : Nat, seen : Nat]
          /\ op.seen < Len(manifest)
          /\ op' = [op EXCEPT !.seen = @ + 1]
          /\ UNCHANGED <<clock, disk, manifest, torn, owed>>
      BY <1>1, <1>12 DEF RemoveBackup, OpOK, InClean
    <2>2. /\ op' \in [at : {"clean"}, cutoff : Nat, seen : Nat]
          /\ op'.at = "clean" /\ op'.cutoff = op.cutoff /\ op'.seen = op.seen + 1
      BY <2>1
    <2>3. backup' \in [Id -> Hash \cup {"missing", "cut"}]
      BY <1>2, <1>12 DEF RemoveBackup
    <2>4. TypeOK'
      BY <1>1, <1>2, <2>1, <2>2, <2>3, ManifestKept
    <2>5. InClean'
      BY <1>2, <2>1, <2>2 DEF InClean
    <2>6. OpOK'
      BY <2>2, <2>5 DEF OpOK, InModify, InCopy, InAppend, InDump, InMark
    <2> QED
      BY <1>1, <2>1, <2>4, <2>6 DEF Typed
  <1>13. CASE Cleaned
    <2>1. /\ Unexpired(op.cutoff) \in Seq(Entry)
          /\ Len(Unexpired(op.cutoff)) <= MaxEntries
          /\ Ordered(Unexpired(op.cutoff))
      BY <1>2, UnexpiredTyped, BoundsAssumption
    <2>2. Save(Unexpired(op.cutoff), {}, Idle) /\ UNCHANGED <<clock, disk, backup, owed>>
      BY <1>13 DEF Cleaned
    <2> QED
      BY <1>1, <2>1, <2>2, SaveTyped
  <1>14. ASSUME NEW f \in File, NEW c \in Content, Edit(f, c)
         PROVE  Typed'
    <2>1. c \in Hash
      BY DEF Hash
    <2>2. /\ disk' \in [File -> Hash \cup {"missing", "empty"}]
          /\ \A d \in File : disk[d] \in Hash => disk'[d] \in Hash
      BY <1>2, <1>14, <2>1 DEF Edit
    <2>3. UNCHANGED <<clock, backup, manifest, torn, op, owed>>
      BY <1>14 DEF Edit
    <2>4. TypeOK'
      BY <1>1, <1>2, <2>2, <2>3, ManifestKept
    <2>5. OpOK'
      BY <1>1, <2>2, <2>3
         DEF OpOK, InModify, InCopy, InAppend, InDump, InMark, InClean, Ordered
    <2> QED
      BY <1>1, <2>3, <2>4, <2>5 DEF Typed
  <1>15. ASSUME NEW f \in File, Begin(f)
         PROVE  Typed'
    <2>1. /\ UNCHANGED <<clock, disk, backup, manifest, torn, owed>>
          /\ Len(manifest) < MaxEntries
      BY <1>15 DEF Begin
    <2>2. PICK next \in Then(f) :
             op' = IF disk[f] \in {"missing", "empty"} THEN next
                   ELSE [at |-> "copy", file |-> f, next |-> next]
      BY <1>15 DEF Begin
    <2>3. OpOK' /\ op'.at \in {"idle", "modify", "copy"}
      <3>1. CASE disk[f] \in {"missing", "empty"}
        BY <2>2, <3>1, ThenTyped
      <3>2. CASE disk[f] \notin {"missing", "empty"}
        <4>1. op' = [at |-> "copy", file |-> f, next |-> next] /\ disk[f] \in Hash
          BY <1>2, <2>2, <3>2
        <4>2. InCopy'
          BY <2>1, <4>1 DEF InCopy, Then
        <4> QED
          BY <4>1, <4>2 DEF OpOK, InModify, InAppend, InDump, InMark, InClean
      <3> QED
        BY <3>1, <3>2
    <2>4. TypeOK'
      BY <1>1, <1>2, <2>1, <2>3, ManifestKept
    <2> QED
      BY <1>1, <2>1, <2>3, <2>4 DEF Typed
  <1>16. CASE (\E id \in Id : Restore(id)) \/ (\E f \in File : RestoreLast(f))
    <2>1. PICK i \in DOMAIN manifest : RestoreEntry(i) \/ RestoreFails(i)
      BY <1>1, <1>16, RestoresEntry
    <2>2. manifest[i] \in Entry /\ manifest[i].hash \in Hash /\ manifest[i].file \in File
      <3>1. manifest[i] \in Entry
        BY <1>2
      <3> QED
        BY <3>1 DEF Entry
    <2>3. CASE RestoreEntry(i)
      <3>1. /\ disk' = [disk EXCEPT ![manifest[i].file] = manifest[i].hash]
            /\ op' = [at |-> "mark", entry |-> manifest[i],
                      entries |-> [manifest EXCEPT ![i].restored = TRUE]]
            /\ UNCHANGED <<clock, backup, manifest, torn, owed>>
        BY <2>3 DEF RestoreEntry, Intact
      <3>2. disk' \in [File -> Hash \cup {"missing", "empty"}]
        BY <1>2, <2>2, <3>1
      <3>3. TypeOK'
        BY <1>1, <1>2, <3>1, <3>2, ManifestKept
      <3>4. InMark'
        BY <3>1 DEF InMark
      <3>5. OpOK'
        BY <3>1, <3>4 DEF OpOK, InModify, InCopy, InAppend, InDump, InClean
      <3> QED
        BY <1>1, <3>1, <3>3, <3>5 DEF Typed
    <2>4. CASE RestoreFails(i)
      <3>1. disk' \in [File -> Hash \cup {"missing", "empty"}]
        BY <1>2, <2>4 DEF RestoreFails, Hash
      <3>2. op' = op /\ op.at = "idle" /\ UNCHANGED <<clock, backup, manifest, torn, owed>>
        BY <1>1, <1>16, <2>4, RestoresEntry DEF RestoreFails
      <3>3. TypeOK'
        BY <1>1, <1>2, <3>1, <3>2, ManifestKept
      <3> QED
        BY <1>1, <1>3, <3>2, <3>3 DEF Typed
    <2> QED
      BY <2>1, <2>3, <2>4
  <1>17. ASSUME NEW cutoff \in 1..(clock + 1), Cleanup(cutoff)
         PROVE  Typed'
    <2>1. /\ op' = [at |-> "clean", cutoff |-> cutoff, seen |-> 0]
          /\ UNCHANGED <<clock, disk, backup, manifest, torn>>
          /\ owed' \subseteq owed
      BY <1>17 DEF Cleanup
    <2>2. TypeOK'
      BY <1>1, <1>2, <2>1, ManifestKept
    <2>3. InClean'
      <3>1. op' \in [at : {"clean"}, cutoff : Nat, seen : Nat]
        BY <1>2, <2>1
      <3> QED
        BY <1>2, <2>1, <3>1 DEF InClean
    <2>4. OpOK'
      BY <2>1, <2>3 DEF OpOK, InModify, InCopy, InAppend, InDump, InMark
    <2> QED
      BY <1>1, <2>1, <2>2, <2>4 DEF Typed
  <1>18. CASE UNCHANGED vars
    <2>1. UNCHANGED <<clock, disk, backup, manifest, torn, op, owed>>
      BY <1>18 DEF vars
    <2>2. TypeOK'
      BY <1>1, <1>2, <2>1, ManifestKept
    <2>3. OpOK'
      BY <1>1, <2>1
         DEF OpOK, InModify, InCopy, InAppend, InDump, InMark, InClean, Ordered
    <2> QED
      BY <1>1, <2>1, <2>2, <2>3 DEF Typed
  <1> QED
    BY <1>4, <1>5, <1>6, <1>7, <1>8, <1>9, <1>10, <1>11, <1>12, <1>13, <1>14,
       <1>15, <1>16, <1>17, <1>18 DEF Next

-----------------------------------------------------------------------------
(***************************************************************************)
(* Recoverable is not inductive.  It takes what the manifest that is there *)
(* or being saved lists, and what the operation in progress has prepared.  *)
(***************************************************************************)
\* An id that two entries share was given twice.
UniqueIn(entries) ==
    \A i, j \in DOMAIN entries :
        entries[i].id = entries[j].id => i = j \/ entries[i].id \in tied

Alone(e, entries) ==
    \E i \in DOMAIN entries :
        /\ entries[i] = e
        /\ \A j \in DOMAIN entries : entries[j].id = e.id => j = i

Restorable(e, entries) == Intact(e) /\ Alone(e, entries)

Listed ==
    /\ UniqueIn(Entries)
    /\ \A e \in owed : e.id \in tied \/ Restorable(e, Entries)

\* The copy that is to be appended, the entry that is being saved, and the
\* entries that a cleanup is to spare.
Prepared ==
    /\ op.at = "append" =>
          \/ op.entry.id \in tied
          \/ /\ Intact(op.entry)
             /\ \A i \in DOMAIN manifest : manifest[i].id # op.entry.id
    /\ op.at = "dump" =>
          \A e \in op.fresh : e.id \in tied \/ Restorable(e, op.entries)
    /\ op.at = "clean" => \A e \in owed : ~Expired(e, op.cutoff)

LEMMA NoSpecialHash == \A h \in Hash : h \notin {"missing", "empty", "cut"}
  BY ContentAssumption DEF Hash

\* A step that leaves the list as it is, and takes no backup of what is owed.
LEMMA ListedKept ==
    ASSUME Listed, Entries' = Entries, owed' \subseteq owed, tied \subseteq tied',
           \A e \in owed : Restorable(e, Entries) => Intact(e)' \/ e.id \in tied'
    PROVE  Listed'
  <1>1. UniqueIn(Entries)'
    BY DEF Listed, UniqueIn
  <1>2. ASSUME NEW e \in owed'
        PROVE  e.id \in tied' \/ Restorable(e, Entries)'
    <2>1. e.id \in tied \/ Restorable(e, Entries)
      BY DEF Listed
    <2>2. Alone(e, Entries) => Alone(e, Entries)'
      BY DEF Alone
    <2> QED
      BY <2>1, <2>2 DEF Restorable
  <1> QED
    BY <1>1, <1>2 DEF Listed

\* A save of a list in which what is owed can be restored.
LEMMA SaveKept ==
    ASSUME NEW entries, NEW fresh, NEW next, Save(entries, fresh, next),
           UNCHANGED <<backup, tied>>, UniqueIn(entries),
           \A e \in owed' : e.id \in tied \/ Restorable(e, entries),
           \A e \in fresh : e.id \in tied \/ Restorable(e, entries)
    PROVE  Listed' /\ Prepared'
  <1>1. op' = [at |-> "dump", entries |-> entries, fresh |-> fresh, next |-> next]
    BY DEF Save
  <1>2. Entries' = entries
    BY <1>1 DEF Entries
  <1>3. UniqueIn(Entries)'
    BY <1>2 DEF UniqueIn
  <1>4. ASSUME NEW e
        PROVE  /\ Restorable(e, entries) => Restorable(e, Entries)'
               /\ Restorable(e, entries) => Restorable(e, op.entries)'
    BY <1>1, <1>2 DEF Restorable, Alone, Intact
  <1>5. Listed'
    BY <1>3, <1>4 DEF Listed
  <1>6. Prepared'
    BY <1>1, <1>4 DEF Prepared
  <1> QED
    BY <1>5, <1>6

\* The lists that are saved.
LEMMA AppendedKept ==
    ASSUME NEW entries \in Seq(Entry), NEW e \in Entry,
           UniqueIn(entries),
           e.id \in tied \/ \A i \in DOMAIN entries : entries[i].id # e.id
    PROVE  /\ UniqueIn(Append(entries, e))
           /\ \A d : d.id # e.id /\ Alone(d, entries) => Alone(d, Append(entries, e))
           /\ e.id \notin tied => Alone(e, Append(entries, e))
  <1> DEFINE g == Append(entries, e)
             n == Len(entries)
  <1>1. /\ n \in Nat /\ DOMAIN entries = 1..n /\ DOMAIN g = 1..(n + 1)
        /\ g[n + 1] = e /\ \A i \in 1..n : g[i] = entries[i]
    OBVIOUS
  <1> HIDE DEF g, n
  <1>2. n + 1 \in DOMAIN g /\ \A i \in DOMAIN g : i \in 1..n \/ i = n + 1
    BY <1>1
  <1>3. UniqueIn(g)
    BY <1>1, <1>2 DEF UniqueIn
  <1>5. ASSUME NEW d, d.id # e.id, Alone(d, entries)
        PROVE  Alone(d, g)
    <2>1. PICK i \in 1..n : /\ entries[i] = d
                           /\ \A j \in 1..n : entries[j].id = d.id => j = i
      BY <1>1, <1>5 DEF Alone
    <2>2. i \in DOMAIN g /\ g[i] = d
      BY <1>1, <2>1
    <2>3. \A j \in DOMAIN g : g[j].id = d.id => j = i
      BY <1>1, <1>2, <1>5, <2>1
    <2> QED
      BY <2>2, <2>3 DEF Alone
  <1>6. ASSUME e.id \notin tied
        PROVE  Alone(e, g)
    BY <1>1, <1>2, <1>6 DEF Alone
  <1> QED
    BY <1>3, <1>5, <1>6 DEF g

LEMMA MarkedKept ==
    ASSUME NEW entries \in Seq(Entry), Ordered(entries), NEW i \in DOMAIN entries,
           NEW g, g = Marked(entries, i), UniqueIn(entries)
    PROVE  /\ UniqueIn(g)
           /\ \A d : d # entries[i] /\ Alone(d, entries) => Alone(d, g)
  <1>1. /\ DOMAIN g = DOMAIN entries
        /\ \A j \in DOMAIN entries : g[j].id = entries[j].id
        /\ \A j \in DOMAIN entries : j # i => g[j] = entries[j]
    BY MarkedTyped
  <1>2. UniqueIn(g)
    BY <1>1 DEF UniqueIn
  <1>4. ASSUME NEW d, d # entries[i], Alone(d, entries)
        PROVE  Alone(d, g)
    <2>1. PICK k \in DOMAIN entries :
             entries[k] = d /\ \A j \in DOMAIN entries : entries[j].id = d.id => j = k
      BY <1>4 DEF Alone
    <2>2. k # i
      BY <1>4, <2>1
    <2> QED
      BY <1>1, <2>1, <2>2 DEF Alone
  <1> QED
    BY <1>2, <1>4

LEMMA UnexpiredKept ==
    ASSUME NEW cutoff, manifest \in Seq(Entry),
           UniqueIn(manifest)
    PROVE  /\ UniqueIn(Unexpired(cutoff))
           /\ \A d : ~Expired(d, cutoff) /\ Alone(d, manifest) => Alone(d, Unexpired(cutoff))
  <1> DEFINE g == Unexpired(cutoff)
  <1>1. PICK from : IsKept(cutoff, Len(manifest), g, from)
    BY UnexpiredIs
  <1> HIDE DEF g
  <1>2. /\ DOMAIN g = 1..Len(g) /\ DOMAIN manifest = 1..Len(manifest) /\ Len(g) \in Nat
        /\ \A i \in DOMAIN g : from[i] \in DOMAIN manifest /\ g[i] = manifest[from[i]]
        /\ \A i, j \in DOMAIN g : i < j => from[i] < from[j]
        /\ \A k \in DOMAIN manifest : ~Expired(manifest[k], cutoff) =>
              \E i \in DOMAIN g : from[i] = k
    <2>1. g \in Seq(Entry) /\ Len(g) \in Nat /\ from \in [1..Len(g) -> 1..Len(manifest)]
      BY <1>1 DEF IsKept
    <2>2. DOMAIN g = 1..Len(g) /\ DOMAIN manifest = 1..Len(manifest)
      BY <2>1
    <2> QED
      BY <1>1, <2>1, <2>2 DEF IsKept
  <1>3. \A i, j \in DOMAIN g : from[i] = from[j] => i = j
    <2> SUFFICES ASSUME NEW i \in DOMAIN g, NEW j \in DOMAIN g, from[i] = from[j], i # j
                 PROVE  FALSE
      OBVIOUS
    <2>1. i < j \/ j < i
      BY <1>2
    <2>2. from[i] \in Nat /\ from[i] < from[i]
      BY <1>2, <2>1
    <2> QED
      BY <2>2
  <1>4. UniqueIn(g)
    BY <1>2, <1>3 DEF UniqueIn
  <1>6. ASSUME NEW d, ~Expired(d, cutoff), Alone(d, manifest)
        PROVE  Alone(d, g)
    <2>1. PICK k \in DOMAIN manifest :
             manifest[k] = d /\ \A j \in DOMAIN manifest : manifest[j].id = d.id => j = k
      BY <1>6 DEF Alone
    <2>2. PICK i \in DOMAIN g : from[i] = k
      BY <1>2, <1>6, <2>1
    <2>3. g[i] = d
      BY <1>2, <2>1, <2>2
    <2>4. \A j \in DOMAIN g : g[j].id = d.id => j = i
      BY <1>2, <1>3, <2>1, <2>2
    <2> QED
      BY <2>3, <2>4 DEF Alone
  <1> QED
    BY <1>4, <1>6 DEF g

LEMMA PreparedIdle ==
    ASSUME op'.at \in {"idle", "modify", "copy", "mark"}
    PROVE  Prepared'
  BY DEF Prepared

LEMMA ListedStep ==
    Typed /\ Listed /\ Prepared /\ [Next]_vars => Listed' /\ Prepared'
  <1> SUFFICES ASSUME Typed, Listed, Prepared, [Next]_vars
               PROVE  Listed' /\ Prepared'
    OBVIOUS
  <1> USE DEF promises
  <1>1. /\ TypeOK /\ owed \subseteq Entry /\ OpOK
        /\ clock \in Nat /\ manifest \in Seq(Entry)
        /\ Ordered(manifest)
        /\ backup \in [Id -> Hash \cup {"missing", "cut"}]
        /\ disk \in [File -> Hash \cup {"missing", "empty"}]
    BY BoundsAssumption DEF Typed, TypeOK, Ordered
  <1>2. /\ UniqueIn(Entries)
        /\ \A e \in owed : e.id \in tied \/ Restorable(e, Entries)
    BY DEF Listed
  <1>3. op.at # "dump" => Entries = manifest
    BY DEF Entries
  \* Steps that change neither the list nor the backups.
  <1>4. ASSUME Entries' = Entries, owed' \subseteq owed, tied' = tied, backup' = backup
        PROVE  Listed'
    BY <1>4, ListedKept DEF Restorable, Intact
  <1>5. CASE Tick
    <2>1. Entries' = Entries /\ UNCHANGED <<backup, manifest, op, owed, tied>>
      BY <1>5 DEF Tick, Entries
    <2>2. Listed'
      BY <1>4, <2>1
    <2>3. Prepared'
      BY <2>1 DEF Prepared, Intact, Restorable, Alone, Expired
    <2> QED
      BY <2>2, <2>3
  <1>6. CASE Fail
    <2>1. /\ op'.at = "idle" /\ Entries' = manifest
          /\ owed' \subseteq owed /\ (torn => owed' = {})
          /\ UNCHANGED <<backup, manifest, tied>>
      BY <1>6 DEF Fail, Idle, Entries
    <2>2. Prepared'
      BY <2>1, PreparedIdle
    <2>3. CASE op.at = "dump"
      <3>1. torn /\ manifest = <<>>
        BY <1>1, <2>3 DEF OpOK, InDump, TypeOK
      <3>2. DOMAIN Entries' = {}
        BY <2>1, <3>1
      <3> QED
        BY <2>1, <2>2, <3>1, <3>2 DEF Listed, UniqueIn
    <2>4. CASE op.at # "dump"
      <3>1. Entries' = Entries
        BY <1>3, <2>1, <2>4
      <3> QED
        BY <1>4, <2>1, <2>2, <3>1
    <2> QED
      BY <2>3, <2>4
  <1>7. CASE Dump
    <2>1. /\ op.at = "dump" /\ manifest' = op.entries /\ op' = op.next
          /\ owed' = owed \cup op.fresh
          /\ UNCHANGED <<backup, tied>>
      BY <1>7 DEF Dump
    <2>2. op'.at \in {"idle", "modify"}
      <3>1. op.next = Idle \/ \E f \in File : op.next = [at |-> "modify", file |-> f]
        BY <1>1, <2>1 DEF OpOK, InDump
      <3>2. op.next.at \in {"idle", "modify"}
        <4>1. CASE op.next = Idle
          BY <4>1 DEF Idle
        <4>2. ASSUME NEW f \in File, op.next = [at |-> "modify", file |-> f]
              PROVE  op.next.at = "modify"
          BY <4>2
        <4> QED
          BY <3>1, <4>1, <4>2
      <3> QED
        BY <2>1, <3>2
    <2>3. Entries = op.entries /\ Entries' = op.entries
      BY <2>1, <2>2 DEF Entries
    <2>4. \A e \in op.fresh : e.id \in tied \/ Restorable(e, Entries)
      BY <2>1, <2>3 DEF Prepared
    <2>5. \A e : Restorable(e, Entries) => Restorable(e, Entries)'
      BY <2>1, <2>3 DEF Restorable, Alone, Intact
    <2>6. UniqueIn(Entries)'
      BY <1>2, <2>1, <2>3 DEF UniqueIn
    <2>7. Listed'
      BY <1>2, <2>1, <2>4, <2>5, <2>6 DEF Listed
    <2> QED
      BY <2>2, <2>7, PreparedIdle
  <1>8. ASSUME op.at = "copy", NEW h,
               backup' = [backup EXCEPT ![NewId(op.file)] = h],
               Tied(NewId(op.file)), UNCHANGED <<manifest, owed>>, op'.at # "dump"
        PROVE  Listed'
    <2>1. op.file \in File
      BY <1>1, <1>8 DEF OpOK, InCopy
    <2> DEFINE id == NewId(op.file)
    <2>2. id \in Id
      BY <1>1, <2>1, NewIdType
    <2> HIDE DEF id
    <2>3. backup' = [backup EXCEPT ![id] = h]
      BY <1>8 DEF id
    <2>4. tied \subseteq tied' /\ (backup[id] # "missing" => id \in tied')
      BY <1>8 DEF id, Tied
    <2>5. Entries = manifest /\ Entries' = manifest
      BY <1>8 DEF Entries
    <2>6. ASSUME NEW e \in owed, Restorable(e, Entries)
          PROVE  Intact(e)' \/ e.id \in tied'
      <3>1. e.id \in Id /\ e.hash \in Hash /\ Intact(e)
        BY <1>1, <2>6 DEF Entry, Restorable
      <3>2. backup[e.id] # "missing"
        BY <3>1, NoSpecialHash DEF Intact
      <3>3. e.id # id => backup'[e.id] = backup[e.id]
        BY <1>1, <2>3, <3>1
      <3> QED
        BY <2>4, <3>1, <3>2, <3>3 DEF Intact
    <2> QED
      BY <1>8, <2>4, <2>5, <2>6, ListedKept
  <1>9. CASE Copy
    <2> DEFINE id == NewId(op.file)
               e == [id |-> id, file |-> op.file, hash |-> disk[op.file],
                     time |-> clock, restored |-> FALSE]
    <2>1. /\ op.at = "copy" /\ disk[op.file] \in Hash /\ op.file \in File
          /\ backup' = [backup EXCEPT ![id] = disk[op.file]]
          /\ Tied(id)
          /\ op' = [at |-> "append", next |-> op.next, entry |-> e]
          /\ UNCHANGED <<manifest, owed>>
      BY <1>1, <1>9 DEF Copy, OpOK, InCopy
    <2>2. Listed'
      BY <1>8, <2>1
    <2>3. id \in Id
      BY <1>1, <2>1, NewIdType
    <2>4. e.id = id /\ e.hash = disk[op.file]
      OBVIOUS
    <2> HIDE DEF id, e
    <2>5. backup'[e.id] = e.hash
      BY <1>1, <2>1, <2>3, <2>4
    <2>6. id \in tied' \/ \A i \in DOMAIN manifest : manifest[i].id # id
      BY <2>1 DEF Tied, ToSet
    <2> QED
      BY <2>1, <2>2, <2>4, <2>5, <2>6 DEF Prepared, Intact
  <1>10. CASE CopyFails
    <2>1. op.at = "copy" /\ op.next.at \in {"idle", "modify"} /\ op' = op.next
      BY <1>1, <1>10 DEF CopyFails, OpOK, InCopy, Then, Idle
    <2>2. /\ backup' = [backup EXCEPT ![NewId(op.file)] = "cut"]
          /\ Tied(NewId(op.file)) /\ UNCHANGED <<manifest, owed>>
      BY <1>10 DEF CopyFails
    <2>3. Listed'
      BY <1>8, <2>1, <2>2
    <2> QED
      BY <2>1, <2>3, PreparedIdle
  <1>11. CASE AppendEntry
    <2> DEFINE e == Hashed
               g == Append(manifest, e)
    <2>1. /\ op.at = "append" /\ op.entry \in Entry
          /\ Save(g, {e}, op.next)
          /\ UNCHANGED <<backup, owed, tied>>
      BY <1>1, <1>11 DEF AppendEntry, OpOK, InAppend
    <2>2. e \in Entry /\ e.id = op.entry.id /\ e.hash = op.entry.hash
      BY <1>1, <2>1, HashedType
    <2>3. Entries = manifest
      BY <1>3, <2>1
    <2> HIDE DEF e, g
    <2>7. \/ e.id \in tied
          \/ Intact(e) /\ \A i \in DOMAIN manifest : manifest[i].id # e.id
      BY <2>1, <2>2 DEF Prepared, Intact
    <2>4. /\ UniqueIn(g)
          /\ \A d : d.id # e.id /\ Alone(d, manifest) => Alone(d, g)
          /\ e.id \notin tied => Alone(e, g)
      BY <1>1, <1>2, <2>2, <2>3, <2>7, AppendedKept DEF g
    <2>5. ASSUME NEW d \in owed
          PROVE  d.id \in tied \/ Restorable(d, g)
      <3> SUFFICES ASSUME d.id \notin tied PROVE Restorable(d, g)
        OBVIOUS
      <3>1. Intact(d) /\ Alone(d, manifest)
        BY <1>2, <2>3 DEF Restorable
      <3>2. d.id # e.id
        BY <2>7, <3>1 DEF Alone
      <3> QED
        BY <2>4, <3>1, <3>2 DEF Restorable
    <2>6. e.id \in tied \/ Restorable(e, g)
      BY <2>4, <2>7 DEF Restorable
    <2> QED
      BY <2>1, <2>4, <2>5, <2>6, SaveKept
  <1>12. CASE Modify
    <2>1. /\ op'.at = "idle" /\ op.at = "modify"
          /\ UNCHANGED <<backup, manifest, owed, tied>>
      BY <1>12 DEF Modify, Idle
    <2>2. Entries' = Entries
      BY <2>1 DEF Entries
    <2> QED
      BY <1>4, <2>1, <2>2, PreparedIdle
  <1>13. CASE Mark
    <2>1. PICK i \in DOMAIN manifest :
             op.entry = manifest[i] /\ op.entries = [manifest EXCEPT ![i].restored = TRUE]
      BY <1>1, <1>13 DEF Mark, OpOK, InMark
    <2>2. /\ op.at = "mark" /\ Save(op.entries, {}, Idle)
          /\ owed' = owed \ {manifest[i]}
          /\ UNCHANGED <<backup, tied>>
      BY <1>13, <2>1 DEF Mark
    <2> DEFINE g == op.entries
    <2>3. g = Marked(manifest, i) /\ Entries = manifest
      BY <1>3, <2>1, <2>2 DEF Marked
    <2> HIDE DEF g
    <2>4. /\ UniqueIn(g)
          /\ \A d : d # manifest[i] /\ Alone(d, manifest) => Alone(d, g)
      BY <1>1, <1>2, <2>3, MarkedKept
    <2>5. \A e \in owed' : e.id \in tied \/ Restorable(e, g)
      BY <1>2, <2>2, <2>3, <2>4 DEF Restorable
    <2>6. Save(g, {}, Idle)
      BY <2>2 DEF g
    <2> QED
      BY <2>2, <2>4, <2>5, <2>6, SaveKept
  <1>14. CASE RemoveBackup
    <2> DEFINE gone == manifest[op.seen + 1]
    <2>1. /\ op \in [at : {"clean"}, cutoff : Nat, seen : Nat]
          /\ op.seen < Len(manifest)
          /\ op' = [op EXCEPT !.seen = @ + 1]
          /\ backup' = IF Expired(gone, op.cutoff)
                       THEN [backup EXCEPT ![gone.id] = "missing"] ELSE backup
          /\ UNCHANGED <<manifest, owed, tied>>
      BY <1>1, <1>14 DEF RemoveBackup, OpOK, InClean
    <2>2. op.at = "clean" /\ op'.at = "clean" /\ op'.cutoff = op.cutoff
      BY <2>1
    <2>3. op.seen + 1 \in DOMAIN manifest
      BY <1>1, <2>1
    <2>4. \A e \in owed : ~Expired(e, op.cutoff)
      BY <2>2 DEF Prepared
    <2>5. Entries = manifest /\ Entries' = manifest
      BY <2>1, <2>2 DEF Entries
    \* Alone with its id, what is owed is not the entry that goes.
    <2>6. ASSUME NEW e \in owed, Restorable(e, Entries)
          PROVE  Intact(e)'
      <3>1. e.id \in Id /\ Intact(e) /\ Alone(e, manifest)
        BY <1>1, <2>5, <2>6 DEF Entry, Restorable
      <3>2. gone.id = e.id => gone = e
        BY <2>3, <3>1 DEF Alone
      <3>3. ~(Expired(gone, op.cutoff) /\ gone.id = e.id)
        BY <2>4, <3>2
      <3> HIDE DEF gone
      <3>4. backup'[e.id] = backup[e.id]
        BY <1>1, <2>1, <3>1, <3>3
      <3> QED
        BY <3>1, <3>4 DEF Intact
    <2> HIDE DEF gone
    <2>7. Listed'
      BY <2>1, <2>5, <2>6, ListedKept
    <2>8. Prepared'
      BY <2>1, <2>2, <2>4 DEF Prepared, Expired
    <2> QED
      BY <2>7, <2>8
  <1>15. CASE Cleaned
    <2> DEFINE g == Unexpired(op.cutoff)
    <2>1. /\ op.at = "clean" /\ Save(g, {}, Idle)
          /\ UNCHANGED <<clock, backup, owed, tied, faults>>
      BY <1>15 DEF Cleaned
    <2>2. Entries = manifest /\ \A e \in owed : ~Expired(e, op.cutoff)
      BY <1>3, <2>1 DEF Prepared
    <2>3. /\ UniqueIn(g)
          /\ \A d : ~Expired(d, op.cutoff) /\ Alone(d, manifest) => Alone(d, g)
      BY <1>1, <1>2, <2>2, UnexpiredKept
    <2> HIDE DEF g
    <2>4. \A e \in owed' : e.id \in tied \/ Restorable(e, g)
      BY <1>2, <2>1, <2>2, <2>3 DEF Restorable
    <2> QED
      BY <2>1, <2>3, <2>4, SaveKept
  <1>16. ASSUME NEW f \in File, NEW c \in Content, Edit(f, c)
         PROVE  Listed' /\ Prepared'
    <2>1. UNCHANGED <<backup, manifest, op, owed, tied>>
      BY <1>16 DEF Edit
    <2>2. Entries' = Entries
      BY <2>1 DEF Entries
    <2>3. Listed'
      BY <1>4, <2>1, <2>2
    <2>4. Prepared'
      BY <2>1 DEF Prepared, Intact, Restorable, Alone, Expired
    <2> QED
      BY <2>3, <2>4
  <1>17. ASSUME NEW f \in File, Begin(f)
         PROVE  Listed' /\ Prepared'
    <2>1. /\ op.at = "idle" /\ op'.at \in {"idle", "modify", "copy"}
          /\ UNCHANGED <<backup, manifest, owed, tied>>
      BY <1>17 DEF Begin, Then, Idle
    <2>2. Entries' = Entries
      BY <2>1 DEF Entries
    <2> QED
      BY <1>4, <2>1, <2>2, PreparedIdle
  <1>18. CASE (\E id \in Id : Restore(id)) \/ (\E f \in File : RestoreLast(f))
    <2>1. op.at = "idle" /\ \E i \in DOMAIN manifest : RestoreEntry(i) \/ RestoreFails(i)
      BY <1>1, <1>18, RestoresEntry
    <2>2. /\ op'.at \in {"idle", "mark"}
          /\ UNCHANGED <<backup, manifest, owed, tied>>
      BY <2>1 DEF RestoreEntry, RestoreFails
    <2>3. Entries' = Entries
      BY <2>1, <2>2 DEF Entries
    <2> QED
      BY <1>4, <2>2, <2>3, PreparedIdle
  <1>19. ASSUME NEW cutoff \in 1..(clock + 1), Cleanup(cutoff)
         PROVE  Listed' /\ Prepared'
    <2>1. /\ op.at = "idle" /\ op' = [at |-> "clean", cutoff |-> cutoff, seen |-> 0]
          /\ owed' = {e \in owed : ~Expired(e, cutoff)}
          /\ UNCHANGED <<backup, manifest, tied>>
      BY <1>19 DEF Cleanup
    <2>2. Entries' = Entries
      BY <2>1 DEF Entries
    <2>3. Listed'
      BY <1>4, <2>1, <2>2
    <2>4. Prepared'
      BY <2>1 DEF Prepared, Expired
    <2> QED
      BY <2>3, <2>4
  <1>20. CASE UNCHANGED vars
    <2>1. UNCHANGED <<backup, manifest, op, owed, tied>>
      BY <1>20 DEF vars
    <2>2. Entries' = Entries
      BY <2>1 DEF Entries
    <2>3. Listed'
      BY <1>4, <2>1, <2>2
    <2>4. Prepared'
      BY <2>1 DEF Prepared, Intact, Restorable, Alone, Expired
    <2> QED
      BY <2>3, <2>4
  <1> QED
    BY <1>5, <1>6, <1>7, <1>9, <1>10, <1>11, <1>12, <1>13, <1>14, <1>15, <1>16,
       <1>17, <1>18, <1>19, <1>20 DEF Next

LEMMA ListedInit == Init => Listed /\ Prepared
  BY DEF Init, Idle, Listed, Prepared, UniqueIn, Entries

-----------------------------------------------------------------------------
(***************************************************************************)
(* OverwritesAreCovered, with the operations that lead up to a write: the  *)
(* entry that is being appended or saved is of what the file holds.        *)
(***************************************************************************)
Covered ==
    /\ OverwritesAreCovered
    /\ op.at = "append" /\ op.next.at = "modify" =>
          faults # {} \/ Covers(op.entry, op.next.file)
    /\ op.at = "dump" /\ op.next.at = "modify" =>
          faults # {} \/ \E e \in op.fresh \cap ToSet(op.entries) :
                            Covers(e, op.next.file)

LEMMA CoveredElse ==
    ASSUME \/ op'.at \in {"idle", "copy", "mark", "clean"}
           \/ faults' # {}
    PROVE  Covered'
  BY DEF Covered, OverwritesAreCovered

LEMMA CoveredStep == Typed /\ Covered /\ [Next]_vars => Covered'
  <1> SUFFICES ASSUME Typed, Covered, [Next]_vars PROVE Covered'
    OBVIOUS
  <1> USE DEF promises
  <1>1. /\ TypeOK /\ owed \subseteq Entry /\ OpOK
        /\ disk \in [File -> Hash \cup {"missing", "empty"}]
    BY DEF Typed, TypeOK
  <1>2. ASSUME UNCHANGED <<op, owed, faults, backup, manifest>>,
               \A f \in Target(op) : disk'[f] = disk[f]
        PROVE  Covered'
    BY <1>2 DEF Covered, OverwritesAreCovered, Covers, Intact, Target
  <1>3. CASE Tick \/ UNCHANGED vars
    BY <1>2, <1>3 DEF Tick, vars
  <1>4. CASE Fail \/ Modify
    BY <1>4, CoveredElse DEF Fail, Modify, Idle
  <1>5. CASE Dump
    <2>1. /\ op.at = "dump" /\ op' = op.next /\ owed' = owed \cup op.fresh
          /\ manifest' = op.entries /\ UNCHANGED <<disk, backup, faults>>
      BY <1>5 DEF Dump
    <2>2. CASE op.next.at = "modify"
      <3>1. faults # {} \/ \E e \in op.fresh \cap ToSet(op.entries) :
                              Covers(e, op.next.file)
        BY <2>1, <2>2 DEF Covered
      <3>3. ToSet(manifest)' = ToSet(op.entries)
        BY <2>1 DEF ToSet
      <3>2. OverwritesAreCovered'
        BY <2>1, <3>1, <3>3 DEF OverwritesAreCovered, Covers, Intact
      <3> QED
        BY <2>1, <2>2, <3>2 DEF Covered
    <2>3. CASE op.next.at # "modify"
      <3>1. op.next = Idle
        <4>1. op.next = Idle \/ \E f \in File : op.next = [at |-> "modify", file |-> f]
          BY <1>1, <2>1 DEF OpOK, InDump
        <4>2. ASSUME NEW f \in File, op.next = [at |-> "modify", file |-> f]
              PROVE  FALSE
          <5>1. op.next.at = "modify"
            BY <4>2
          <5> QED
            BY <2>3, <5>1
        <4> QED
          BY <4>1, <4>2
      <3> QED
        BY <2>1, <3>1, CoveredElse DEF Idle
    <2> QED
      BY <2>2, <2>3
  <1>6. CASE Copy
    <2>1. op.at = "copy" /\ op.file \in File /\ op.next \in Then(op.file)
      BY <1>1, <1>6 DEF Copy, OpOK, InCopy
    <2>2. /\ op'.at = "append" /\ op'.next = op.next /\ disk' = disk
          /\ op'.entry.file = op.file /\ op'.entry.hash = disk[op.file]
          /\ op'.entry.id = NewId(op.file)
          /\ backup' = [backup EXCEPT ![NewId(op.file)] = disk[op.file]]
      BY <1>6 DEF Copy
    <2>3. op.next.at = "modify" => op.next.file = op.file
      BY <2>1 DEF Then, Idle
    <2>4. backup \in [Id -> Hash \cup {"missing", "cut"}] /\ NewId(op.file) \in Id
      BY <1>1, <2>1, NewIdType DEF TypeOK
    <2> QED
      BY <2>2, <2>3, <2>4 DEF Covered, OverwritesAreCovered, Covers, Intact
  <1>7. CASE CopyFails
    BY <1>7, CoveredElse DEF CopyFails
  <1>8. CASE AppendEntry
    <2>1. /\ op.at = "append" /\ op.entry \in Entry
          /\ op' = [at |-> "dump", entries |-> Append(manifest, Hashed),
                    fresh |-> {Hashed}, next |-> op.next]
          /\ UNCHANGED <<disk, backup, faults>>
      BY <1>1, <1>8 DEF AppendEntry, Save, OpOK, InAppend
    <2>2. /\ Hashed \in Entry /\ Hashed.id = op.entry.id
          /\ Hashed.file = op.entry.file /\ Hashed.hash = op.entry.hash
      BY <1>1, <2>1, HashedType
    <2>3. Hashed \in ToSet(Append(manifest, Hashed))
      <3>1. manifest \in Seq(Entry)
        BY <1>1 DEF TypeOK
      <3>2. PICK n \in Nat : n = Len(manifest)
        BY <3>1
      <3>3. /\ n + 1 \in DOMAIN Append(manifest, Hashed)
            /\ Append(manifest, Hashed)[n + 1] = Hashed
        BY <2>2, <3>1, <3>2
      <3> QED
        BY <3>3 DEF ToSet
    <2>4. PICK e : e = Hashed
      OBVIOUS
    <2>5. /\ op'.at = "dump" /\ op'.fresh = {e} /\ op'.next = op.next
          /\ e \in ToSet(op'.entries)
      BY <2>1, <2>3, <2>4
    <2>6. op.next.at = "modify" /\ faults = {} => Covers(e, op.next.file)'
      BY <2>1, <2>2, <2>4 DEF Covered, Covers, Intact
    <2> QED
      BY <2>1, <2>5, <2>6 DEF Covered, OverwritesAreCovered
  <1>9. CASE Mark \/ Cleaned
    <2>1. op'.at = "dump" /\ op'.next = Idle
      BY <1>9 DEF Mark, Cleaned, Save
    <2> QED
      BY <2>1 DEF Covered, OverwritesAreCovered, Idle
  <1>10. CASE RemoveBackup
    <2>1. op \in [at : {"clean"}, cutoff : Nat, seen : Nat] /\ op' = [op EXCEPT !.seen = @ + 1]
      BY <1>1, <1>10 DEF RemoveBackup, OpOK, InClean
    <2>2. op'.at = "clean"
      BY <2>1
    <2> QED
      BY <2>2, CoveredElse
  <1>11. ASSUME NEW f \in File, NEW c \in Content, Edit(f, c)
         PROVE  Covered'
    <2>1. CASE f \in Target(op)
      BY <1>11, <2>1, CoveredElse DEF Edit
    <2>2. CASE f \notin Target(op)
      <3>1. Target(op) \subseteq File
        <4>1. op.at = "modify" => op.file \in File
          BY <1>1 DEF OpOK, InModify
        <4>2. \A d \in File : \A next \in Then(d) : next.at = "modify" => next.file = d
          BY DEF Then, Idle
        <4>3. op.at = "copy" /\ op.next.at = "modify" => op.next.file \in File
          BY <1>1, <4>2 DEF OpOK, InCopy
        <4>4. op.at = "append" /\ op.next.at = "modify" => op.next.file \in File
          <5> SUFFICES ASSUME op.at = "append", op.next.at = "modify"
                       PROVE  op.next.file \in File
            OBVIOUS
          <5>1. op.entry \in Entry /\ op.next \in Then(op.entry.file)
            BY <1>1 DEF OpOK, InAppend
          <5>2. op.entry.file \in File
            BY <5>1 DEF Entry
          <5> QED
            BY <4>2, <5>1, <5>2
        <4>5. op.at = "dump" /\ op.next.at = "modify" => op.next.file \in File
          <5> SUFFICES ASSUME op.at = "dump", op.next.at = "modify"
                       PROVE  op.next.file \in File
            OBVIOUS
          <5>1. op.next = Idle \/ \E d \in File : op.next = [at |-> "modify", file |-> d]
            BY <1>1 DEF OpOK, InDump
          <5>2. Idle.at # "modify"
            BY DEF Idle
          <5>3. PICK d \in File : op.next = [at |-> "modify", file |-> d]
            BY <5>1, <5>2
          <5>4. op.next.file = d
            BY <5>3
          <5> QED
            BY <5>4
        <4> QED
          BY <4>1, <4>3, <4>4, <4>5 DEF Target
      <3>2. \A d \in Target(op) : disk'[d] = disk[d]
        BY <1>1, <1>11, <2>2, <3>1 DEF Edit
      <3> QED
        BY <1>2, <1>11, <2>2, <3>2 DEF Edit
    <2> QED
      BY <2>1, <2>2
  <1>12. ASSUME NEW f \in File, Begin(f)
         PROVE  Covered'
    <2>1. PICK next \in Then(f) :
             op' = IF disk[f] \in {"missing", "empty"} THEN next
                   ELSE [at |-> "copy", file |-> f, next |-> next]
      BY <1>12 DEF Begin
    <2>2. disk' = disk
      BY <1>12 DEF Begin
    <2>3. CASE disk[f] \notin {"missing", "empty"}
      BY <2>1, <2>3, CoveredElse
    <2>4. CASE disk[f] \in {"missing", "empty"} /\ next = Idle
      BY <2>1, <2>4, CoveredElse DEF Idle
    <2>5. CASE disk[f] \in {"missing", "empty"} /\ next # Idle
      <3>1. op'.at = "modify" /\ op'.file = f
        BY <2>1, <2>5 DEF Then
      <3>2. disk'[f] \notin Hash
        BY <2>2, <2>5, NoSpecialHash
      <3> QED
        BY <3>1, <3>2 DEF Covered, OverwritesAreCovered
    <2> QED
      BY <2>3, <2>4, <2>5
  <1>13. CASE (\E id \in Id : Restore(id)) \/ (\E f \in File : RestoreLast(f))
    <2>1. op.at = "idle" /\ \E i \in DOMAIN manifest : RestoreEntry(i) \/ RestoreFails(i)
      BY <1>1, <1>13, RestoresEntry
    <2>2. op'.at \in {"idle", "mark"}
      BY <2>1 DEF RestoreEntry, RestoreFails
    <2> QED
      BY <2>2, CoveredElse
  <1>14. ASSUME NEW cutoff \in 1..(clock + 1), Cleanup(cutoff)
         PROVE  Covered'
    BY <1>14, CoveredElse DEF Cleanup
  <1> QED
    BY <1>3, <1>4, <1>5, <1>6, <1>7, <1>8, <1>9, <1>10, <1>11, <1>12, <1>13, <1>14 DEF Next

-----------------------------------------------------------------------------
SnapshotInv == Typed /\ Listed /\ Prepared /\ Covered

LEMMA SnapshotInvInit == Init => SnapshotInv
  <1>1. Init => Covered
    BY DEF Init, Idle, Covered, OverwritesAreCovered
  <1> QED
    BY <1>1, TypedInit, ListedInit DEF SnapshotInv

LEMMA SnapshotInvStep == SnapshotInv /\ [Next]_vars => SnapshotInv'
  BY TypedStep, ListedStep, CoveredStep DEF SnapshotInv

LEMMA SnapshotInvariant == Spec => []SnapshotInv
  BY SnapshotInvInit, SnapshotInvStep, PTL DEF Spec

(***************************************************************************)
(* The variables of the snapshots keep their types, and the manifest stays *)
(* in the order in which ids were given (rollback.py).                     *)
(***************************************************************************)
THEOREM SnapshotTypeCorrect == Spec => []TypeOK
  <1>1. SnapshotInv => TypeOK
    BY DEF SnapshotInv, Typed
  <1> QED
    BY <1>1, SnapshotInvariant, PTL

(***************************************************************************)
(* What a saved entry promises can be restored by its id, whatever         *)
(* snapshots, restores and cleanups ended where.                           *)
(***************************************************************************)
THEOREM AlwaysRecoverable == Spec => []Recoverable
  <1>1. SnapshotInv => Recoverable
    BY DEF SnapshotInv, Listed, Recoverable, Restorable, Alone
  <1> QED
    BY <1>1, SnapshotInvariant, PTL

(***************************************************************************)
(* No tool overwrites a content that no listed entry has an intact backup  *)
(* of (_file_op), unless the copy for that very write failed or others     *)
(* edited the file after it began.                                         *)
(***************************************************************************)
THEOREM OverwritesAlwaysCovered == Spec => []OverwritesAreCovered
  <1>1. SnapshotInv => OverwritesAreCovered
    BY DEF SnapshotInv, Covered
  <1> QED
    BY <1>1, SnapshotInvariant, PTL

\* One step that restores an entry.
LEMMA RestoresLatestStep ==
    ASSUME Typed, Listed, [Next]_vars, Restoring, NEW e, e = op'.entry
    PROVE  /\ e \in ToSet(manifest)
           /\ disk' = [disk EXCEPT ![e.file] = e.hash]
           /\ \A f \in File :
                 RestoreLast(f) /\ e.id \notin tied =>
                     /\ e.file = f
                     /\ \A i \in Ours(f) : manifest[i].id[1] <= e.id[1]
  <1> USE DEF promises
  <1>1. TypeOK /\ manifest \in Seq(Entry) /\ op.at = "idle" /\ op'.at = "mark"
    BY DEF Typed, TypeOK, Restoring
  <1>2. (\E id \in Id : Restore(id)) \/ (\E f \in File : RestoreLast(f))
    <2>1. ~(Tick \/ UNCHANGED vars)
      BY <1>1 DEF Tick, vars
    <2>2. ~(Fail \/ Dump \/ Copy \/ CopyFails \/ AppendEntry \/ Modify \/ Mark
              \/ RemoveBackup \/ Cleaned)
      BY <1>1 DEF Fail, Dump, Copy, CopyFails, AppendEntry, Modify, Mark, RemoveBackup, Cleaned
    <2>3. ~\E f \in File, c \in Content : Edit(f, c)
      BY <1>1 DEF Edit
    <2>4. ~\E f \in File : Begin(f)
      BY <1>1 DEF Begin, Then, Idle
    <2>5. ~\E cutoff \in 1..(clock + 1) : Cleanup(cutoff)
      BY <1>1 DEF Cleanup
    <2> QED
      BY <2>1, <2>2, <2>3, <2>4, <2>5 DEF Next
  <1>3. PICK i \in DOMAIN manifest : RestoreEntry(i)
    BY <1>1, <1>2, RestoresEntry DEF RestoreFails
  <1>4. e = manifest[i] /\ disk' = [disk EXCEPT ![e.file] = e.hash]
    BY <1>3 DEF RestoreEntry, Intact
  <1>5. ASSUME NEW f \in File, RestoreLast(f), e.id \notin tied
        PROVE  /\ e.file = f
               /\ \A j \in Ours(f) : manifest[j].id[1] <= e.id[1]
    <2> DEFINE l == LastOf(Ours(f))
               k == FirstOf(Named(manifest[l].id))
    <2>1. l \in Ours(f) /\ l \in DOMAIN manifest /\ \A j \in Ours(f) : l >= j
      BY <1>1, <1>5, PlacesExtreme DEF RestoreLast, Ours, Unrestored
    <2>2. k \in DOMAIN manifest /\ manifest[k].id = manifest[l].id
      <3>1. l \in Named(manifest[l].id) /\ Named(manifest[l].id) \subseteq DOMAIN manifest
        BY <2>1 DEF Ours, Named, Unrestored
      <3> QED
        BY <1>1, <3>1, PlacesExtreme DEF Named
    <2>3. RestoreEntry(k)
      BY <1>1, <1>5 DEF RestoreLast, RestoreFails
    <2> HIDE DEF l, k
    <2>4. e = manifest[k]
      BY <2>3 DEF RestoreEntry
    <2>5. k = l
      <3>1. Entries = manifest
        BY <1>1 DEF Entries
      <3> QED
        BY <1>5, <2>1, <2>2, <2>4, <3>1 DEF Listed, UniqueIn
    <2>6. e.file = f
      BY <2>1, <2>4, <2>5 DEF Ours
    <2>7. ASSUME NEW j \in Ours(f)
          PROVE  manifest[j].id[1] <= e.id[1]
      <3>1. j \in DOMAIN manifest /\ j <= l /\ l \in Nat /\ j \in 1..l
        BY <1>1, <2>1 DEF Ours, Unrestored
      <3> QED
        BY <1>1, <2>1, <2>4, <2>5, <3>1 DEF TypeOK
    <2> QED
      BY <2>6, <2>7
  <1> QED
    BY <1>1, <1>3, <1>4, <1>5 DEF ToSet

(***************************************************************************)
(* Restoring writes the content of one of the file's own snapshots, and    *)
(* restore_last passes over no later snapshot of the file.                 *)
(***************************************************************************)
THEOREM AlwaysRestoresLatest == Spec => RestoresLatest
  <1>1. SnapshotInv /\ [Next]_vars =>
           [Restoring =>
              LET e == op'.entry
              IN  /\ e \in ToSet(manifest)
                  /\ disk' = [disk EXCEPT ![e.file] = e.hash]
                  /\ \A f \in File :
                        RestoreLast(f) /\ e.id \notin tied =>
                            /\ e.file = f
                            /\ \A i \in Ours(f) : manifest[i].id[1] <= e.id[1]]_vars
    BY RestoresLatestStep DEF SnapshotInv
  <1> QED
    BY <1>1, SnapshotInvariant, PTL DEF Spec, RestoresLatest
=============================================================================
