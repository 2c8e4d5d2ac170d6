----------------------- MODULE CapabilityTokenProofs -----------------------
(***************************************************************************)
(* Single use of a capability while it lives, for any number of threads,   *)
(* nonces and scopes, any life and any clock bound.                        *)
(***************************************************************************)
EXTENDS CapabilityToken, FiniteSetTheorems, TLAPS

(***************************************************************************)
(* The inductive invariant.                                                *)
(***************************************************************************)
\* Two issued tokens never share a nonce.
FreshNonces == \A a, b \in minted : a.nonce = b.nonce => a = b

\* A thread past verify works on an issued token.
GenuineHolders ==
    \A t \in Thread : pc[t] \in {"verified", "saving", "saved"} => held[t] \in minted

\* The lock is held exactly by the thread that is about to save.
LockHolder == \A t \in Thread : pc[t] \in {"saving", "resaving"} <=> lock = t

\* A winner has burned its nonce in time and has not returned yet.
Winner(t) == pc[t] \in {"saving", "saved"} /\ live[t]

\* A winner's nonce is not granted yet and is burned until it expires.
WinnersAreBurned ==
    \A t \in Thread : Winner(t) =>
        /\ liveGrants[held[t].nonce] = 0
        /\ held[t].expires_at > clock =>
              /\ EntryOf(held[t]) \in consumed
              /\ pc[t] = "saved" => EntryOf(held[t]) \in disk

OneWinner ==
    \A t, u \in Thread :
        Winner(t) /\ Winner(u) /\ held[t].nonce = held[u].nonce => t = u

GrantedIsMinted ==
    \A n \in Nonce : liveGrants[n] > 0 => \E tok \in minted : tok.nonce = n

WellFormed == TypeOK /\ FreshNonces /\ GenuineHolders /\ LockHolder

Burned == WinnersAreBurned /\ OneWinner /\ GrantedIsMinted /\ BurnedUntilExpiry
             /\ SingleUseWhileLive

IInv == WellFormed /\ Burned

-----------------------------------------------------------------------------
LEMMA UnexpiredSubset == ASSUME NEW S PROVE Unexpired(S) \subseteq S
  BY DEF Unexpired

LEMMA EntryType == ASSUME NEW tok \in Token PROVE EntryOf(tok) \in Entry
  BY DEF Token, Entry, EntryOf

(***************************************************************************)
(* First half: types, and who holds the lock and which token.  Types alone *)
(* are not inductive: that consumed holds entries rests on held[t] being a *)
(* token in a thread past verify.                                          *)
(***************************************************************************)
LEMMA WellFormedInit == Init => WellFormed
  BY ThreadAssumption
  DEF Init, WellFormed, TypeOK, Where, FreshNonces, GenuineHolders, LockHolder

LEMMA WellFormedNext == WellFormed /\ [Next]_vars => WellFormed'
  <1> SUFFICES ASSUME WellFormed, [Next]_vars PROVE WellFormed'
    OBVIOUS
  <1> USE ThreadAssumption
      DEF WellFormed, TypeOK, Where, FreshNonces, GenuineHolders, LockHolder,
          storeVars, threadVars, historyVars, Return
  <1>1. CASE Tick
    BY <1>1 DEF Tick
  <1>2. ASSUME NEW scope \in Scope, Issue(scope) PROVE WellFormed'
    <2>1. PICK n \in Nonce :
            /\ \A tok \in minted : tok.nonce # n
            /\ minted' = minted \cup
              {[nonce |-> n, scope |-> scope, expires_at |-> clock + Ttl]}
      BY <1>2 DEF Issue
    <2>2. [nonce |-> n, scope |-> scope, expires_at |-> clock + Ttl] \in Token
      BY TtlAssumption DEF Token
    <2>3. TypeOK'
      BY <1>2, <2>1, <2>2 DEF Issue
    <2>4. FreshNonces'
      BY <2>1
    <2> QED
      BY <1>2, <2>1, <2>3, <2>4 DEF Issue
  <1>3. ASSUME NEW t \in Thread, NEW tok \in minted, NEW expected \in Scope,
               Verify(t, tok, expected)
        PROVE WellFormed'
    BY <1>3 DEF Verify
  <1>4. ASSUME NEW t \in Thread, ConsumeFresh(t) PROVE WellFormed'
    <2>1. held[t] \in Token
      BY <1>4 DEF ConsumeFresh
    <2>2. EntryOf(held[t]) \in Entry
      BY <2>1, EntryType
    <2>3. consumed' \in SUBSET Entry
      BY <1>4, <2>2, UnexpiredSubset DEF ConsumeFresh
    <2> QED
      BY <1>4, <2>3 DEF ConsumeFresh
  <1>5. ASSUME NEW t \in Thread, ConsumeReplay(t) PROVE WellFormed'
    BY <1>5, UnexpiredSubset DEF ConsumeReplay
  <1>6. ASSUME NEW t \in Thread, Save(t) PROVE WellFormed'
    BY <1>6 DEF Save
  <1>7. ASSUME NEW t \in Thread, SaveFails(t) PROVE WellFormed'
    BY <1>7 DEF SaveFails
  <1>8. ASSUME NEW t \in Thread, Grant(t) PROVE WellFormed'
    <2>1. held[t].nonce \in Nonce
      BY <1>8 DEF Grant, Token
    <2>2. liveGrants' \in [Nonce -> Nat] /\ lateGrants' \in [Nonce -> Nat]
      BY <1>8, <2>1 DEF Grant
    <2> QED
      BY <1>8, <2>2 DEF Grant
  <1>9. ASSUME NEW t \in Thread, Cleanup(t) PROVE WellFormed'
    BY <1>9, UnexpiredSubset DEF Cleanup
  <1>10. ASSUME NEW t \in Thread, Resave(t) PROVE WellFormed'
    BY <1>10 DEF Resave
  <1>11. CASE Restart
    BY <1>11, UnexpiredSubset DEF Restart
  <1>12. CASE UNCHANGED vars
    BY <1>12 DEF vars
  <1> QED
    BY <1>1, <1>2, <1>3, <1>4, <1>5, <1>6, <1>7, <1>8, <1>9, <1>10, <1>11, <1>12
    DEF Next

\* Every variable keeps its type in every behaviour of the service.
THEOREM TypeCorrect == Spec => []TypeOK
  <1>1. WellFormed => TypeOK
    BY DEF WellFormed
  <1> QED
    BY <1>1, WellFormedInit, WellFormedNext, PTL DEF Spec

-----------------------------------------------------------------------------
(***************************************************************************)
(* Second half: a nonce burned in time is burned until it expires, so that *)
(* at most one thread can win it.                                          *)
(***************************************************************************)
\* An unexpired entry outlives every cleanup.
LEMMA CleanupKeeps ==
    ASSUME NEW S, NEW tok \in Token, tok.expires_at > clock, EntryOf(tok) \in S
    PROVE  EntryOf(tok) \in Unexpired(S)
  BY DEF Unexpired, EntryOf, Token

\* A nonce with an unexpired entry is found by the replay test.
LEMMA EntryIsRecorded ==
    ASSUME NEW S, NEW tok \in Token, EntryOf(tok) \in S
    PROVE  Recorded(tok.nonce, S)
  BY DEF Recorded, EntryOf, Token

LEMMA BurnedInit == Init => Burned
  BY DEF Init, Burned, WinnersAreBurned, OneWinner, GrantedIsMinted,
         BurnedUntilExpiry, SingleUseWhileLive, Winner

LEMMA BurnedNext == WellFormed /\ WellFormed' /\ Burned /\ [Next]_vars => Burned'
  <1> SUFFICES ASSUME WellFormed, WellFormed', Burned, [Next]_vars PROVE Burned'
    OBVIOUS
  <1> USE ThreadAssumption
      DEF WellFormed, TypeOK, Where, FreshNonces, GenuineHolders, LockHolder,
          Burned, WinnersAreBurned, OneWinner, GrantedIsMinted,
          BurnedUntilExpiry, SingleUseWhileLive, Winner,
          storeVars, threadVars, historyVars, Return
  <1>0. \A tok \in minted : tok \in Token /\ tok.expires_at \in Nat /\ tok.nonce \in Nonce
    BY DEF Token
  <1>1. CASE Tick
    BY <1>0, <1>1 DEF Tick
  <1>2. ASSUME NEW scope \in Scope, Issue(scope) PROVE Burned'
    <2>1. PICK n \in Nonce :
            /\ \A tok \in minted : tok.nonce # n
            /\ minted' = minted \cup
              {[nonce |-> n, scope |-> scope, expires_at |-> clock + Ttl]}
      BY <1>2 DEF Issue
    <2>2. ~(liveGrants[n] > 0)
      BY <2>1
    <2>3. BurnedUntilExpiry'
      BY <1>2, <2>1, <2>2 DEF Issue
    <2>4. GrantedIsMinted'
      BY <1>2, <2>1 DEF Issue
    <2> QED
      BY <1>2, <2>3, <2>4 DEF Issue
  <1>3. ASSUME NEW t \in Thread, NEW tok \in minted, NEW expected \in Scope,
               Verify(t, tok, expected)
        PROVE Burned'
    BY <1>3 DEF Verify
  <1>4. ASSUME NEW t \in Thread, ConsumeFresh(t) PROVE Burned'
    <2> DEFINE tok == held[t]
    <2>1. tok \in minted /\ tok \in Token /\ tok.expires_at \in Nat
      BY <1>0, <1>4 DEF ConsumeFresh
    <2>2. ASSUME tok.expires_at > clock, EntryOf(tok) \in consumed PROVE FALSE
      BY <1>4, <2>1, <2>2, CleanupKeeps, EntryIsRecorded DEF ConsumeFresh
    <2>3. tok.expires_at > clock => liveGrants[tok.nonce] = 0
      BY <1>0, <2>1, <2>2
    <2>4. \A u \in Thread :
            tok.expires_at > clock /\ Winner(u) => held[u].nonce # tok.nonce
      BY <1>0, <2>1, <2>2
    <2>5. \A a \in Token : a.expires_at > clock /\ EntryOf(a) \in consumed
                             => EntryOf(a) \in consumed'
      BY <1>4, CleanupKeeps DEF ConsumeFresh
    <2>6. WinnersAreBurned'
      <3>1. \A u \in Thread \ {t} : Winner(u)' => Winner(u)
        BY <1>4 DEF ConsumeFresh
      <3>2. Winner(t)' => liveGrants[tok.nonce] = 0 /\ EntryOf(tok) \in consumed'
        BY <1>4, <2>3 DEF ConsumeFresh
      <3> QED
        BY <1>0, <1>4, <2>5, <3>1, <3>2 DEF ConsumeFresh
    <2>7. OneWinner'
      <3>1. \A u \in Thread \ {t} : Winner(u)' => Winner(u)
        BY <1>4 DEF ConsumeFresh
      <3>2. Winner(t)' => tok.expires_at > clock
        BY <1>4 DEF ConsumeFresh
      <3>3. held' = held
        BY <1>4 DEF ConsumeFresh
      <3> QED
        BY <2>4, <3>1, <3>2, <3>3
    <2>8. BurnedUntilExpiry'
      BY <1>0, <1>4, <2>5 DEF ConsumeFresh
    <2> QED
      BY <1>4, <2>6, <2>7, <2>8 DEF ConsumeFresh
  <1>5. ASSUME NEW t \in Thread, ConsumeReplay(t) PROVE Burned'
    <2>1. \A a \in Token : a.expires_at > clock /\ EntryOf(a) \in consumed
                             => EntryOf(a) \in consumed'
      BY <1>5, CleanupKeeps DEF ConsumeReplay
    <2> QED
      BY <1>0, <1>5, <2>1 DEF ConsumeReplay
  <1>6. ASSUME NEW t \in Thread, Save(t) PROVE Burned'
    BY <1>6 DEF Save
  <1>7. ASSUME NEW t \in Thread, SaveFails(t) PROVE Burned'
    BY <1>7 DEF SaveFails
  <1>8. ASSUME NEW t \in Thread, Grant(t) PROVE Burned'
    <2>1. CASE ~live[t]
      BY <1>8, <2>1 DEF Grant
    <2>2. CASE live[t]
      <3> DEFINE tok == held[t]
      <3>1. tok \in minted /\ Winner(t) /\ tok.nonce \in Nonce
        BY <1>0, <1>8, <2>2 DEF Grant
      <3>2. liveGrants' = [liveGrants EXCEPT ![tok.nonce] = 1]
        <4>1. liveGrants' = [liveGrants EXCEPT ![tok.nonce] = liveGrants[tok.nonce] + 1]
          BY <1>8, <2>2 DEF Grant
        <4>2. liveGrants[tok.nonce] = 0
          BY <3>1
        <4> QED
          BY <4>1, <4>2
      <3>3. \A u \in Thread : Winner(u)' => u # t /\ Winner(u) /\ held'[u] = held[u]
        BY <1>8 DEF Grant
      <3>4. WinnersAreBurned'
        BY <1>8, <3>1, <3>2, <3>3 DEF Grant
      <3>5. OneWinner'
        BY <3>3
      <3>6. BurnedUntilExpiry'
        BY <1>8, <3>1, <3>2 DEF Grant
      <3> QED
        BY <1>8, <3>1, <3>2, <3>4, <3>5, <3>6 DEF Grant
    <2> QED
      BY <2>1, <2>2
  <1>9. ASSUME NEW t \in Thread, Cleanup(t) PROVE Burned'
    <2>1. \A a \in Token : a.expires_at > clock /\ EntryOf(a) \in consumed
                             => EntryOf(a) \in consumed'
      BY <1>9, CleanupKeeps DEF Cleanup
    <2> QED
      BY <1>0, <1>9, <2>1 DEF Cleanup
  <1>10. ASSUME NEW t \in Thread, Resave(t) PROVE Burned'
    BY <1>10 DEF Resave
  <1>11. CASE Restart
    <2>1. \A a \in Token : a.expires_at > clock /\ EntryOf(a) \in disk
                             => EntryOf(a) \in consumed' /\ EntryOf(a) \in disk'
      BY <1>11, CleanupKeeps DEF Restart
    <2> QED
      BY <1>0, <1>11, <2>1 DEF Restart
  <1>12. CASE UNCHANGED vars
    BY <1>12 DEF vars
  <1> QED
    BY <1>1, <1>2, <1>3, <1>4, <1>5, <1>6, <1>7, <1>8, <1>9, <1>10, <1>11, <1>12
    DEF Next

LEMMA Invariance == Spec => []IInv
  <1>1. Init => IInv
    BY WellFormedInit, BurnedInit DEF IInv
  <1>2. IInv /\ [Next]_vars => IInv'
    BY WellFormedNext, BurnedNext DEF IInv
  <1> QED
    BY <1>1, <1>2, PTL DEF Spec

\* However many threads, failed saves and restarts there are, no nonce burned
\* before its expiry is granted twice.
THEOREM SingleUseWhileLiveHolds == Spec => []SingleUseWhileLive
  <1>1. IInv => SingleUseWhileLive
    BY DEF IInv, Burned
  <1> QED
    BY <1>1, Invariance, PTL

\* A granted nonce stays in memory and in the file until its token expires.
THEOREM BurnedUntilExpiryHolds == Spec => []BurnedUntilExpiry
  <1>1. IInv => BurnedUntilExpiry
    BY DEF IInv, Burned
  <1> QED
    BY <1>1, Invariance, PTL

-----------------------------------------------------------------------------
(***************************************************************************)
(* The late grants: only a call that verify let through before the token   *)
(* expired can still be granted, so those in a call and those granted late *)
(* are together no more than the threads.                                  *)
(***************************************************************************)
InCall(n) ==
    {t \in Thread : pc[t] \in {"verified", "saving", "saved"} /\ held[t].nonce = n}

\* Nothing is late before its time.
LateIsExpired ==
    /\ \A n \in Nonce : lateGrants[n] > 0 =>
          \E tok \in minted : tok.nonce = n /\ tok.expires_at <= clock
    /\ \A t \in Thread :
          pc[t] \in {"saving", "saved"} /\ ~live[t] => held[t].expires_at <= clock

RoomForLate ==
    \A n \in Nonce : lateGrants[n] + Cardinality(InCall(n)) <= Cardinality(Thread)

Late == LateIsExpired /\ RoomForLate

LEMMA InCallIsFinite ==
    ASSUME NEW n
    PROVE  /\ IsFiniteSet(InCall(n)) /\ Cardinality(InCall(n)) \in Nat
           /\ Cardinality(Thread) \in Nat
           /\ Cardinality(InCall(n)) <= Cardinality(Thread)
  <1>1. InCall(n) \subseteq Thread
    BY DEF InCall
  <1> QED
    BY <1>1, ThreadAssumption, FS_Subset, FS_CardinalityType

LEMMA LateInit == Init => Late
  <1> SUFFICES ASSUME Init PROVE Late
    OBVIOUS
  <1>1. ASSUME NEW n \in Nonce
        PROVE  lateGrants[n] + Cardinality(InCall(n)) <= Cardinality(Thread)
    <2>1. lateGrants[n] = 0
      BY DEF Init
    <2> QED
      BY <2>1, InCallIsFinite
  <1> QED
    BY <1>1 DEF Init, Late, LateIsExpired, RoomForLate

LEMMA LateIsExpiredNext ==
    WellFormed /\ LateIsExpired /\ [Next]_vars => LateIsExpired'
  <1> SUFFICES ASSUME WellFormed, LateIsExpired, [Next]_vars PROVE LateIsExpired'
    OBVIOUS
  <1> USE DEF WellFormed, TypeOK, GenuineHolders, LateIsExpired,
              storeVars, threadVars, historyVars, Return
  <1>0. \A tok \in minted : tok \in Token /\ tok.expires_at \in Nat /\ tok.nonce \in Nonce
    BY DEF Token
  <1>1. CASE Tick
    <2>1. \A t \in Thread : pc[t] \in {"saving", "saved"} => held[t] \in minted
      OBVIOUS
    <2> QED
      BY <1>0, <1>1, <2>1 DEF Tick
  <1>2. CASE \E scope \in Scope : Issue(scope)
    BY <1>2 DEF Issue
  <1>3. CASE \E t \in Thread, tok \in minted, expected \in Scope :
               Verify(t, tok, expected)
    BY <1>3 DEF Verify
  <1>4. ASSUME NEW t \in Thread, ConsumeFresh(t) PROVE LateIsExpired'
    <2>1. held[t].expires_at \in Nat /\ clock \in Nat
      BY <1>0, <1>4 DEF ConsumeFresh
    <2>2. /\ live'[t] = (held[t].expires_at > clock) /\ held' = held /\ clock' = clock
          /\ minted' = minted /\ lateGrants' = lateGrants
          /\ \A u \in Thread \ {t} : pc'[u] = pc[u] /\ live'[u] = live[u]
      BY <1>4 DEF ConsumeFresh
    <2>3. ~live'[t] => ~(held[t].expires_at > clock)
      BY <2>2, Zenon
    <2>4. ~live'[t] => held[t].expires_at <= clock
      BY <2>1, <2>3
    <2> QED
      BY <2>2, <2>4
  <1>5. CASE \E t \in Thread : ConsumeReplay(t)
    BY <1>5 DEF ConsumeReplay
  <1>6. CASE \E t \in Thread : Save(t) \/ SaveFails(t)
    BY <1>6 DEF Save, SaveFails
  <1>7. ASSUME NEW t \in Thread, Grant(t) PROVE LateIsExpired'
    <2>1. pc[t] = "saved" /\ held[t] \in minted /\ minted' = minted /\ clock' = clock
      BY <1>7 DEF Grant
    <2>2. \A n \in Nonce \ {held[t].nonce} : lateGrants'[n] = lateGrants[n]
      BY <1>7 DEF Grant
    <2>3. live[t] => lateGrants' = lateGrants
      BY <1>7 DEF Grant
    <2>4. ~live[t] => held[t].expires_at <= clock
      BY <2>1
    <2>5. \A u \in Thread : pc'[u] \in {"saving", "saved"} =>
            pc[u] = pc'[u] /\ live'[u] = live[u] /\ held'[u] = held[u]
      BY <1>7 DEF Grant
    <2> QED
      BY <2>1, <2>2, <2>3, <2>4, <2>5
  <1>8. CASE \E t \in Thread : Cleanup(t) \/ Resave(t)
    BY <1>8 DEF Cleanup, Resave
  <1>9. CASE Restart \/ UNCHANGED vars
    BY <1>9 DEF Restart, vars
  <1> QED
    BY <1>1, <1>2, <1>3, <1>4, <1>5, <1>6, <1>7, <1>8, <1>9 DEF Next

\* Steps that let no call through verify and grant nothing.
LEMMA NoEntryKeepsRoom ==
    ASSUME WellFormed, RoomForLate, lateGrants' = lateGrants,
           \A n \in Nonce : InCall(n)' \subseteq InCall(n)
    PROVE  RoomForLate'
  <1> SUFFICES ASSUME NEW n \in Nonce
               PROVE  lateGrants'[n] + Cardinality(InCall(n)') <= Cardinality(Thread)
    BY DEF RoomForLate
  <1>1. Cardinality(InCall(n)') <= Cardinality(InCall(n))
        /\ Cardinality(InCall(n)') \in Nat
    BY InCallIsFinite, FS_Subset, FS_CardinalityType
  <1>2. lateGrants[n] + Cardinality(InCall(n)) <= Cardinality(Thread)
        /\ lateGrants[n] \in Nat
    BY DEF RoomForLate, WellFormed, TypeOK
  <1> QED
    BY <1>1, <1>2, InCallIsFinite

\* verify lets a call through only while nothing of its nonce is late.
LEMMA VerifyKeepsRoom ==
    ASSUME WellFormed, Late, NEW t \in Thread, NEW tok \in minted,
           NEW expected \in Scope, Verify(t, tok, expected)
    PROVE  RoomForLate'
  <1> SUFFICES ASSUME NEW n \in Nonce
               PROVE  lateGrants'[n] + Cardinality(InCall(n)') <= Cardinality(Thread)
    BY DEF RoomForLate
  <1>1. lateGrants' = lateGrants /\ lateGrants[n] \in Nat
    BY DEF Verify, historyVars, WellFormed, TypeOK
  <1>2. CASE n = tok.nonce
    <2>1. tok \in Token /\ tok.expires_at \in Nat /\ clock \in Nat
          /\ tok.expires_at > clock
      BY DEF WellFormed, TypeOK, Token, Verify
    <2>2. lateGrants[n] = 0
      BY <1>1, <1>2, <2>1 DEF Late, LateIsExpired, WellFormed, FreshNonces
    <2>3. InCall(n)' \subseteq Thread
      BY DEF InCall
    <2>4. Cardinality(InCall(n)') <= Cardinality(Thread)
          /\ Cardinality(InCall(n)') \in Nat
      BY <2>3, ThreadAssumption, FS_Subset, FS_CardinalityType
    <2> QED
      BY <1>1, <2>2, <2>4
  <1>3. CASE n # tok.nonce
    <2>1. InCall(n)' \subseteq InCall(n)
      BY <1>3 DEF InCall, Verify, WellFormed, TypeOK
    <2>2. Cardinality(InCall(n)') <= Cardinality(InCall(n))
          /\ Cardinality(InCall(n)') \in Nat
      BY <2>1, InCallIsFinite, FS_Subset, FS_CardinalityType
    <2>3. lateGrants[n] + Cardinality(InCall(n)) <= Cardinality(Thread)
      BY DEF Late, RoomForLate
    <2> QED
      BY <1>1, <2>2, <2>3, InCallIsFinite
  <1> QED
    BY <1>2, <1>3

\* A call that is granted is over.
LEMMA GrantKeepsRoom ==
    ASSUME WellFormed, Late, NEW t \in Thread, Grant(t)
    PROVE  RoomForLate'
  <1> SUFFICES ASSUME NEW n \in Nonce
               PROVE  lateGrants'[n] + Cardinality(InCall(n)') <= Cardinality(Thread)
    BY DEF RoomForLate
  <1>1. InCall(n)' = InCall(n) \ {t}
    BY DEF InCall, Grant, Return, WellFormed, TypeOK
  <1>2. lateGrants[n] + Cardinality(InCall(n)) <= Cardinality(Thread)
        /\ lateGrants[n] \in Nat
    BY DEF Late, RoomForLate, WellFormed, TypeOK
  <1>3. CASE n = held[t].nonce
    <2>1. t \in InCall(n)
      BY <1>3 DEF InCall, Grant
    <2>2. Cardinality(InCall(n)') = Cardinality(InCall(n)) - 1
      BY <1>1, <2>1, InCallIsFinite, FS_RemoveElement
    <2>3. lateGrants'[n] \in {lateGrants[n], lateGrants[n] + 1}
      BY DEF Grant, WellFormed, TypeOK
    <2> QED
      BY <1>2, <2>2, <2>3, InCallIsFinite
  <1>4. CASE n # held[t].nonce
    <2>1. InCall(n)' = InCall(n)
      BY <1>1, <1>4 DEF InCall
    <2>2. lateGrants'[n] = lateGrants[n]
      BY <1>4 DEF Grant, WellFormed, TypeOK
    <2> QED
      BY <1>2, <2>1, <2>2
  <1> QED
    BY <1>3, <1>4

LEMMA LateNext == WellFormed /\ Late /\ [Next]_vars => Late'
  <1> SUFFICES ASSUME WellFormed, Late, [Next]_vars PROVE RoomForLate'
    BY LateIsExpiredNext DEF Late
  <1>1. CASE \E t \in Thread, tok \in minted, expected \in Scope :
               Verify(t, tok, expected)
    BY <1>1, VerifyKeepsRoom
  <1>2. CASE \E t \in Thread : Grant(t)
    BY <1>2, GrantKeepsRoom
  <1>3. ASSUME lateGrants' = lateGrants, \A n \in Nonce : InCall(n)' \subseteq InCall(n)
        PROVE  RoomForLate'
    BY <1>3, NoEntryKeepsRoom DEF Late
  <1>4. CASE \/ Tick \/ \E scope \in Scope : Issue(scope)
             \/ UNCHANGED vars
    BY <1>3, <1>4 DEF Tick, Issue, vars, InCall, threadVars, historyVars
  <1>5. ASSUME NEW t \in Thread,
               \/ ConsumeFresh(t) \/ ConsumeReplay(t) \/ Save(t) \/ SaveFails(t)
               \/ Cleanup(t) \/ Resave(t)
        PROVE  RoomForLate'
    <2>1. lateGrants' = lateGrants
      BY <1>5
      DEF ConsumeFresh, ConsumeReplay, Save, SaveFails, Cleanup, Resave, historyVars
    <2>2. \A u \in Thread : pc'[u] \in {"verified", "saving", "saved"} =>
            pc[u] \in {"verified", "saving", "saved"} /\ held'[u] = held[u]
      BY <1>5
      DEF ConsumeFresh, ConsumeReplay, Save, SaveFails, Cleanup, Resave, Return,
          WellFormed, TypeOK
    <2> QED
      BY <1>3, <2>1, <2>2 DEF InCall
  <1>6. CASE Restart
    BY <1>3, <1>6 DEF Restart, InCall, historyVars
  <1> QED
    BY <1>1, <1>2, <1>4, <1>5, <1>6 DEF Next

\* Between the expiry of a token and the cleanup of its nonce no thread is
\* granted it more than the one call it had let through verify before
\* (verify outside the lock, consume inside), restarts included.
THEOREM LateGrantsBoundedHolds == Spec => []LateGrantsBounded
  <1>1. WellFormed /\ Late => LateGrantsBounded
    <2> SUFFICES ASSUME WellFormed, Late, NEW n \in Nonce
                 PROVE  lateGrants[n] <= Cardinality(Thread)
      BY DEF LateGrantsBounded
    <2>1. lateGrants[n] + Cardinality(InCall(n)) <= Cardinality(Thread)
          /\ lateGrants[n] \in Nat
      BY DEF Late, RoomForLate, WellFormed, TypeOK
    <2> QED
      BY <2>1, InCallIsFinite
  <1> QED
    BY <1>1, WellFormedInit, WellFormedNext, LateInit, LateNext, PTL DEF Spec

=============================================================================
