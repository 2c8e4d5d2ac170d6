-------------------------- MODULE CapabilityToken --------------------------
(***************************************************************************)
(* CapabilityTokenService and CapabilityReplayStore                        *)
(* (backend/security/capability_token.py): a signed capability is issued   *)
(* for one scope, verified against the scope of the task at hand, and its  *)
(* nonce is burned in a lock-protected table that is saved to a file       *)
(* before the call returns.                                                *)
(*                                                                         *)
(* A token is its payload.  A signature is valid iff the payload was       *)
(* issued, so `minted' plays the part of the HMAC secret; it survives a    *)
(* restart because CAPABILITY_TOKEN_SECRET is configured.  A verification  *)
(* that fails returns a reason and changes no state but the audit log, so  *)
(* it is no action here.  No caller passes single_use = FALSE.             *)
(***************************************************************************)
EXTENDS Integers, FiniteSets

CONSTANTS
    Thread,      \* threads that share one service object
    NoThread,    \* the lock's value while nobody holds it
    Nonce,       \* nonces secrets.token_urlsafe can still draw
    Scope,       \* bindings of subject, role, tool, resource, params and ids
    NoToken,     \* what an idle thread works on
    Ttl,         \* ttl_seconds after its clamp to 1..MAX_TTL_SECONDS
    MaxClock     \* bound of the clock

ASSUME TtlAssumption == Ttl \in Nat \ {0}
ASSUME ClockAssumption == MaxClock \in Nat
ASSUME ThreadAssumption == IsFiniteSet(Thread) /\ NoThread \notin Thread

VARIABLES
    clock,       \* time.time() in seconds
    minted,      \* payloads signed by issue
    consumed,    \* CapabilityReplayStore._consumed
    disk,        \* the JSON file the store is loaded from
    lock,        \* holder of CapabilityReplayStore._lock
    pc,          \* where a thread stands in verify_and_consume or cleanup
    held,        \* the token a thread works on
    live,        \* was the nonce burned before its expiry? (history)
    liveGrants,  \* calls that returned "consumed" for a nonce burned in time
    lateGrants   \* calls that returned "consumed" for a nonce burned too late

threadVars == <<pc, held, live>>
historyVars == <<liveGrants, lateGrants>>
storeVars == <<consumed, disk, lock>>
vars == <<clock, minted, consumed, disk, lock, pc, held, live,
          liveGrants, lateGrants>>

Token == [nonce : Nonce, scope : Scope, expires_at : Nat]
Entry == [nonce : Nonce, expires_at : Nat]
Where == {"idle", "verified", "saving", "saved", "resaving"}

EntryOf(tok) == [nonce |-> tok.nonce, expires_at |-> tok.expires_at]
Recorded(nonce, table) == \E e \in table : e.nonce = nonce

\* Seeded fault: drops an entry one second before verify refuses its token.
UnexpiredEarly(table) == {e \in table : e.expires_at > clock + 1}

\* _cleanup_locked: what is left of a table of nonces.
Unexpired(table) == {e \in table : e.expires_at > clock}

-----------------------------------------------------------------------------
Init ==
    /\ clock = 0
    /\ minted = {}
    /\ consumed = {}
    /\ disk = {}
    /\ lock = NoThread
    /\ pc = [t \in Thread |-> "idle"]
    /\ held = [t \in Thread |-> NoToken]
    /\ live = [t \in Thread |-> FALSE]
    /\ liveGrants = [n \in Nonce |-> 0]
    /\ lateGrants = [n \in Nonce |-> 0]

Tick ==
    /\ clock < MaxClock
    /\ clock' = clock + 1
    /\ UNCHANGED <<minted, storeVars, threadVars, historyVars>>

\* Seeded fault: the life is subtracted from the clock.
IssueBackdated(scope) ==
    /\ \E n \in Nonce :
         /\ \A tok \in minted : tok.nonce # n
         /\ minted' = minted \cup
              {[nonce |-> n, scope |-> scope, expires_at |-> clock - Ttl]}
    /\ UNCHANGED <<clock, storeVars, threadVars, historyVars>>

\* A fresh nonce and a fresh expiry, whatever the scope object carried.
Issue(scope) ==
    /\ \E n \in Nonce :
         /\ \A tok \in minted : tok.nonce # n
         /\ minted' = minted \cup
              {[nonce |-> n, scope |-> scope, expires_at |-> clock + Ttl]}
    /\ UNCHANGED <<clock, storeVars, threadVars, historyVars>>

-----------------------------------------------------------------------------
(***************************************************************************)
(* verify_and_consume, one thread.  verify reads the clock outside the     *)
(* lock; consume reads it again under the lock.                            *)
(***************************************************************************)
\* Seeded fault: verify without the expiry test.
VerifyUndated(t, tok, expected) ==
    /\ pc[t] = "idle"
    /\ tok \in minted
    /\ tok.scope = expected
    /\ pc' = [pc EXCEPT ![t] = "verified"]
    /\ held' = [held EXCEPT ![t] = tok]
    /\ UNCHANGED <<clock, minted, storeVars, live, historyVars>>

Verify(t, tok, expected) ==
    /\ pc[t] = "idle"
    /\ tok \in minted
    /\ tok.expires_at > clock
    /\ tok.scope = expected
    /\ pc' = [pc EXCEPT ![t] = "verified"]
    /\ held' = [held EXCEPT ![t] = tok]
    /\ UNCHANGED <<clock, minted, storeVars, live, historyVars>>

\* Leaves the call, or the cleanup, with nothing in hand.
Return(t) ==
    /\ pc' = [pc EXCEPT ![t] = "idle"]
    /\ held' = [held EXCEPT ![t] = NoToken]
    /\ live' = [live EXCEPT ![t] = FALSE]

\* consume takes the lock, drops the expired nonces and enters the new one;
\* the lock is kept for the save.
ConsumeFresh(t) ==
    /\ pc[t] = "verified"
    /\ lock = NoThread
    /\ ~Recorded(held[t].nonce, Unexpired(consumed))
    /\ consumed' = Unexpired(consumed) \cup {EntryOf(held[t])}
    /\ lock' = t
    /\ pc' = [pc EXCEPT ![t] = "saving"]
    /\ live' = [live EXCEPT ![t] = held[t].expires_at > clock]
    /\ UNCHANGED <<clock, minted, disk, held, historyVars>>

\* consume returns False ("replay_blocked"); its cleanup is not saved.
ConsumeReplay(t) ==
    /\ pc[t] = "verified"
    /\ lock = NoThread
    /\ Recorded(held[t].nonce, Unexpired(consumed))
    /\ consumed' = Unexpired(consumed)
    /\ Return(t)
    /\ UNCHANGED <<clock, minted, disk, lock, historyVars>>

\* Seeded fault: consume returns TRUE without saving.
SaveNothing(t) ==
    /\ pc[t] = "saving"
    /\ lock' = NoThread
    /\ pc' = [pc EXCEPT ![t] = "saved"]
    /\ UNCHANGED <<clock, minted, consumed, disk, held, live, historyVars>>

\* _save_locked: write and fsync a temporary file, then os.replace.
Save(t) ==
    /\ pc[t] = "saving"
    /\ disk' = consumed
    /\ lock' = NoThread
    /\ pc' = [pc EXCEPT ![t] = "saved"]
    /\ UNCHANGED <<clock, minted, consumed, held, live, historyVars>>

\* _save_locked raises: the exception leaves the call and frees the lock, and
\* the nonce stays burned in memory only.
SaveFails(t) ==
    /\ pc[t] = "saving"
    /\ lock' = NoThread
    /\ Return(t)
    /\ UNCHANGED <<clock, minted, consumed, disk, historyVars>>

\* verify_and_consume returns a valid "consumed" result.
Grant(t) ==
    /\ pc[t] = "saved"
    /\ LET n == held[t].nonce IN
         /\ liveGrants' = IF live[t] THEN [liveGrants EXCEPT ![n] = @ + 1]
                          ELSE liveGrants
         /\ lateGrants' = IF live[t] THEN lateGrants
                          ELSE [lateGrants EXCEPT ![n] = @ + 1]
    /\ Return(t)
    /\ UNCHANGED <<clock, minted, storeVars>>

-----------------------------------------------------------------------------
\* cleanup_expired_nonces when there is something to remove.
Cleanup(t) ==
    /\ pc[t] = "idle"
    /\ lock = NoThread
    /\ Unexpired(consumed) # consumed
    /\ consumed' = Unexpired(consumed)
    /\ lock' = t
    /\ pc' = [pc EXCEPT ![t] = "resaving"]
    /\ UNCHANGED <<clock, minted, disk, held, live, historyVars>>

\* The save of the cleanup, which may raise as well.
Resave(t) ==
    /\ pc[t] = "resaving"
    /\ disk' \in {consumed, disk}
    /\ lock' = NoThread
    /\ Return(t)
    /\ UNCHANGED <<clock, minted, consumed, historyVars>>

\* The process dies anywhere in a call and starts again: __init__ loads the
\* file, drops the expired nonces and saves if it dropped any.
Restart ==
    /\ consumed' = Unexpired(disk)
    /\ disk' = Unexpired(disk)
    /\ lock' = NoThread
    /\ pc' = [t \in Thread |-> "idle"]
    /\ held' = [t \in Thread |-> NoToken]
    /\ live' = [t \in Thread |-> FALSE]
    /\ UNCHANGED <<clock, minted, historyVars>>

-----------------------------------------------------------------------------
Next ==
    \/ Tick
    \/ \E scope \in Scope : Issue(scope)
    \/ \E t \in Thread, tok \in minted, expected \in Scope :
          Verify(t, tok, expected)
    \/ \E t \in Thread : ConsumeFresh(t)
    \/ \E t \in Thread : ConsumeReplay(t)
    \/ \E t \in Thread : Save(t)
    \/ \E t \in Thread : SaveFails(t)
    \/ \E t \in Thread : Grant(t)
    \/ \E t \in Thread : Cleanup(t)
    \/ \E t \in Thread : Resave(t)
    \/ Restart

Spec == Init /\ [][Next]_vars

-----------------------------------------------------------------------------
\* Every variable has its type; a signed payload never expires before time 0.
TypeOK ==
    /\ clock \in Nat
    /\ minted \in SUBSET Token
    /\ consumed \in SUBSET Entry
    /\ disk \in SUBSET Entry
    /\ lock \in Thread \cup {NoThread}
    /\ pc \in [Thread -> Where]
    /\ held \in [Thread -> Token \cup {NoToken}]
    /\ live \in [Thread -> BOOLEAN]
    /\ liveGrants \in [Nonce -> Nat]
    /\ lateGrants \in [Nonce -> Nat]

\* However threads, failed saves and restarts interleave, a nonce burned
\* before its expiry is granted once: what "single-use" means while the token
\* lives (CapabilityReplayStore.consume, verify_and_consume).
SingleUseWhileLive == \A n \in Nonce : liveGrants[n] <= 1

\* What the docstring "single-use nonce store" promises without the
\* qualification: no nonce is ever granted twice (CapabilityReplayStore).
SingleUse == \A n \in Nonce : liveGrants[n] + lateGrants[n] <= 1

\* The damage at the expiry boundary is limited to calls that were already
\* between verify and consume: at most one late grant a thread.
LateGrantsBounded == \A n \in Nonce : lateGrants[n] <= Cardinality(Thread)

\* A nonce that was granted in time stays burned until its token expires, in
\* memory and in the file, so that neither a cleanup by another thread nor a
\* restart frees it (_save_locked before the return, _load, _cleanup_locked).
BurnedUntilExpiry ==
    \A tok \in minted :
        (liveGrants[tok.nonce] > 0 /\ tok.expires_at > clock) =>
            EntryOf(tok) \in consumed /\ EntryOf(tok) \in disk

=============================================================================
