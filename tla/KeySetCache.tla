---------------------------- MODULE KeySetCache ----------------------------
(***************************************************************************)
(* The provider's signing keys as sign-in callbacks see them               *)
(* (connectors-api, auth/oidc.rs JwksCache and verify_with_rotation of     *)
(* auth/routes.rs).                                                        *)
(*                                                                         *)
(* The cache is read and written under a lock that is not held across a    *)
(* fetch: between a callback's look at the cache and the store of what it  *)
(* fetched, other callbacks look, fetch and store, and the provider        *)
(* rotates its keys.  Time passes in ticks; the three durations of the     *)
(* code are constants.                                                     *)
(*                                                                         *)
(* External: the provider publishes its newest key and the one before it.  *)
(* Its token endpoint need not be in step with its key document, so a      *)
(* token may name any key.                                                 *)
(***************************************************************************)
EXTENDS Naturals

CONSTANTS
  Callback,      \* the callbacks that may be in progress at once
  NoDocument,    \* nothing was fetched yet
  MaxKey,        \* keys are numbered from 1 in the order they are published
  Ttl,           \* JWKS_TTL
  MinRefetch,    \* JWKS_MIN_REFETCH
  FetchTimeout   \* OUTBOUND_TIMEOUT

ASSUME DurationsAssumption ==
  /\ Ttl \in Nat /\ MinRefetch \in Nat \ {0} /\ FetchTimeout \in Nat \ {0}
  /\ FetchTimeout < MinRefetch /\ MinRefetch <= Ttl
ASSUME MaxKeyAssumption == MaxKey \in Nat \ {0}

Key == 1 .. MaxKey

\* Ages stop at the longest time any property speaks of.
Horizon == Ttl + FetchTimeout

VARIABLES
  published,   \* the newest key the provider publishes
  keyAge,      \* per published key, how long ago it was published
  cache,       \* the document kept, by its newest key, and its age
  callback     \* per callback: its phase, its token's key, its fetch

vars == <<published, keyAge, cache, callback>>

Document(newest) == {newest, newest - 1} \cap Key

\* Nothing in progress; outcome is how the latest verification ended.
Ended(outcome) ==
  [phase |-> "ended", kid |-> 0, forced |-> FALSE, elapsed |-> 0, body |-> 0, outcome |-> outcome]

Init ==
  /\ published = 1
  /\ keyAge = [k \in Key |-> IF k = 1 THEN Horizon ELSE 0]
  /\ cache = NoDocument
  /\ callback = [c \in Callback |-> Ended("none")]

End(c, outcome) == callback' = [callback EXCEPT ![c] = Ended(outcome)]

\* The exchange returned a token signed with key kid.
Start(c, kid) ==
  /\ callback[c].phase = "ended"
  /\ callback' = [callback EXCEPT ![c] =
       [phase |-> "current", kid |-> kid, forced |-> FALSE, elapsed |-> 0, body |-> 0,
        outcome |-> "none"]]
  /\ UNCHANGED <<published, keyAge, cache>>

Fetch(c, forced) ==
  callback' = [callback EXCEPT ![c].phase = "fetching", ![c].forced = forced]

\* Verification against a document is synchronous.  Its first failure to find
\* the key leads to one forced refetch, its second ends the sign-in.  Here a
\* token is accepted when its key is found: the other checks do not look at the
\* cache.
Verify(c, document) ==
  IF callback[c].kid \in Document(document) THEN End(c, "accepted")
  ELSE IF callback[c].forced \/ callback[c].phase = "refresh" THEN End(c, "unknown")
  ELSE callback' = [callback EXCEPT ![c].phase = "refresh", ![c].elapsed = 0, ![c].body = 0]

\* Mutant of Fresh: one tick too long.
FreshThrough(age) == age <= Ttl

Fresh(age) == age < Ttl

\* current: the cached document while it is fresh, a fetch otherwise.
Current(c) ==
  /\ callback[c].phase = "current"
  /\ IF cache # NoDocument /\ Fresh(cache.age)
     THEN Verify(c, cache.newest)
     ELSE Fetch(c, FALSE)
  /\ UNCHANGED <<published, keyAge, cache>>

\* Mutant of Limited: a forced refetch waits for the document to age out.
LimitedByTtl(age) == age < Ttl

Limited(age) == age < MinRefetch

\* refresh_for_unknown_key: the cached document again, if one was stored within
\* the limit, a fetch otherwise.
Refresh(c) ==
  /\ callback[c].phase = "refresh"
  /\ UNCHANGED <<published, keyAge, cache>>
  /\ IF cache # NoDocument /\ Limited(cache.age)
     THEN Verify(c, cache.newest)
     ELSE Fetch(c, TRUE)

\* External: the provider answers with what it publishes at this moment.
Answer(c) ==
  /\ callback[c].phase = "fetching" /\ callback[c].body = 0
  /\ callback' = [callback EXCEPT ![c].body = published]
  /\ UNCHANGED <<published, keyAge, cache>>

\* Mutant of Kept: an unreadable answer is stored as a document without keys.
KeptEmpty == [newest |-> 0, age |-> 0]

\* A failed fetch leaves the cache, and the age its limits look at, alone.
Kept == cache

\* Mutant of TimedOut: the client has no timeout.
NeverTimedOut(c) == FALSE

TimedOut(c) == callback[c].phase = "fetching" /\ callback[c].elapsed = FetchTimeout

\* A refusal, an answer that is too long or not a key set, or a timeout.
Fail(c) ==
  /\ callback[c].phase = "fetching" /\ callback[c].body = 0
  /\ End(c, "failed")
  /\ cache' = Kept
  /\ UNCHANGED <<published, keyAge>>

Timeout(c) == TimedOut(c) /\ Fail(c)

\* The fetched document replaces whatever is cached now, and counts as fresh
\* from the moment it is stored.
Store(c) ==
  /\ callback[c].phase = "fetching" /\ callback[c].body # 0
  /\ cache' = [newest |-> callback[c].body, age |-> 0]
  /\ Verify(c, callback[c].body)
  /\ UNCHANGED <<published, keyAge>>

\* External: the provider starts to publish one more key.
Rotate ==
  /\ published < MaxKey
  /\ published' = published + 1
  /\ UNCHANGED <<keyAge, cache, callback>>

Older(age, limit) == IF age < limit THEN age + 1 ELSE limit

\* A fetch ends before its client's timeout has passed.
Tick ==
  /\ \A c \in Callback : ~TimedOut(c)
  /\ keyAge' = [k \in Key |-> IF k <= published THEN Older(keyAge[k], Horizon) ELSE keyAge[k]]
  /\ cache' = IF cache = NoDocument THEN cache ELSE [cache EXCEPT !.age = Older(@, Ttl + 1)]
  /\ callback' = [c \in Callback |->
       IF callback[c].phase = "fetching"
       THEN [callback[c] EXCEPT !.elapsed = Older(@, FetchTimeout)] ELSE callback[c]]
  /\ UNCHANGED published

\* What the host itself does for callback c.
Proceed(c) == Current(c) \/ Refresh(c) \/ Store(c) \/ Timeout(c)

Next ==
  \/ \E c \in Callback, kid \in Key : Start(c, kid)
  \/ \E c \in Callback : Proceed(c) \/ Answer(c) \/ Fail(c)
  \/ Rotate
  \/ Tick

\* The runtime schedules every callback that can go on, and time passes.  The
\* provider need not answer and need not rotate.
Fairness == WF_vars(Tick) /\ \A c \in Callback : WF_vars(Proceed(c))

Spec == Init /\ [][Next]_vars /\ Fairness

-----------------------------------------------------------------------------
(* Properties *)

Phase == {"ended", "current", "refresh", "fetching"}

TypeOK ==
  /\ published \in Key
  /\ keyAge \in [Key -> 0 .. Horizon]
  /\ cache = NoDocument \/ cache \in [newest : 1 .. published, age : 0 .. Ttl + 1]
  /\ callback \in [Callback ->
       [phase : Phase, kid : 0 .. MaxKey, forced : BOOLEAN, elapsed : 0 .. FetchTimeout,
        body : 0 .. published, outcome : {"none", "accepted", "unknown", "failed"}]]

Ends(c, outcome) == callback[c].phase # "ended" /\ callback'[c] = Ended(outcome)

\* A rotation is survived: a token whose key the provider publishes, and has
\* been publishing for MinRefetch plus one fetch, is never refused as signed
\* with an unknown key, whatever other callbacks fetch, store and lose.
RotationIsSurvived ==
  [][\A c \in Callback :
       Ends(c, "unknown") /\ callback[c].kid \in Document(published)
         => keyAge[callback[c].kid] < MinRefetch + FetchTimeout]_vars

\* A key is published until the second after it is.
Withdrawn(k) == k + 2 <= published

\* A key the provider withdrew is accepted for less than Ttl plus one fetch
\* longer: a slow answer stored late is not stretched any further.
WithdrawnKeyDies ==
  [][\A c \in Callback :
       Ends(c, "accepted") /\ Withdrawn(callback[c].kid)
         => keyAge[callback[c].kid + 2] < Ttl + FetchTimeout]_vars

\* No provider, silent ones included, holds a callback's handler open for ever.
EveryCallbackEnds ==
  \A c \in Callback : callback[c].phase # "ended" ~> callback[c].phase = "ended"

\* Forced refetches are at least MinRefetch apart (oidc.rs 73).  A fetch takes
\* less than that, so no two of them are ever in flight together.
ForcedRefetchesApart ==
  \A c, d \in Callback :
    c # d => \E b \in {c, d} : ~(callback[b].phase = "fetching" /\ callback[b].forced)
=============================================================================
