------------------------- MODULE KeySetCache_proofs -------------------------
(***************************************************************************)
(* Proofs about KeySetCache, for every number of callbacks and keys and    *)
(* every choice of the three durations that DurationsAssumption allows.    *)
(*                                                                         *)
(* Both properties compare the age of a key with a limit at the moment a   *)
(* verification ends, and what is verified against is a document stored or *)
(* fetched earlier.  The invariant carries the bound there: a key that a   *)
(* document lacks because it was published later is no older than the      *)
(* document, and the document of the cache is older than its own age by at *)
(* most one fetch.                                                         *)
(***************************************************************************)
EXTENDS KeySetCache, TLAPS


\* No key published after the newest one of a document is older than age.
NothingMissed(newest, age) ==
  \A k \in Key : newest < k /\ k <= published => keyAge[k] <= age

\* A callback in progress has a key to look for, only the answer to a forced
\* fetch is verified as one, and a fetched document missed nothing but what was
\* published while it was on its way.
CallbackOK(r) ==
  /\ r \in [phase : Phase, kid : 0 .. MaxKey, forced : BOOLEAN, elapsed : 0 .. FetchTimeout,
            body : 0 .. published, outcome : {"none", "accepted", "unknown", "failed"}]
  /\ r.phase # "ended" => r.kid \in Key
  /\ r.phase \in {"current", "refresh"} => ~r.forced /\ r.body = 0
  /\ r.phase = "fetching" /\ r.body # 0 => NothingMissed(r.body, r.elapsed)

\* The document kept is older than its own age by one fetch at most.
CacheOK ==
  cache # NoDocument =>
    /\ cache \in [newest : 1 .. published, age : 0 .. Ttl + 1]
    /\ NothingMissed(cache.newest, cache.age + FetchTimeout)

KeysOK ==
  /\ published \in Key /\ keyAge \in [Key -> 0 .. Horizon]
  /\ \A k \in Key : k > published => keyAge[k] = 0

IInv ==
  /\ KeysOK /\ CacheOK
  /\ callback \in [Callback -> {callback[c] : c \in Callback}]
  /\ \A c \in Callback : CallbackOK(callback[c])

LEMMA InvIsTyped == IInv => TypeOK
BY DEF IInv, TypeOK, KeysOK, CacheOK, CallbackOK

LEMMA InitInv == Init => IInv
BY DurationsAssumption, MaxKeyAssumption
   DEF Init, IInv, KeysOK, CacheOK, CallbackOK, Ended, Phase, Key, Horizon

-----------------------------------------------------------------------------
(* One callback's step *)

\* Callback c goes on with a sound record and the keys stay what they are.
StepOf(c) ==
  /\ \E r : CallbackOK(r) /\ callback' = [callback EXCEPT ![c] = r]
  /\ UNCHANGED <<published, keyAge>>

LEMMA StepKeepsInv ==
  ASSUME IInv, NEW c \in Callback, StepOf(c), CacheOK'
  PROVE  IInv'
<1>1. PICK r : CallbackOK(r) /\ callback' = [callback EXCEPT ![c] = r]
  BY DEF StepOf
<1>2. \A d \in Callback : callback'[d] = IF d = c THEN r ELSE callback[d]
  BY <1>1 DEF IInv
<1>3. \A d \in Callback : CallbackOK(callback[d])'
  BY <1>1, <1>2 DEF StepOf, IInv, CallbackOK, NothingMissed
<1>4. callback' \in [Callback -> {callback'[d] : d \in Callback}]
  BY <1>1 DEF IInv
<1>5. KeysOK'
  BY DEF StepOf, IInv, KeysOK
<1>6. QED
  BY <1>3, <1>4, <1>5 DEF IInv

LEMMA SameCache ==
  ASSUME CacheOK, UNCHANGED <<published, keyAge, cache>>
  PROVE  CacheOK'
BY DEF CacheOK, NothingMissed

LEMMA EndedOK ==
  ASSUME IInv, NEW outcome \in {"none", "accepted", "unknown", "failed"}
  PROVE  CallbackOK(Ended(outcome))
BY DurationsAssumption, MaxKeyAssumption
   DEF IInv, KeysOK, CallbackOK, Ended, Phase, Key

LEMMA VerifySteps ==
  ASSUME IInv, NEW c \in Callback, NEW newest, Verify(c, newest),
         callback[c].phase # "ended", UNCHANGED <<published, keyAge>>
  PROVE  StepOf(c)
<1>1. CASE \E outcome \in {"accepted", "unknown"} : End(c, outcome)
  BY <1>1, EndedOK DEF End, StepOf
<1>2. CASE /\ ~callback[c].forced
           /\ callback' = [callback EXCEPT ![c].phase = "refresh", ![c].elapsed = 0, ![c].body = 0]
  <2> DEFINE r == [callback[c] EXCEPT !.phase = "refresh", !.elapsed = 0, !.body = 0]
  <2>1. CallbackOK(r)
    <3>1. CallbackOK(callback[c]) /\ 0 \in 0 .. published /\ 0 \in 0 .. FetchTimeout
      BY DurationsAssumption, MaxKeyAssumption DEF IInv, KeysOK, Key
    <3>2. "refresh" \in Phase
      BY DEF Phase
    <3>3. /\ r.phase = "refresh" /\ ~r.forced /\ r.body = 0 /\ r.kid = callback[c].kid
          /\ r \in [phase : Phase, kid : 0 .. MaxKey, forced : BOOLEAN, elapsed : 0 .. FetchTimeout,
                    body : 0 .. published, outcome : {"none", "accepted", "unknown", "failed"}]
      BY <1>2, <3>1, <3>2 DEF CallbackOK
    <3>4. QED
      BY <3>1, <3>3 DEF CallbackOK
  <2>2. callback' = [callback EXCEPT ![c] = r]
    BY <1>2 DEF IInv
  <2>3. QED
    BY <2>1, <2>2 DEF StepOf
<1>3. QED
  BY <1>1, <1>2 DEF Verify

LEMMA FetchSteps ==
  ASSUME IInv, NEW c \in Callback, NEW forced \in BOOLEAN, Fetch(c, forced),
         callback[c].phase # "ended", callback[c].body = 0, UNCHANGED <<published, keyAge>>
  PROVE  StepOf(c)
<1> DEFINE r == [callback[c] EXCEPT !.phase = "fetching", !.forced = forced]
<1>1. CallbackOK(r)
  BY DEF IInv, CallbackOK, Phase
<1>2. callback' = [callback EXCEPT ![c] = r]
  BY DEF Fetch, IInv
<1>3. QED
  BY <1>1, <1>2 DEF StepOf

-----------------------------------------------------------------------------
(* Every step keeps the invariant *)

LEMMA StartKeepsInv ==
  ASSUME IInv, NEW c \in Callback, NEW kid \in Key, Start(c, kid)
  PROVE  IInv'
<1> DEFINE r == [phase |-> "current", kid |-> kid, forced |-> FALSE, elapsed |-> 0, body |-> 0,
                 outcome |-> "none"]
<1>1. CallbackOK(r)
  BY DurationsAssumption, MaxKeyAssumption DEF IInv, KeysOK, CallbackOK, Phase, Key
<1>2. StepOf(c)
  BY <1>1 DEF Start, StepOf
<1>3. QED
  BY <1>2, StepKeepsInv, SameCache DEF Start, IInv

LEMMA CurrentKeepsInv ==
  ASSUME IInv, NEW c \in Callback, Current(c)
  PROVE  IInv'
<1>1. callback[c].body = 0 /\ callback[c].phase # "ended"
  BY DEF Current, IInv, CallbackOK
<1>2. StepOf(c)
  BY <1>1, VerifySteps, FetchSteps DEF Current
<1>3. QED
  BY <1>2, StepKeepsInv, SameCache DEF Current, IInv

LEMMA RefreshKeepsInv ==
  ASSUME IInv, NEW c \in Callback, Refresh(c)
  PROVE  IInv'
<1>1. callback[c].body = 0 /\ callback[c].phase # "ended"
  BY DEF Refresh, IInv, CallbackOK
<1>2. StepOf(c)
  BY <1>1, VerifySteps, FetchSteps DEF Refresh
<1>3. QED
  BY <1>2, StepKeepsInv, SameCache DEF Refresh, IInv

\* What the provider publishes when it answers misses nothing.
LEMMA AnswerKeepsInv ==
  ASSUME IInv, NEW c \in Callback, Answer(c)
  PROVE  IInv'
<1> DEFINE r == [callback[c] EXCEPT !.body = published]
<1>1. CallbackOK(r)
  <2>1. CallbackOK(callback[c]) /\ published \in 0 .. published /\ published \in Nat
    BY MaxKeyAssumption DEF IInv, KeysOK, Key
  <2>2. /\ r.phase = "fetching" /\ r.body = published /\ r.kid = callback[c].kid
        /\ r \in [phase : Phase, kid : 0 .. MaxKey, forced : BOOLEAN, elapsed : 0 .. FetchTimeout,
                  body : 0 .. published, outcome : {"none", "accepted", "unknown", "failed"}]
    BY <2>1 DEF Answer, CallbackOK
  <2>3. NothingMissed(r.body, r.elapsed)
    BY <2>1, <2>2 DEF NothingMissed, Key
  <2>4. QED
    BY <2>1, <2>2, <2>3 DEF CallbackOK
<1>2. callback' = [callback EXCEPT ![c] = r]
  BY DEF Answer, IInv
<1>3. StepOf(c)
  BY <1>1, <1>2 DEF Answer, StepOf
<1>4. QED
  BY <1>3, StepKeepsInv, SameCache DEF Answer, IInv

LEMMA FailKeepsInv ==
  ASSUME IInv, NEW c \in Callback, Fail(c)
  PROVE  IInv'
<1>1. StepOf(c)
  BY EndedOK DEF Fail, End, StepOf
<1>2. QED
  BY <1>1, StepKeepsInv, SameCache DEF Fail, Kept, IInv

\* The answer is stored as new, and is at most one fetch old.
LEMMA StoreKeepsInv ==
  ASSUME IInv, NEW c \in Callback, Store(c)
  PROVE  IInv'
<1>1. /\ callback[c].body \in 1 .. published /\ callback[c].elapsed \in 0 .. FetchTimeout
      /\ NothingMissed(callback[c].body, callback[c].elapsed)
  BY MaxKeyAssumption DEF Store, IInv, KeysOK, CallbackOK, Key
<1>2. NothingMissed(callback[c].body, FetchTimeout)
  BY <1>1, DurationsAssumption DEF NothingMissed, IInv, KeysOK, Horizon
<1>3. CacheOK'
  BY <1>1, <1>2, DurationsAssumption DEF Store, CacheOK, NothingMissed
<1>4. StepOf(c)
  BY VerifySteps DEF Store
<1>5. QED
  BY <1>3, <1>4, StepKeepsInv

LEMMA RotateKeepsInv ==
  ASSUME IInv, Rotate
  PROVE  IInv'
<1>1. published \in 1 .. MaxKey /\ published' = published + 1 /\ published' \in Key
  BY MaxKeyAssumption DEF Rotate, IInv, KeysOK, Key
<1>2. \A newest, age \in Nat : NothingMissed(newest, age) => NothingMissed(newest, age)'
  BY <1>1, MaxKeyAssumption DEF Rotate, IInv, KeysOK, NothingMissed, Key
<1>3. KeysOK'
  BY <1>1 DEF Rotate, IInv, KeysOK, Key
<1>4. CacheOK'
  BY <1>1, <1>2, DurationsAssumption DEF Rotate, IInv, CacheOK
<1>5. \A c \in Callback : CallbackOK(callback[c])'
  BY <1>1, <1>2, DurationsAssumption DEF Rotate, IInv, CallbackOK
<1>6. QED
  BY <1>3, <1>4, <1>5 DEF Rotate, IInv

\* A key ages with the documents that lack it, and a fetch that may not last
\* another tick has ended.
LEMMA TickKeepsInv ==
  ASSUME IInv, Tick
  PROVE  IInv'
<1>1. /\ \A k \in Key : keyAge[k] \in 0 .. Horizon
      /\ \A k \in Key : keyAge'[k] = IF k <= published THEN Older(keyAge[k], Horizon) ELSE keyAge[k]
      /\ published' = published
  BY DEF Tick, IInv, KeysOK
<1>2. \A newest \in Nat, age \in Nat, k \in Key :
        NothingMissed(newest, age) /\ newest < k /\ k <= published
          => keyAge'[k] <= age + 1
  BY <1>1, DurationsAssumption, MaxKeyAssumption DEF NothingMissed, Older, Horizon, Key
<1>3. KeysOK'
  <2>1. \A k \in Key : keyAge'[k] \in 0 .. Horizon
    BY <1>1, DurationsAssumption DEF Older, Horizon
  <2>2. \A k \in Key : k > published => keyAge'[k] = 0
    BY <1>1, MaxKeyAssumption DEF IInv, KeysOK, Key
  <2>3. QED
    BY <1>1, <2>1, <2>2 DEF Tick, IInv, KeysOK, Horizon
<1>4. CacheOK'
  <2> SUFFICES ASSUME cache # NoDocument
               PROVE  CacheOK'
    BY DEF Tick, CacheOK
  <2>1. /\ cache \in [newest : 1 .. published, age : 0 .. Ttl + 1]
        /\ NothingMissed(cache.newest, cache.age + FetchTimeout)
    BY DEF IInv, CacheOK
  <2>2. /\ cache' = [cache EXCEPT !.age = Older(@, Ttl + 1)]
        /\ cache'.newest = cache.newest /\ cache'.age = Older(cache.age, Ttl + 1)
        /\ cache' \in [newest : 1 .. published, age : 0 .. Ttl + 1]
    BY <2>1, DurationsAssumption DEF Tick, Older
  <2>3. ASSUME NEW k \in Key, cache.newest < k, k <= published
        PROVE  keyAge'[k] <= cache'.age + FetchTimeout
    <3>1. CASE cache.age < Ttl + 1
      <4>1. cache.newest \in Nat /\ cache.age + FetchTimeout \in Nat
        BY <2>1, DurationsAssumption, MaxKeyAssumption DEF IInv, KeysOK, Key
      <4>2. keyAge'[k] <= cache.age + FetchTimeout + 1
        BY <1>2, <2>1, <2>3, <4>1
      <4>3. cache'.age = cache.age + 1
        BY <2>2, <3>1 DEF Older
      <4>4. keyAge'[k] \in Nat
        BY <1>3, DurationsAssumption DEF KeysOK, Horizon
      <4>5. QED
        BY <2>1, <4>2, <4>3, <4>4, DurationsAssumption
    <3>2. CASE ~(cache.age < Ttl + 1)
      BY <1>1, <2>1, <2>2, <3>2, <1>3, DurationsAssumption DEF Older, Horizon, KeysOK
    <3>3. QED
      BY <3>1, <3>2
  <2>4. QED
    BY <1>1, <2>1, <2>2, <2>3 DEF CacheOK, NothingMissed
<1>5. ASSUME NEW c \in Callback
      PROVE  CallbackOK(callback[c])'
  <2>1. CallbackOK(callback[c])
    BY DEF IInv
  <2>2. CASE callback[c].phase # "fetching"
    BY <1>1, <2>1, <2>2 DEF Tick, CallbackOK
  <2>3. CASE callback[c].phase = "fetching"
    <3> DEFINE r == [callback[c] EXCEPT !.elapsed = Older(@, FetchTimeout)]
    <3>1. callback'[c] = r /\ callback[c].elapsed # FetchTimeout
      BY <2>3 DEF Tick, TimedOut
    <3>2. callback[c].elapsed \in Nat /\ r.elapsed = callback[c].elapsed + 1 /\ r.elapsed <= FetchTimeout
      BY <2>1, <3>1, DurationsAssumption DEF CallbackOK, Older
    <3>3. /\ r \in [phase : Phase, kid : 0 .. MaxKey, forced : BOOLEAN, elapsed : 0 .. FetchTimeout,
                    body : 0 .. published, outcome : {"none", "accepted", "unknown", "failed"}]
          /\ r.phase = "fetching" /\ r.kid = callback[c].kid /\ r.body = callback[c].body
      BY <2>1, <2>3, <3>2, DurationsAssumption DEF CallbackOK
    <3>4. r.body # 0 => \A k \in Key : r.body < k /\ k <= published => keyAge'[k] <= r.elapsed
      BY <1>2, <2>1, <2>3, <3>2, <3>3, MaxKeyAssumption DEF CallbackOK, IInv, KeysOK, Key
    <3>5. QED
      BY <1>1, <2>1, <2>3, <3>1, <3>3, <3>4 DEF CallbackOK, NothingMissed
  <2>4. QED
    BY <2>2, <2>3
<1>6. callback' \in [Callback -> {callback'[c] : c \in Callback}]
  BY DEF Tick
<1>7. QED
  BY <1>3, <1>4, <1>5, <1>6 DEF IInv

LEMMA NextKeepsInv == IInv /\ [Next]_vars => IInv'
<1> SUFFICES ASSUME IInv, [Next]_vars
             PROVE  IInv'
  OBVIOUS
<1>1. CASE UNCHANGED vars
  BY <1>1 DEF vars, IInv, KeysOK, CacheOK, CallbackOK, NothingMissed
<1>2. ASSUME NEW c \in Callback, Proceed(c) \/ Answer(c) \/ Fail(c)
      PROVE  IInv'
  BY <1>2, CurrentKeepsInv, RefreshKeepsInv, StoreKeepsInv, AnswerKeepsInv, FailKeepsInv
     DEF Proceed, Timeout
<1>3. QED
  BY <1>1, <1>2, StartKeepsInv, RotateKeepsInv, TickKeepsInv DEF Next

LEMMA InvariantHolds == Spec => []IInv
BY InitInv, NextKeepsInv, PTL DEF Spec

\* Every state has the types the handlers rely on: a document names published
\* keys only, and a callback that verifies has a key to look for (oidc.rs
\* JwksCache, routes.rs verify_with_rotation).
THEOREM KeySetTypeCorrect == Spec => []TypeOK
BY InvariantHolds, InvIsTyped, PTL

-----------------------------------------------------------------------------
(* How a verification ends *)

\* A verification ends against a document that missed, at that moment, nothing
\* older than one fetch and the time the code lets a document serve: MinRefetch
\* when the key is given up as unknown, Ttl when it is found.
LEMMA EndsAgainst ==
  ASSUME IInv, Next, NEW c \in Callback, NEW outcome \in {"accepted", "unknown"},
         Ends(c, outcome)
  PROVE  /\ callback[c].kid \in Key
         /\ \E newest \in 0 .. published, age \in Nat :
              /\ NothingMissed(newest, age)
              /\ outcome = "accepted" => /\ callback[c].kid \in Document(newest)
                                         /\ age < Ttl + FetchTimeout
              /\ outcome = "unknown" => /\ callback[c].kid \notin Document(newest)
                                        /\ age < MinRefetch + FetchTimeout
<1>1. CallbackOK(callback[c]) /\ callback[c].kid \in Key /\ published \in Nat
  BY MaxKeyAssumption DEF Ends, IInv, CallbackOK, KeysOK, Key
<1>2. callback'[c].phase = "ended" /\ callback'[c].outcome = outcome
  BY DEF Ends, Ended
<1>3. ASSUME NEW newest, Verify(c, newest)
      PROVE  /\ outcome = "accepted" => callback[c].kid \in Document(newest)
             /\ outcome = "unknown" => /\ callback[c].kid \notin Document(newest)
                                       /\ callback[c].forced \/ callback[c].phase = "refresh"
  <2>1. CASE callback[c].kid \in Document(newest)
    <3>1. callback'[c] = Ended("accepted")
      BY <1>3, <2>1 DEF Verify, End, IInv
    <3>2. QED
      BY <1>2, <2>1, <3>1 DEF Ended
  <2>2. CASE /\ callback[c].kid \notin Document(newest)
             /\ callback[c].forced \/ callback[c].phase = "refresh"
    <3>1. callback'[c] = Ended("unknown")
      BY <1>3, <2>2 DEF Verify, End, IInv
    <3>2. QED
      BY <1>2, <2>2, <3>1 DEF Ended
  <2>3. CASE /\ callback[c].kid \notin Document(newest)
             /\ ~(callback[c].forced \/ callback[c].phase = "refresh")
    <3>1. callback' = [callback EXCEPT ![c].phase = "refresh", ![c].elapsed = 0, ![c].body = 0]
      BY <1>3, <2>3 DEF Verify
    <3>2. callback'[c] = [callback[c] EXCEPT !.phase = "refresh", !.elapsed = 0, !.body = 0]
      BY <3>1 DEF IInv
    <3>3. callback'[c].phase = "refresh"
      BY <1>1, <3>2 DEF CallbackOK
    <3>4. QED
      BY <1>2, <3>3
  <2>4. QED
    BY <2>1, <2>2, <2>3
<1>4. ASSUME cache # NoDocument
      PROVE  /\ cache.newest \in 0 .. published /\ cache.age \in Nat
             /\ cache.age + FetchTimeout \in Nat
             /\ NothingMissed(cache.newest, cache.age + FetchTimeout)
  BY <1>1, <1>4, DurationsAssumption DEF IInv, CacheOK
<1>5. ASSUME NEW forced, Fetch(c, forced)
      PROVE  FALSE
  BY <1>2, <1>5 DEF Fetch, IInv
<1>6. CASE Current(c)
  <2>1. /\ cache # NoDocument /\ Fresh(cache.age) /\ Verify(c, cache.newest)
        /\ ~callback[c].forced /\ callback[c].phase = "current"
    BY <1>1, <1>5, <1>6 DEF Current, CallbackOK
  <2>2. outcome = "accepted" /\ cache.age + FetchTimeout < Ttl + FetchTimeout
    BY <1>3, <1>4, <2>1, DurationsAssumption DEF Fresh
  <2>3. QED
    BY <1>1, <1>3, <1>4, <2>1, <2>2
<1>7. CASE Refresh(c)
  <2>1. cache # NoDocument /\ Limited(cache.age) /\ Verify(c, cache.newest)
    BY <1>5, <1>7 DEF Refresh
  <2>2. /\ cache.age + FetchTimeout < MinRefetch + FetchTimeout
        /\ cache.age + FetchTimeout < Ttl + FetchTimeout
    BY <1>4, <2>1, DurationsAssumption DEF Limited
  <2>3. QED
    BY <1>1, <1>3, <1>4, <2>1, <2>2
<1>8. CASE Store(c)
  <2>1. /\ Verify(c, callback[c].body) /\ callback[c].body \in 0 .. published
        /\ callback[c].elapsed \in 0 .. FetchTimeout
        /\ NothingMissed(callback[c].body, callback[c].elapsed)
    BY <1>1, <1>8 DEF Store, CallbackOK
  <2>2. /\ callback[c].elapsed \in Nat
        /\ callback[c].elapsed < MinRefetch + FetchTimeout
        /\ callback[c].elapsed < Ttl + FetchTimeout
    BY <2>1, DurationsAssumption
  <2>3. QED
    BY <1>1, <1>3, <2>1, <2>2
<1>9. Current(c) \/ Refresh(c) \/ Store(c)
  <2>1. ASSUME NEW d \in Callback, d # c, Proceed(d) \/ Answer(d) \/ Fail(d)
        PROVE  callback'[c] = callback[c]
    BY <2>1 DEF Proceed, Answer, Timeout, Fail, Current, Refresh, Store, Verify, End, Fetch, IInv
  <2>2. ASSUME NEW d \in Callback, NEW kid \in Key, Start(d, kid)
        PROVE  callback'[c] = callback[c] \/ callback'[c].phase = "current"
    BY <2>2 DEF Start, IInv
  <2>3. ASSUME Answer(c) \/ Tick
        PROVE  callback'[c].phase = callback[c].phase
    BY <2>3 DEF Answer, Tick, IInv, CallbackOK
  <2>4. ASSUME Fail(c)
        PROVE  callback'[c].outcome = "failed"
    BY <2>4 DEF Fail, End, Ended, IInv
  <2>5. ASSUME Rotate
        PROVE  callback'[c] = callback[c]
    BY <2>5 DEF Rotate
  <2>6. callback[c].phase # "ended" /\ callback'[c].phase = "ended" /\ callback'[c].outcome # "failed"
    BY <1>2 DEF Ends
  <2>7. QED
    BY <2>1, <2>2, <2>3, <2>4, <2>5, <2>6 DEF Next, Proceed, Timeout
<1>10. QED
  BY <1>6, <1>7, <1>8, <1>9

\* A token whose key has been published for MinRefetch plus one fetch is never
\* refused as signed with an unknown key: the document that lacks the key was
\* fetched before it was published, and such a document is refetched in time
\* (oidc.rs refresh_for_unknown_key, routes.rs verify_with_rotation).
THEOREM KeySetRotationIsSurvived == Spec => RotationIsSurvived
<1> DEFINE Survives(c) == Ends(c, "unknown") /\ callback[c].kid \in Document(published)
                            => keyAge[callback[c].kid] < MinRefetch + FetchTimeout
<1>1. IInv /\ [Next]_vars => [\A c \in Callback : Survives(c)]_vars
  <2> SUFFICES ASSUME IInv, Next, NEW c \in Callback,
                      Ends(c, "unknown"), callback[c].kid \in Document(published)
               PROVE  keyAge[callback[c].kid] < MinRefetch + FetchTimeout
    OBVIOUS
  <2>1. /\ callback[c].kid \in Key
        /\ \E newest \in 0 .. published, age \in Nat :
             /\ NothingMissed(newest, age) /\ age < MinRefetch + FetchTimeout
             /\ callback[c].kid \notin Document(newest)
    BY EndsAgainst
  <2>2. PICK newest \in 0 .. published, age \in Nat :
             /\ NothingMissed(newest, age) /\ age < MinRefetch + FetchTimeout
             /\ callback[c].kid \notin Document(newest)
    BY <2>1
  <2>3. newest < callback[c].kid /\ callback[c].kid <= published
    BY <2>1, <2>2, MaxKeyAssumption DEF IInv, KeysOK, Document, Key
  <2>4. keyAge[callback[c].kid] <= age /\ keyAge[callback[c].kid] \in Nat
    BY <2>1, <2>2, <2>3 DEF NothingMissed, IInv, KeysOK
  <2>5. QED
    BY <2>2, <2>4, DurationsAssumption
<1>2. QED
  BY <1>1, InvariantHolds, PTL DEF Spec, RotationIsSurvived

\* A key the provider withdrew is accepted for less than Ttl plus one fetch
\* longer, however late the document that still lists it was stored (oidc.rs
\* current and store).
THEOREM KeySetWithdrawnKeyDies == Spec => WithdrawnKeyDies
<1> DEFINE Dies(c) == Ends(c, "accepted") /\ Withdrawn(callback[c].kid)
                        => keyAge[callback[c].kid + 2] < Ttl + FetchTimeout
<1>1. IInv /\ [Next]_vars => [\A c \in Callback : Dies(c)]_vars
  <2> SUFFICES ASSUME IInv, Next, NEW c \in Callback,
                      Ends(c, "accepted"), Withdrawn(callback[c].kid)
               PROVE  keyAge[callback[c].kid + 2] < Ttl + FetchTimeout
    OBVIOUS
  <2>1. /\ callback[c].kid \in Key
        /\ \E newest \in 0 .. published, age \in Nat :
             /\ NothingMissed(newest, age) /\ age < Ttl + FetchTimeout
             /\ callback[c].kid \in Document(newest)
    BY EndsAgainst
  <2>2. PICK newest \in 0 .. published, age \in Nat :
             /\ NothingMissed(newest, age) /\ age < Ttl + FetchTimeout
             /\ callback[c].kid \in Document(newest)
    BY <2>1
  <2>3. newest < callback[c].kid + 2 /\ callback[c].kid + 2 <= published
        /\ callback[c].kid + 2 \in Key
    <3>1. callback[c].kid \in 1 .. MaxKey /\ published \in 1 .. MaxKey /\ callback[c].kid + 2 <= published
      BY <2>1 DEF IInv, KeysOK, Withdrawn, Key
    <3>2. callback[c].kid = newest \/ callback[c].kid = newest - 1
      BY <2>2 DEF Document
    <3>3. QED
      BY <3>1, <3>2, MaxKeyAssumption DEF Key
  <2>4. keyAge[callback[c].kid + 2] <= age /\ keyAge[callback[c].kid + 2] \in Nat
    BY <2>2, <2>3 DEF NothingMissed, IInv, KeysOK
  <2>5. QED
    BY <2>2, <2>4, DurationsAssumption
<1>2. QED
  BY <1>1, InvariantHolds, PTL DEF Spec, WithdrawnKeyDies
=============================================================================
