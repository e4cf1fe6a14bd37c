--------------------------- MODULE SignIn_proofs ---------------------------
(***************************************************************************)
(* The safety of sign-in for any number of browsers, sign-ins, people and  *)
(* callbacks, and any lifetime and table bound.                            *)
(*                                                                         *)
(* The inductive invariant follows a sign-in from the browser it is given  *)
(* to, over the binding cookie and the request that redeems it, to the     *)
(* session cookie; single redemption rests on a redeemed state having left *)
(* the table for good.                                                     *)
(***************************************************************************)
EXTENDS SignIn, TLAPS, FiniteSetTheorems

\* A state some request redeemed no longer waits.
SpentIsGone == \A r \in Request : request[r].state \notin pending

\* A browser's binding names a sign-in started in it.
BindingIsItsBrowsers == \A b \in Browser : binding[b] # None => issued[binding[b]] = b

\* A request that redeemed a state runs in the browser the state was given to.
RedeemedByItsBrowser ==
  \A r \in Request :
    request[r].phase \in {"exchanging", "established"} \/ request[r].state # None =>
      /\ request[r].state # None /\ request[r].browser # None
      /\ issued[request[r].state] = request[r].browser

\* A session cookie names a session established in its browser, with the code of
\* the sign-in that was redeemed for it.
CookieIsItsBrowsers ==
  \A b \in Browser : cookie[b] # None =>
    LET r == request[cookie[b]] IN
      /\ r.phase = "established" /\ r.browser = b /\ r.code = r.state /\ r.state # None

Provenance == BindingIsItsBrowsers /\ RedeemedByItsBrowser /\ CookieIsItsBrowsers

Bounded == IsFiniteSet(pending) /\ PendingIsBounded

IInv == TypeOK /\ RedeemedOnce /\ SpentIsGone /\ Provenance /\ Bounded

Requests ==
  [phase : Phase, browser : Browser \cup {None}, state : State \cup {None},
   code : State \cup {None}]

LEMMA InitInv == Init => IInv
<1> SUFFICES ASSUME Init PROVE IInv
  OBVIOUS
<1>1. New \in Requests /\ New.phase = "new" /\ New.state = None
  BY DEF New, Requests, Phase
<1>2. TypeOK
  BY <1>1, SignInAssumption DEF Init, TypeOK, Requests
<1>3. RedeemedOnce /\ SpentIsGone /\ Provenance
  BY <1>1 DEF Init, RedeemedOnce, SpentIsGone, Provenance,
              BindingIsItsBrowsers, RedeemedByItsBrowser, CookieIsItsBrowsers
<1>4. Bounded
  BY FS_EmptySet, SignInAssumption DEF Init, Bounded, PendingIsBounded
<1>5. QED
  BY <1>2, <1>3, <1>4 DEF IInv

-----------------------------------------------------------------------------
(* Type correctness *)

LEMMA PrunedSubset == Pruned \subseteq pending
BY DEF Pruned

LEMMA CallbackRequest ==
  ASSUME NEW r \in Request, NEW b \in Browser, NEW s \in State, NEW code \in Codes,
         TypeOK, Callback(r, b, s, code)
  PROVE  /\ request' \in [Request -> Requests]
         /\ \A q \in Request \ {r} : request'[q] = request[q]
         /\ \/ /\ Bound(b, s) /\ s \in Pruned /\ pending' = Pruned \ {s}
               /\ request'[r] = [phase |-> "exchanging", browser |-> b, state |-> s,
                                 code |-> code]
               /\ binding' = binding
            \/ /\ ~(Bound(b, s) /\ s \in Pruned)
               /\ pending' = Taken(b, s)
               /\ request'[r] = [New EXCEPT !.phase = "refused"]
               /\ Clears(b)
<1>1. request \in [Request -> Requests] /\ request[r] = New
  BY DEF TypeOK, Requests, Callback
<1>2. New \in Requests
  BY DEF New, Requests, Phase
<1>3. CASE Bound(b, s) /\ s \in Pruned
  <2>1. [phase |-> "exchanging", browser |-> b, state |-> s, code |-> code] \in Requests
    BY DEF Requests, Phase, Codes
  <2>2. QED
    BY <1>1, <1>3, <2>1 DEF Callback, Taken
<1>4. CASE ~(Bound(b, s) /\ s \in Pruned)
  <2>1. [New EXCEPT !.phase = "refused"] \in Requests
    BY <1>2 DEF Requests, Phase, New
  <2>2. request' = [request EXCEPT ![r] = [New EXCEPT !.phase = "refused"]]
    BY <1>1, <1>4 DEF Callback
  <2>3. QED
    BY <1>1, <1>4, <2>1, <2>2 DEF Callback
<1>5. QED
  BY <1>3, <1>4

\* What an ended exchange does to its request.
LEMMA EndedRequest ==
  ASSUME NEW r \in Request, NEW phase \in Phase, TypeOK,
         request' = [request EXCEPT ![r].phase = phase]
  PROVE  /\ request' \in [Request -> Requests]
         /\ \A q \in Request \ {r} : request'[q] = request[q]
         /\ request'[r].phase = phase /\ request'[r].browser = request[r].browser
         /\ request'[r].state = request[r].state /\ request'[r].code = request[r].code
<1>1. request \in [Request -> Requests]
  BY DEF TypeOK, Requests
<1>2. request[r] \in Requests
  BY <1>1
<1>3. request'[r] = [request[r] EXCEPT !.phase = phase]
  BY <1>1
<1>4. [request[r] EXCEPT !.phase = phase] \in Requests
  BY <1>2 DEF Requests
<1>5. QED
  BY <1>1, <1>2, <1>3, <1>4 DEF Requests

LEMMA StepType == TypeOK /\ [Next]_vars => TypeOK'
<1> SUFFICES ASSUME TypeOK, [Next]_vars PROVE TypeOK'
  OBVIOUS
<1>0. request \in [Request -> Requests]
  BY DEF TypeOK, Requests
<1>1. ASSUME NEW b \in Browser, NEW s \in State, Start(b, s) PROVE TypeOK'
  BY <1>1, SignInAssumption DEF TypeOK, Start, Remembered, Pruned
<1>2. ASSUME NEW r \in Request, NEW b \in Browser, NEW s \in State, NEW code \in Codes,
             Callback(r, b, s, code)
      PROVE TypeOK'
  <2>1. request' \in [Request -> Requests] /\ pending' \subseteq pending
    BY <1>2, CallbackRequest, PrunedSubset DEF Callback, Taken
  <2>2. binding' \in [Browser -> State \cup {None}]
    BY <1>2 DEF Callback, Clears, TypeOK
  <2>3. \A q \in live : request'[q].phase = "established"
    <3>1. r \notin live
      BY <1>2 DEF TypeOK, New, Callback
    <3>2. \A q \in Request \ {r} : request'[q] = request[q]
      BY <1>2, CallbackRequest
    <3>3. QED
      BY <3>1, <3>2 DEF TypeOK
  <2>4. QED
    BY <1>2, <2>1, <2>2, <2>3 DEF Callback, TypeOK, Requests
<1>3. ASSUME NEW r \in Request, Refuse(r) PROVE TypeOK'
  <2>1. request' \in [Request -> Requests] /\ \A q \in Request \ {r} : request'[q] = request[q]
    BY <1>3, EndedRequest DEF Refuse, Phase
  <2>2. r \notin live
    BY <1>3 DEF Refuse, TypeOK
  <2>3. QED
    BY <1>3, <2>1, <2>2 DEF Refuse, Clears, TypeOK, Requests, host
<1>4. ASSUME NEW r \in Request, Establish(r) PROVE TypeOK'
  <2>1. /\ request' \in [Request -> Requests]
        /\ \A q \in Request \ {r} : request'[q] = request[q]
        /\ request'[r].phase = "established"
    BY <1>4, EndedRequest DEF Establish, Phase
  <2>2. QED
    BY <1>4, <2>1 DEF Establish, Clears, TypeOK, Requests
<1>5. ASSUME NEW b \in Browser, SignOut(b) \/ DropCookies(b) PROVE TypeOK'
  BY <1>5 DEF SignOut, DropCookies, Clears, TypeOK, host
<1>6. ASSUME NEW s \in State, NEW subject \in Subject, Approve(s, subject) PROVE TypeOK'
  BY <1>6 DEF Approve, TypeOK, host
<1>7. ASSUME NEW t \in Request, SessionExpires(t) PROVE TypeOK'
  BY <1>7 DEF SessionExpires, TypeOK
<1>8. CASE Tick
  BY <1>8, SignInAssumption DEF Tick, TypeOK, InTime, host
<1>9. CASE UNCHANGED vars
  BY <1>9 DEF vars, TypeOK
<1>10. QED
  BY <1>1, <1>2, <1>3, <1>4, <1>5, <1>6, <1>7, <1>8, <1>9 DEF Next

-----------------------------------------------------------------------------
(* Single redemption *)

\* What a step other than a callback does to the states requests have redeemed.
LEMMA OnlyCallbacksRedeem ==
  ASSUME TypeOK, [Next]_vars,
         ~ \E r \in Request, b \in Browser, s \in State, code \in Codes : Callback(r, b, s, code)
  PROVE  \A q \in Request :
           /\ request'[q].state = request[q].state
           /\ request'[q].browser = request[q].browser
           /\ request'[q].code = request[q].code
<1>1. ASSUME NEW r \in Request, Refuse(r) \/ Establish(r)
      PROVE \A q \in Request :
              /\ request'[q].state = request[q].state
              /\ request'[q].browser = request[q].browser
              /\ request'[q].code = request[q].code
  <2>1. PICK phase \in Phase : request' = [request EXCEPT ![r].phase = phase]
    BY <1>1 DEF Refuse, Establish, Phase
  <2>2. QED
    BY <2>1, EndedRequest
<1>2. CASE request' = request
  BY <1>2
<1>3. QED
  BY <1>1, <1>2 DEF Next, vars, Start, SignOut, DropCookies, Approve, SessionExpires, Tick

\* What waits after a step: nothing new but the sign-in just started.
LEMMA PendingStep ==
  ASSUME TypeOK, [Next]_vars, NEW s \in pending', s \notin pending
  PROVE  s \in State /\ \E b \in Browser : Start(b, s)
<1>1. ASSUME NEW b \in Browser, NEW t \in State, Start(b, t) PROVE s = t
  BY <1>1 DEF Start, Remembered, Pruned
<1>2. \E b \in Browser, t \in State : Start(b, t)
  BY DEF Next, vars, host, Callback, Taken, Pruned, Refuse, Establish, SignOut, DropCookies,
         Approve, SessionExpires, Tick
<1>3. QED
  BY <1>1, <1>2

LEMMA StepRedeemed ==
  TypeOK /\ RedeemedOnce /\ SpentIsGone /\ Provenance /\ [Next]_vars
    => RedeemedOnce' /\ SpentIsGone'
<1> SUFFICES ASSUME TypeOK, RedeemedOnce, SpentIsGone, Provenance, [Next]_vars
             PROVE  RedeemedOnce' /\ SpentIsGone'
  OBVIOUS
<1>0. \A q \in Request : request[q].state \in State \cup {None}
  BY DEF TypeOK
<1>1. ASSUME NEW r \in Request, NEW b \in Browser, NEW s \in State, NEW code \in Codes,
             Callback(r, b, s, code)
      PROVE RedeemedOnce' /\ SpentIsGone'
  <2>1. \A q \in Request \ {r} : request'[q] = request[q]
    BY <1>1, CallbackRequest
  <2>2. request'[r].state # None =>
          request'[r].state = s /\ s \in pending /\ s \notin pending'
    <3>1. CASE Bound(b, s) /\ s \in Pruned
      <4>1. /\ pending' = Pruned \ {s}
            /\ request'[r] = [phase |-> "exchanging", browser |-> b, state |-> s, code |-> code]
        BY <1>1, <3>1, CallbackRequest
      <4>2. QED
        BY <3>1, <4>1, PrunedSubset
    <3>2. CASE ~(Bound(b, s) /\ s \in Pruned)
      <4>1. request'[r] = [New EXCEPT !.phase = "refused"]
        BY <1>1, <3>2, CallbackRequest
      <4>2. QED
        BY <4>1 DEF New
    <3>3. QED
      BY <3>1, <3>2
  <2>3. pending' \subseteq pending
    BY <1>1 DEF Callback, Taken, Pruned
  <2>4. None \notin pending
    BY SignInAssumption DEF TypeOK
  <2>5. SpentIsGone'
    BY <2>1, <2>2, <2>3, <2>4 DEF SpentIsGone
  <2>6. RedeemedOnce'
    BY <2>1, <2>2 DEF RedeemedOnce, SpentIsGone
  <2>7. QED
    BY <2>5, <2>6
<1>2. CASE ~ \E r \in Request, b \in Browser, s \in State, code \in Codes :
               Callback(r, b, s, code)
  <2>1. \A q \in Request : request'[q].state = request[q].state
    BY <1>2, OnlyCallbacksRedeem
  <2>2. RedeemedOnce'
    BY <2>1 DEF RedeemedOnce
  <2>3. SpentIsGone'
    <3>1. SUFFICES ASSUME NEW q \in Request, request'[q].state \in pending' PROVE FALSE
      BY DEF SpentIsGone
    <3>2. request'[q].state \notin pending
      BY <2>1 DEF SpentIsGone
    <3>3. PICK b \in Browser : request'[q].state \in State /\ Start(b, request'[q].state)
      BY <3>1, <3>2, PendingStep
    <3>4. request[q].state # None /\ issued[request[q].state] = None
      BY <2>1, <3>3, SignInAssumption DEF Start, TypeOK
    <3>5. QED
      BY <3>1, <3>4 DEF Provenance, RedeemedByItsBrowser
  <2>4. QED
    BY <2>2, <2>3
<1>3. QED
  BY <1>1, <1>2

-----------------------------------------------------------------------------
(* Whose session it is *)

LEMMA StepProvenance == TypeOK /\ Provenance /\ [Next]_vars => Provenance'
<1> SUFFICES ASSUME TypeOK, Provenance, [Next]_vars PROVE Provenance'
  OBVIOUS
<1> USE SignInAssumption
<1>1. ASSUME NEW b \in Browser, NEW s \in State, Start(b, s) PROVE Provenance'
  <2>1. issued' = [issued EXCEPT ![s] = b] /\ binding' = [binding EXCEPT ![b] = s]
        /\ issued[s] = None /\ UNCHANGED <<request, cookie>>
    BY <1>1 DEF Start
  <2>2. BindingIsItsBrowsers'
    BY <2>1 DEF TypeOK, Provenance, BindingIsItsBrowsers
  <2>3. RedeemedByItsBrowser'
    BY <2>1 DEF TypeOK, Provenance, RedeemedByItsBrowser
  <2>4. CookieIsItsBrowsers'
    BY <2>1 DEF Provenance, CookieIsItsBrowsers
  <2>5. QED
    BY <2>2, <2>3, <2>4 DEF Provenance
<1>2. ASSUME NEW r \in Request, NEW b \in Browser, NEW s \in State, NEW code \in Codes,
             Callback(r, b, s, code)
      PROVE Provenance'
  <2>1. UNCHANGED <<issued, cookie>> /\ request[r] = New
    BY <1>2 DEF Callback
  <2>2. \A q \in Request \ {r} : request'[q] = request[q]
    BY <1>2, CallbackRequest
  <2>3. BindingIsItsBrowsers'
    <3>1. \A c \in Browser : binding'[c] \in {binding[c], None}
      BY <1>2 DEF Callback, Clears, TypeOK
    <3>2. QED
      BY <2>1, <3>1 DEF Provenance, BindingIsItsBrowsers
  <2>4. RedeemedByItsBrowser'
    <3>1. CASE Bound(b, s) /\ s \in Pruned
      <4>1. request'[r] = [phase |-> "exchanging", browser |-> b, state |-> s, code |-> code]
        BY <1>2, <3>1, CallbackRequest
      <4>2. issued[s] = b
        BY <3>1 DEF Bound, Provenance, BindingIsItsBrowsers
      <4>3. QED
        BY <2>1, <2>2, <4>1, <4>2 DEF Provenance, RedeemedByItsBrowser
    <3>2. CASE ~(Bound(b, s) /\ s \in Pruned)
      <4>1. request'[r] = [New EXCEPT !.phase = "refused"]
        BY <1>2, <3>2, CallbackRequest
      <4>2. request'[r].phase = "refused" /\ request'[r].state = None
        BY <4>1 DEF New
      <4>3. QED
        BY <2>1, <2>2, <4>2 DEF Provenance, RedeemedByItsBrowser
    <3>3. QED
      BY <3>1, <3>2
  <2>5. CookieIsItsBrowsers'
    <3>1. \A c \in Browser : cookie[c] # None => cookie[c] \in Request \ {r}
      BY <2>1 DEF TypeOK, Provenance, CookieIsItsBrowsers, New
    <3>2. QED
      BY <2>1, <2>2, <3>1 DEF Provenance, CookieIsItsBrowsers
  <2>6. QED
    BY <2>3, <2>4, <2>5 DEF Provenance
<1>3. ASSUME NEW r \in Request, Refuse(r) PROVE Provenance'
  <2>1. /\ \A q \in Request \ {r} : request'[q] = request[q]
        /\ request'[r].phase = "refused" /\ request'[r].browser = request[r].browser
        /\ request'[r].state = request[r].state /\ request'[r].code = request[r].code
    BY <1>3, EndedRequest DEF Refuse, Phase
  <2>2. UNCHANGED <<issued, cookie>> /\ request[r].phase = "exchanging"
    BY <1>3 DEF Refuse
  <2>3. \A c \in Browser : binding'[c] \in {binding[c], None}
    BY <1>3 DEF Refuse, Clears, TypeOK
  <2>4. BindingIsItsBrowsers'
    BY <2>2, <2>3 DEF Provenance, BindingIsItsBrowsers
  <2>5. RedeemedByItsBrowser'
    BY <2>1, <2>2 DEF Provenance, RedeemedByItsBrowser
  <2>6. CookieIsItsBrowsers'
    <3>1. \A c \in Browser : cookie[c] # None => cookie[c] \in Request \ {r}
      BY <2>2 DEF TypeOK, Provenance, CookieIsItsBrowsers
    <3>2. QED
      BY <2>1, <2>2, <3>1 DEF Provenance, CookieIsItsBrowsers
  <2>7. QED
    BY <2>4, <2>5, <2>6 DEF Provenance
<1>4. ASSUME NEW r \in Request, Establish(r) PROVE Provenance'
  <2>1. /\ \A q \in Request \ {r} : request'[q] = request[q]
        /\ request'[r].phase = "established" /\ request'[r].browser = request[r].browser
        /\ request'[r].state = request[r].state /\ request'[r].code = request[r].code
    BY <1>4, EndedRequest DEF Establish, Phase
  <2>2. /\ issued' = issued /\ cookie' = [cookie EXCEPT ![request[r].browser] = r]
        /\ request[r].phase = "exchanging" /\ request[r].code = request[r].state
    BY <1>4 DEF Establish, Redeems
  <2>3. \A c \in Browser : binding'[c] \in {binding[c], None}
    BY <1>4 DEF Establish, Clears, TypeOK
  <2>4. BindingIsItsBrowsers'
    BY <2>2, <2>3 DEF Provenance, BindingIsItsBrowsers
  <2>5. RedeemedByItsBrowser'
    BY <2>1, <2>2 DEF Provenance, RedeemedByItsBrowser
  <2>6. CookieIsItsBrowsers'
    <3>1. \A c \in Browser : cookie[c] # None => cookie[c] \in Request \ {r}
      BY <2>2 DEF TypeOK, Provenance, CookieIsItsBrowsers
    <3>2. request[r].state # None
      BY <2>2 DEF Provenance, RedeemedByItsBrowser
    <3>3. \A c \in Browser :
            \/ cookie'[c] = r /\ request[r].browser = c
            \/ cookie'[c] = cookie[c]
      BY <2>2 DEF TypeOK
    <3>4. QED
      BY <2>1, <2>2, <3>1, <3>2, <3>3 DEF Provenance, CookieIsItsBrowsers
  <2>7. QED
    BY <2>4, <2>5, <2>6 DEF Provenance
<1>5. ASSUME NEW b \in Browser, SignOut(b) \/ DropCookies(b) PROVE Provenance'
  <2>1. UNCHANGED <<request, issued>>
    BY <1>5 DEF SignOut, DropCookies
  <2>2. \A c \in Browser : /\ binding'[c] \in {binding[c], None}
                           /\ cookie'[c] \in {cookie[c], None}
    BY <1>5 DEF SignOut, DropCookies, Clears, TypeOK
  <2>3. QED
    BY <2>1, <2>2 DEF Provenance, BindingIsItsBrowsers, RedeemedByItsBrowser,
                      CookieIsItsBrowsers
<1>6. CASE UNCHANGED <<request, issued, binding, cookie>>
  BY <1>6 DEF Provenance, BindingIsItsBrowsers, RedeemedByItsBrowser, CookieIsItsBrowsers
<1>7. QED
  BY <1>1, <1>2, <1>3, <1>4, <1>5, <1>6 DEF Next, vars, Approve, SessionExpires, Tick

-----------------------------------------------------------------------------
(* The table of waiting sign-ins *)

LEMMA StepBounded == Bounded /\ [Next]_vars => Bounded'
<1> SUFFICES ASSUME Bounded, [Next]_vars PROVE Bounded'
  OBVIOUS
<1>1. /\ IsFiniteSet(Pruned) /\ Cardinality(Pruned) \in Nat
      /\ Cardinality(Pruned) <= MaxPending
  <2>1. /\ IsFiniteSet(Pruned) /\ Cardinality(Pruned) \in Nat /\ Cardinality(pending) \in Nat
        /\ Cardinality(Pruned) <= Cardinality(pending)
    BY PrunedSubset, FS_Subset, FS_CardinalityType DEF Bounded
  <2>2. QED
    BY <2>1, SignInAssumption DEF Bounded, PendingIsBounded
<1>2. ASSUME NEW s \in State, pending' = Remembered(s) PROVE Bounded'
  <2>1. /\ IsFiniteSet(Pruned \cup {s})
        /\ Cardinality(Pruned \cup {s}) <= Cardinality(Pruned) + 1
    BY <1>1, FS_AddElement
  <2>2. /\ Cardinality(Pruned \cup {s}) \in Nat
    BY <2>1, FS_CardinalityType
  <2>3. QED
    BY <1>1, <1>2, <2>1, <2>2, SignInAssumption DEF Remembered, Bounded, PendingIsBounded
<1>3. ASSUME pending' \subseteq Pruned PROVE Bounded'
  <2>1. /\ IsFiniteSet(pending') /\ Cardinality(pending') \in Nat
        /\ Cardinality(pending') <= Cardinality(Pruned)
    BY <1>1, <1>3, FS_Subset, FS_CardinalityType
  <2>2. QED
    BY <1>1, <2>1, SignInAssumption DEF Bounded, PendingIsBounded
<1>4. CASE pending' = pending
  BY <1>4 DEF Bounded, PendingIsBounded
<1>5. ASSUME NEW r \in Request, NEW b \in Browser, NEW s \in State, NEW code \in Codes,
             Callback(r, b, s, code)
      PROVE pending' \subseteq Pruned \/ pending' = pending
  BY <1>5 DEF Callback, Taken
<1>6. QED
  BY <1>2, <1>3, <1>4, <1>5 DEF Next, vars, host, Start, Refuse, Establish, SignOut, DropCookies,
     Approve, SessionExpires, Tick

\* A sign-in that waits, in time and bound in its own browser, leaves that state
\* by its time or by a step of its browser.
LEMMA StepRedeemable ==
  ASSUME TypeOK, BindingIsItsBrowsers, [Next]_vars, NEW s \in pending, Redeemable(s)
  PROVE  Redeemable(s)' \/ ~InTime(s)' \/ OwnStep(issued[s])
<1> SUFFICES ASSUME InTime(s)', ~OwnStep(issued[s])
             PROVE  Redeemable(s)'
  OBVIOUS
<1>1. /\ s \in State /\ issued[s] \in Browser /\ issued[s] # None
      /\ binding[issued[s]] = s /\ s \in Pruned /\ InTime(s)
  BY DEF TypeOK, Redeemable, Pruned
<1>2. /\ s \in pending' /\ issued'[s] = issued[s] /\ binding'[issued[s]] = s
      => Redeemable(s)'
  BY DEF Redeemable, Pruned
<1>3. ASSUME NEW b \in Browser, NEW t \in State, Start(b, t) PROVE Redeemable(s)'
  <2>1. b # issued[s]
    BY <1>3 DEF OwnStep
  <2>2. s # t
    BY <1>1, <1>3 DEF Start
  <2>3. s \in pending' /\ issued'[s] = issued[s] /\ binding'[issued[s]] = s
    BY <1>1, <1>3, <2>1, <2>2 DEF Start, Remembered, TypeOK
  <2>4. QED
    BY <1>2, <2>3
<1>4. ASSUME NEW r \in Request, NEW b \in Browser, NEW t \in State, NEW code \in Codes,
             Callback(r, b, t, code)
      PROVE  Redeemable(s)'
  <2>1. b # issued[s]
    BY <1>4 DEF OwnStep
  <2>2. Bound(b, t) => t # s
    BY <1>1, <2>1, SignInAssumption DEF Bound, BindingIsItsBrowsers
  <2>3. s \in pending'
    BY <1>1, <1>4, <2>2 DEF Callback, Taken
  <2>4. issued'[s] = issued[s] /\ binding'[issued[s]] = s
    BY <1>1, <1>4, <2>1 DEF Callback, Clears, TypeOK
  <2>5. QED
    BY <1>2, <2>3, <2>4
<1>5. ASSUME NEW r \in Request, Refuse(r) \/ Establish(r)
      PROVE  Redeemable(s)'
  <2>1. request[r].browser # issued[s]
    BY <1>5 DEF OwnStep
  <2>2. s \in pending' /\ issued'[s] = issued[s] /\ binding'[issued[s]] = s
    BY <1>1, <1>5, <2>1 DEF Refuse, Establish, Clears, host, TypeOK
  <2>3. QED
    BY <1>2, <2>2
<1>6. ASSUME NEW b \in Browser, DropCookies(b) PROVE Redeemable(s)'
  <2>1. b # issued[s]
    BY <1>6 DEF OwnStep
  <2>2. s \in pending' /\ issued'[s] = issued[s] /\ binding'[issued[s]] = s
    BY <1>1, <1>6, <2>1 DEF DropCookies, Clears, host, TypeOK
  <2>3. QED
    BY <1>2, <2>2
<1>7. CASE UNCHANGED <<pending, issued, binding>>
  BY <1>1, <1>2, <1>7
<1>8. QED
  BY <1>3, <1>4, <1>5, <1>6, <1>7
     DEF Next, vars, host, SignOut, Approve, SessionExpires, Tick

-----------------------------------------------------------------------------
(* Theorems *)

\* The inductive invariant.
LEMMA Invariance == Spec => []IInv
<1>1. IInv /\ [Next]_vars => IInv'
  BY StepType, StepRedeemed, StepProvenance, StepBounded DEF IInv
<1>2. QED
  BY InitInv, <1>1, PTL DEF Spec

\* The tables of sign-in stay well formed: only started sign-ins wait, and
\* every live session was established by a callback.
THEOREM SignInTypeCorrect == Spec => []TypeOK
<1>1. IInv => TypeOK
  BY DEF IInv
<1>2. QED
  BY Invariance, <1>1, PTL

\* take_login: a state leads to one exchange, however many callbacks name it.
THEOREM SignInRedeemedOnce == Spec => []RedeemedOnce
<1>1. IInv => RedeemedOnce
  BY DEF IInv
<1>2. QED
  BY Invariance, <1>1, PTL

\* callback: the session a browser is given speaks for the person who approved
\* the sign-in started in that browser.
THEOREM SessionProvenance == Spec => []SessionIsItsBrowsersOwn
<1>1. IInv => SessionIsItsBrowsersOwn
  <2> SUFFICES ASSUME IInv, NEW b \in Browser, Resolve(b) # None
               PROVE  /\ issued[request[cookie[b]].state] = b
                      /\ Resolve(b) = approved[request[cookie[b]].state]
    BY DEF SessionIsItsBrowsersOwn
  <2>1. cookie[b] \in live /\ cookie[b] \in Request /\ cookie[b] # None
    BY SignInAssumption DEF Resolve, IInv, TypeOK
  <2>2. QED
    BY <2>1 DEF Resolve, IInv, Provenance, CookieIsItsBrowsers, RedeemedByItsBrowser
<1>2. QED
  BY Invariance, <1>1, PTL

\* start_login, take_login and callback: a sign-in that can be finished stays so
\* until its time is over or its own browser does something about it.  No other
\* browser's request ends it.
THEOREM SignInStaysRedeemable == Spec => OnlyItsBrowserEndsIt
<1>1. /\ IInv /\ [Next]_vars
      => [\A s \in pending :
            Redeemable(s) => Redeemable(s)' \/ ~InTime(s)' \/ OwnStep(issued[s])]_vars
  BY StepRedeemable DEF IInv, Provenance
<1>2. QED
  BY Invariance, <1>1, PTL DEF Spec, OnlyItsBrowserEndsIt

\* start_login: the table of waiting sign-ins never exceeds MAX_PENDING.
THEOREM SignInPendingIsBounded == Spec => []PendingIsBounded
<1>1. IInv => PendingIsBounded
  BY DEF IInv, Bounded
<1>2. QED
  BY Invariance, <1>1, PTL
=============================================================================
