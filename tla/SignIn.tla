------------------------------- MODULE SignIn -------------------------------
(***************************************************************************)
(* Sign-in and sessions (connectors-api, auth/session.rs and               *)
(* auth/routes.rs): sign-ins that were started and wait for their callback *)
(* and the sessions they become.                                           *)
(*                                                                         *)
(* A handler runs without interruption up to its first await.  The callback*)
(* awaits after it has redeemed its state, for the code's exchange and the *)
(* token's verification; meanwhile other sign-ins start, come back, expire *)
(* and end.                                                                *)
(*                                                                         *)
(* A state stands for all that is minted with it: the nonce, the verifier  *)
(* and its challenge.  A request is one call of the callback and names the *)
(* session token it may mint.  External: browsers keep one binding cookie  *)
(* and one session cookie and may drop either; the provider lets a person  *)
(* approve a started sign-in and redeems a code only with the verifier of  *)
(* its own sign-in.  It is not assumed to redeem a code only once.  An     *)
(* answer's cookies are set with the handler's last step.                  *)
(***************************************************************************)
EXTENDS Naturals, FiniteSets

CONSTANTS
  Browser, State, Subject, Request,
  None,        \* no browser, no state, no subject, no request
  LoginTtl,    \* LOGIN_TTL
  MaxPending   \* MAX_PENDING

ASSUME SignInAssumption ==
  /\ LoginTtl \in Nat \ {0} /\ MaxPending \in Nat
  /\ None \notin Browser \cup State \cup Subject \cup Request

VARIABLES
  pending,   \* the states whose sign-in waits for its callback
  age,       \* per state, how long ago its sign-in was started
  live,      \* the sessions: tokens that resolve, unless expired
  expired,   \* the tokens past SESSION_TTL
  request,   \* per request: whose callback it is and how far it came
  binding,   \* per browser, its binding cookie
  cookie,    \* per browser, its session cookie
  issued,    \* per state, the browser its sign-in was started for
  approved   \* per state, the subject who approved it at the provider

host == <<pending, live, expired>>
vars == <<pending, age, live, expired, request, binding, cookie, issued, approved>>

New == [phase |-> "new", browser |-> None, state |-> None, code |-> None]

Init ==
  /\ pending = {} /\ live = {} /\ expired = {}
  /\ age = [s \in State |-> 0]
  /\ request = [r \in Request |-> New]
  /\ binding = [b \in Browser |-> None]
  /\ cookie = [b \in Browser |-> None]
  /\ issued = [s \in State |-> None]
  /\ approved = [s \in State |-> None]

-----------------------------------------------------------------------------
(* The host *)

InTime(s) == age[s] < LoginTtl

Pruned == {s \in pending : InTime(s)}

\* Mutant of Remembered: the bound is checked one entry late.
RememberedLate(s) == IF Cardinality(Pruned) <= MaxPending THEN Pruned \cup {s} ELSE Pruned

\* start_login: a full table does not take the new sign-in.
Remembered(s) == IF Cardinality(Pruned) < MaxPending THEN Pruned \cup {s} ELSE Pruned

\* signin: mints a state and binds it to the browser, remembered or not.
Start(b, s) ==
  /\ issued[s] = None
  /\ issued' = [issued EXCEPT ![s] = b]
  /\ age' = [age EXCEPT ![s] = 0]
  /\ pending' = Remembered(s)
  /\ binding' = [binding EXCEPT ![b] = s]
  /\ UNCHANGED <<live, expired, request, cookie, approved>>

\* Mutant of Bound: a browser without a binding has nothing to compare.
BoundIfPresent(b, s) == binding[b] \in {s, None}

\* The binding cookie is there and agrees with the state in the URL.
Bound(b, s) == binding[b] = s

\* Mutants of Taken: the state is looked up and left; the state is removed
\* before the browser is looked at.
TakenByNobody(b, s) == Pruned
TakenFirst(b, s) == Pruned \ {s}

\* take_login is reached by a bound browser only, and removes on read.
Taken(b, s) == IF Bound(b, s) THEN Pruned \ {s} ELSE pending

\* The answer of a refused callback clears the browser's binding.
Clears(b) == binding' = [binding EXCEPT ![b] = None]

\* The codes a callback may carry: those the provider gave out, by their
\* sign-in, and None for any other.
Codes == {s \in State : approved[s] # None} \cup {None}

\* callback, up to the exchange.
Callback(r, b, s, code) ==
  /\ request[r] = New
  /\ pending' = Taken(b, s)
  /\ IF Bound(b, s) /\ s \in Pruned
     THEN /\ request' = [request EXCEPT ![r] =
               [phase |-> "exchanging", browser |-> b, state |-> s, code |-> code]]
          /\ UNCHANGED binding
     ELSE /\ request' = [request EXCEPT ![r].phase = "refused"]
          /\ Clears(b)
  /\ UNCHANGED <<age, live, expired, cookie, issued, approved>>

\* The exchange or the verification fails.
Refuse(r) ==
  /\ request[r].phase = "exchanging"
  /\ request' = [request EXCEPT ![r].phase = "refused"]
  /\ Clears(request[r].browser)
  /\ UNCHANGED <<host, age, cookie, issued, approved>>

\* External: the code belongs to the sign-in whose verifier the host sends.
Redeems(r) == request[r].code = request[r].state

\* The token passes every check: a session for its subject.  create prunes the
\* expired sessions; the browser gets the session and loses its binding.
Establish(r) ==
  /\ request[r].phase = "exchanging"
  /\ Redeems(r)
  /\ request' = [request EXCEPT ![r].phase = "established"]
  /\ live' = (live \ expired) \cup {r}
  /\ cookie' = [cookie EXCEPT ![request[r].browser] = r]
  /\ Clears(request[r].browser)
  /\ UNCHANGED <<pending, expired, age, issued, approved>>

\* signout revokes the session on the host, then clears the cookie.
SignOut(b) ==
  /\ cookie[b] # None
  /\ live' = live \ {cookie[b]}
  /\ cookie' = [cookie EXCEPT ![b] = None]
  /\ UNCHANGED <<pending, expired, age, request, binding, issued, approved>>

\* resolve: the subject a session cookie speaks for.
Resolve(b) ==
  IF cookie[b] \in live \ expired THEN approved[request[cookie[b]].code] ELSE None

-----------------------------------------------------------------------------
(* Browsers, people and time *)

\* A person approves a started sign-in; the provider sends the browser back
\* with a code.  The address it is sent to may be opened in any browser.
Approve(s, subject) ==
  /\ issued[s] # None /\ approved[s] = None
  /\ approved' = [approved EXCEPT ![s] = subject]
  /\ UNCHANGED <<host, age, request, binding, cookie, issued>>

DropCookies(b) ==
  /\ \/ binding[b] # None /\ Clears(b) /\ UNCHANGED cookie
     \/ cookie[b] # None /\ cookie' = [cookie EXCEPT ![b] = None] /\ UNCHANGED binding
  /\ UNCHANGED <<host, age, request, issued, approved>>

SessionExpires(t) ==
  /\ t \in live \ expired
  /\ expired' = expired \cup {t}
  /\ UNCHANGED <<pending, live, age, request, binding, cookie, issued, approved>>

Tick ==
  /\ age' = [s \in State |-> IF issued[s] # None /\ InTime(s) THEN age[s] + 1 ELSE age[s]]
  /\ UNCHANGED <<host, request, binding, cookie, issued, approved>>

Next ==
  \/ \E b \in Browser, s \in State : Start(b, s)
  \/ \E r \in Request, b \in Browser, s \in State, code \in Codes : Callback(r, b, s, code)
  \/ \E r \in Request : Refuse(r) \/ Establish(r)
  \/ \E b \in Browser : SignOut(b) \/ DropCookies(b)
  \/ \E s \in State, subject \in Subject : Approve(s, subject)
  \/ \E t \in Request : SessionExpires(t)
  \/ Tick

Spec == Init /\ [][Next]_vars

-----------------------------------------------------------------------------
(* Properties *)

Phase == {"new", "exchanging", "established", "refused"}

TypeOK ==
  /\ pending \subseteq {s \in State : issued[s] # None}
  /\ age \in [State -> 0 .. LoginTtl]
  /\ live \subseteq {r \in Request : request[r].phase = "established"}
  /\ expired \subseteq Request
  /\ request \in [Request ->
       [phase : Phase, browser : Browser \cup {None}, state : State \cup {None},
        code : State \cup {None}]]
  /\ binding \in [Browser -> State \cup {None}]
  /\ cookie \in [Browser -> Request \cup {None}]
  /\ issued \in [State -> Browser \cup {None}]
  /\ approved \in [State -> Subject \cup {None}]

\* A session speaks for the person who approved the very sign-in that was
\* started in the browser the session is given to.
SessionIsItsBrowsersOwn ==
  \A b \in Browser :
    Resolve(b) # None =>
      /\ issued[request[cookie[b]].state] = b
      /\ Resolve(b) = approved[request[cookie[b]].state]

\* A state is redeemed once: however often and in however many requests at a
\* time its callback is opened, it leads to one exchange and one session.
RedeemedOnce ==
  \A r, q \in Request :
    /\ request[r].state # None /\ request[r].state = request[q].state
    => r = q

\* What take_login would still redeem: the sign-in waits, and the browser it was
\* started in is bound to it.
Redeemable(s) == s \in Pruned /\ binding[issued[s]] = s

\* What a browser does to its own sign-in: it starts another, opens a callback,
\* gets the late answer of one it opened earlier, or drops its cookies.
OwnStep(b) ==
  \/ \E s \in State : Start(b, s)
  \/ \E r \in Request, s \in State, code \in Codes : Callback(r, b, s, code)
  \/ \E r \in Request : request[r].browser = b /\ (Refuse(r) \/ Establish(r))
  \/ DropCookies(b)

\* A sign-in that can be finished stays so, but for its own browser's requests
\* and its time: no other browser's sign-ins or callbacks, with a state that was
\* handed on or with a full table, end it.
OnlyItsBrowserEndsIt ==
  [][\A s \in pending :
       Redeemable(s) => Redeemable(s)' \/ ~InTime(s)' \/ OwnStep(issued[s])]_vars

\* However many sign-ins are started, no more than MaxPending are held.
PendingIsBounded == Cardinality(pending) <= MaxPending
=============================================================================
