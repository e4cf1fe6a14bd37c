------------------------- MODULE Execution_proofs -------------------------
(***************************************************************************)
(* The safety of running operations, for any number of tenants, calls,     *)
(* operations and credentials, any catalogue and any writes by operators.  *)
(*                                                                         *)
(* The inductive invariant is a statement about each call alone: its record*)
(* x and its four histories, the URL its gate was shown (g), the entries   *)
(* (h) and settings (b) its tenant had, and the secret it wrote (w).  Other*)
(* calls and the operators can only add to h and b, and nothing in it is   *)
(* lost when they grow.                                                    *)
(***************************************************************************)
EXTENDS Execution, TLAPS, SequenceTheorems

-----------------------------------------------------------------------------
(* The operators of a call, over its record *)

XUrl(x) ==
  LET es == Range(EndpointsOf[x.op])
      v(e) == x.settings[e]
  IN  IF \A e \in es : Usable(e, v(e)) THEN [e \in es |-> v(e)] ELSE None

XAcquired(x, g) ==
  [Plain(g.secret) EXCEPT !.user = IF g.credential \in Joined THEN x.settings[g.credential] ELSE None]

XPlaced(x, g) == [XAcquired(x, g) EXCEPT !.encoded = g.credential \in Queried]

XRedactions(x) ==
  UNION {{Plain(g.secret), XAcquired(x, g), XPlaced(x, g)} : g \in Range(x.got)}

XCredentials(x) ==
  [i \in DOMAIN x.got |-> [credential |-> x.got[i].credential, form |-> XPlaced(x, x.got[i])]]

XMechanism(x) == Alternatives[x.op][x.alternative]

XLacked(x, h, j) == \E k \in Range(Alternatives[x.op][j]) : None \in h[k]

-----------------------------------------------------------------------------
(* The inductive invariant *)

Planning == {"new", "projecting", "projected"}
Unsent == Planning \cup {"assembling", "assembled"}

\* What a call cannot have yet at its phase.
Staged(x, g, w) ==
  /\ x.phase # "new" => x.tenant \in Tenant /\ x.op \in Operation
  /\ x.phase = "new" => x.read = 0
  /\ x.phase \in {"new", "projecting"} => g = None
  /\ x.phase \in Planning => x.alternative = 1 /\ x.got = <<>>
  /\ x.phase \in Unsent => x.sent = None
  /\ x.phase \in Unsent \cup {"sent", "minting"} => w = None
  /\ x.phase # "done" => x.answer = None
  /\ x.shows = {}

\* A field of the call is one its tenant had, with a blank value unbound.
FromBound(x, b, f) == \E v \in b[f] : x.settings[f] = IF v = Blank THEN None ELSE v

Resolved(x, b, e) ==
  FromBound(x, b, e) \/ (x.settings[e] = Default[e] /\ b[e] \cap {None, Blank} # {})

Projected(x, b) ==
  /\ x.phase = "projecting" =>
       /\ x.read <= Len(Fields(x.op))
       /\ \A i \in 1..x.read : FromBound(x, b, Fields(x.op)[i])
  /\ x.phase \notin {"new", "projecting"} =>
       /\ \A e \in Range(EndpointsOf[x.op]) : Resolved(x, b, e)
       /\ \A k \in Joined : FromBound(x, b, k)

\* What was collected is the beginning of one alternative.
Gathered(x, h) ==
  \A i \in DOMAIN x.got :
    /\ i \in DOMAIN XMechanism(x) /\ x.got[i].credential = XMechanism(x)[i]
    /\ x.got[i].secret \in h[x.got[i].credential]
    /\ x.got[i].credential \in Joined => x.settings[x.got[i].credential] # None

Assembled(x, h) ==
  /\ x.alternative = 1 \/ x.alternative \in DOMAIN Alternatives[x.op]
  /\ Gathered(x, h)
  /\ x.phase = "assembling" =>
       /\ x.alternative \in DOMAIN Alternatives[x.op]
       /\ Len(x.got) < Len(XMechanism(x))
  /\ x.phase \in {"assembled", "sent"} \/ x.sent # None =>
       IF Alternatives[x.op] = <<>> THEN x.got = <<>>
       ELSE x.alternative \in DOMAIN Alternatives[x.op] /\ Len(x.got) = Len(XMechanism(x))
  /\ \A j \in 1..(x.alternative - 1) : XLacked(x, h, j)
  /\ x.answer = "MissingCredential" =>
       /\ Alternatives[x.op] # <<>>
       /\ \A j \in DOMAIN Alternatives[x.op] : XLacked(x, h, j)

Carried(x, g) ==
  /\ g # None => g = XUrl(x)
  /\ x.phase = "sent" \/ x.sent # None =>
       /\ XUrl(x) # None
       /\ x.sent = [url |-> XUrl(x), alternative |-> x.alternative, credentials |-> XCredentials(x)]
       /\ XRedactions(x) \subseteq x.redactor
       /\ \A form \in XRedactions(x) : CanHold(form)

Minted(x, w) ==
  /\ x.phase \in {"minting", "minted"} \/ w # None =>
       /\ Mints[x.op] # None
       /\ x.minted # None /\ x.minted \notin Short /\ Plain(x.minted) \in x.redactor
  /\ w # None => w = x.minted
  /\ x.phase = "minted" \/ x.answer = "Handle" => w # None

Owned(x, g, h, b, w) ==
  Staged(x, g, w) /\ Projected(x, b) /\ Assembled(x, h) /\ Carried(x, g) /\ Minted(x, w)

\* While it reads them, a call's histories hold what is there now.
Watched(c) ==
  /\ call[c].phase = "projecting" =>
       \A f \in Field : settings[call[c].tenant][f] \in bound[c][f]
  /\ call[c].phase = "assembling" =>
       \A k \in Credential : secrets[call[c].tenant][k] \in held[c][k]

CallInv(c) == Owned(call[c], gated[c], held[c], bound[c], wrote[c]) /\ Watched(c)

IInv == ExecutionTypeOK /\ \A c \in Call : CallInv(c)

-----------------------------------------------------------------------------
(* Lemmas about the operators *)

LEMMA Over ==
  ASSUME NEW c \in Call
  PROVE  /\ UrlOf(c) = XUrl(call[c])
         /\ Redactions(c) = XRedactions(call[c])
         /\ Echo(c) = XRedactions(call[c])
         /\ Mechanism(c) = XMechanism(call[c])
<1>1. UrlOf(c) = XUrl(call[c])
  BY DEF UrlOf, XUrl
<1>2. \A g : Acquired(c, g) = XAcquired(call[c], g) /\ Placed(c, g) = XPlaced(call[c], g)
  BY DEF Acquired, XAcquired, Placed, XPlaced
<1>3. Redactions(c) = XRedactions(call[c]) /\ Echo(c) = XRedactions(call[c])
  BY <1>2 DEF Redactions, XRedactions, Echo
<1>4. Mechanism(c) = XMechanism(call[c])
  BY DEF Mechanism, XMechanism
<1>5. QED
  BY <1>1, <1>3, <1>4

\* Every field an operation needs is one of Fields.
LEMMA FieldsCover ==
  ASSUME NEW op \in Operation
  PROVE  /\ Fields(op) \in Seq(Field)
         /\ \A e \in Range(EndpointsOf[op]) : \E i \in 1..Len(Fields(op)) : Fields(op)[i] = e
         /\ \A k \in Joined : \E i \in 1..Len(Fields(op)) : Fields(op)[i] = k
<1> DEFINE es == EndpointsOf[op]
<1>1. es \in Seq(Endpoint) /\ Users \in Seq(Credential)
  BY ExecutionAssumption
<1>2. \A i \in 1..Len(es) : es[i] \in Field
  BY <1>1 DEF Field
<1>3. \A i \in 1..Len(Users) : Users[i] \in Field
  BY <1>1 DEF Field, Joined, Range
<1>4. es \in Seq(Field) /\ Users \in Seq(Field)
  BY <1>1, <1>2, <1>3
<1>5. /\ es \o Users \in Seq(Field)
      /\ Len(es \o Users) = Len(es) + Len(Users)
      /\ \A i \in 1..Len(es) : (es \o Users)[i] = es[i]
      /\ \A i \in 1..Len(Users) : (es \o Users)[Len(es) + i] = Users[i]
  BY <1>4
<1>6. \A e \in Range(es) : \E i \in 1..Len(es) : es[i] = e
  BY <1>1 DEF Range
<1>7. \A k \in Joined : \E i \in 1..Len(Users) : Users[i] = k
  BY <1>1 DEF Range, Joined
<1>8. \A i \in 1..Len(Users) : Len(es) + i \in 1..Len(es \o Users)
  BY <1>1, <1>5
<1>9. \A i \in 1..Len(es) : i \in 1..Len(es \o Users)
  BY <1>1, <1>5
<1>10. QED
  BY ZenonT(20), <1>5, <1>6, <1>7, <1>8, <1>9 DEF Fields

LEMMA AlternativesType ==
  ASSUME NEW op \in Operation
  PROVE  /\ Alternatives[op] \in Seq(Seq(Credential) \ {<<>>})
         /\ DOMAIN Alternatives[op] = 1..Len(Alternatives[op])
         /\ Len(Alternatives[op]) \in Nat
         /\ \A j \in DOMAIN Alternatives[op] :
              /\ Alternatives[op][j] \in Seq(Credential) /\ Len(Alternatives[op][j]) > 0
              /\ Range(Alternatives[op][j]) \subseteq Credential
<1>1. Alternatives[op] \in Seq(Seq(Credential) \ {<<>>})
  BY ExecutionAssumption
<1>2. \A j \in DOMAIN Alternatives[op] :
        Alternatives[op][j] \in Seq(Credential) /\ Alternatives[op][j] # <<>>
  BY <1>1
<1>3. \A s \in Seq(Credential) : Range(s) \subseteq Credential /\ (s # <<>> => Len(s) > 0)
  BY DEF Range
<1>4. QED
  BY <1>1, <1>2, <1>3

LEMMA GivenType ==
  ASSUME NEW got \in Seq(Given)
  PROVE  /\ DOMAIN got = 1..Len(got) /\ Len(got) \in Nat
         /\ \A i \in DOMAIN got :
              /\ got[i] \in Given
              /\ got[i].credential \in Credential /\ got[i].secret \in Secret
<1>1. \A i \in DOMAIN got : got[i] \in Given
  OBVIOUS
<1>2. \A r \in Given : r.credential \in Credential /\ r.secret \in Secret
  BY DEF Given
<1>3. QED
  BY <1>1, <1>2

\* What a call carries is made of its own fields: the histories may only grow.
LEMMA OwnedGrows ==
  ASSUME NEW x, NEW g, NEW h, NEW b, NEW w, NEW h2, NEW b2,
         x \in CallState, Owned(x, g, h, b, w),
         h \in [Credential -> SUBSET Entry], h2 \in [Credential -> SUBSET Entry],
         b \in [Field -> SUBSET Value], b2 \in [Field -> SUBSET Value],
         \A k \in Credential : h[k] \subseteq h2[k],
         \A f \in Field : b[f] \subseteq b2[f]
  PROVE  Owned(x, g, h2, b2, w)
<1>1. Staged(x, g, w) /\ Carried(x, g) /\ Minted(x, w)
  BY DEF Owned
<1>2. \A f \in Field : FromBound(x, b, f) => FromBound(x, b2, f)
  BY DEF FromBound
<1>3. \A e \in Field : Resolved(x, b, e) => Resolved(x, b2, e)
  BY <1>2 DEF Resolved
<1>4. Projected(x, b2)
  <2>1. CASE x.phase = "projecting"
    <3>1. Fields(x.op) \in Seq(Field)
      BY <1>1, <2>1, FieldsCover DEF Staged
    <3>2. \A i \in 1..x.read : i \in 1..Len(Fields(x.op))
      BY <2>1, <3>1 DEF Owned, Projected, CallState
    <3>3. \A i \in 1..x.read : Fields(x.op)[i] \in Field
      BY <3>1, <3>2
    <3>4. QED
      BY <2>1, <3>3, <1>2 DEF Owned, Projected
  <2>2. CASE x.phase \notin {"new", "projecting"}
    <3>1. Range(EndpointsOf[x.op]) \subseteq Field /\ Joined \subseteq Field
      BY <1>1, <2>2, ExecutionAssumption DEF Staged, Range, Field
    <3>2. QED
      BY <2>2, <3>1, <1>2, <1>3 DEF Owned, Projected
  <2>3. QED
    BY <2>1, <2>2 DEF Projected
<1>5. Assembled(x, h2)
  <2>1. x.phase # "new" => x.op \in Operation
    BY <1>1 DEF Staged
  <2>2. \A j \in Nat : x.op \in Operation /\ j \in DOMAIN Alternatives[x.op] /\ XLacked(x, h, j)
                      => XLacked(x, h2, j)
    BY AlternativesType DEF XLacked
  <2>3. \A i \in DOMAIN x.got : x.got[i].credential \in Credential
    <3>1. x.got \in Seq(Given)
      BY DEF CallState
    <3>2. QED
      BY <3>1, GivenType
  <2>4. Gathered(x, h2)
    BY <2>3 DEF Owned, Assembled, Gathered
  <2>5. \A j \in 1..(x.alternative - 1) : XLacked(x, h2, j)
    <3>1. CASE x.alternative = 1
      BY <3>1
    <3>2. CASE x.alternative # 1
      <4>1. x.op \in Operation /\ x.alternative \in DOMAIN Alternatives[x.op]
        BY <3>2, <1>1, <2>1 DEF Owned, Assembled, Staged, Planning
      <4>2. DOMAIN Alternatives[x.op] = 1..Len(Alternatives[x.op]) /\ x.alternative \in Nat
        BY <4>1, AlternativesType DEF CallState
      <4>3. \A j \in 1..(x.alternative - 1) : j \in DOMAIN Alternatives[x.op] /\ j \in Nat
        BY <4>1, <4>2
      <4>4. QED
        BY <4>1, <4>3, <2>2 DEF Owned, Assembled
    <3>3. QED
      BY <3>1, <3>2
  <2>6. x.answer = "MissingCredential" =>
           \A j \in DOMAIN Alternatives[x.op] : XLacked(x, h2, j)
    <3>1. SUFFICES ASSUME x.answer = "MissingCredential", NEW j \in DOMAIN Alternatives[x.op]
                   PROVE  XLacked(x, h2, j)
      OBVIOUS
    <3>2. x.op \in Operation
      BY <3>1, <1>1, <2>1, ExecutionAssumption DEF Staged, Reply
    <3>3. j \in Nat
      BY <3>2, AlternativesType
    <3>4. QED
      BY <3>1, <3>2, <3>3, <2>2 DEF Owned, Assembled
  <2>7. QED
    BY <2>4, <2>5, <2>6 DEF Owned, Assembled
<1>6. QED
  BY <1>1, <1>4, <1>5 DEF Owned

-----------------------------------------------------------------------------
(* Steps of one call *)

\* A call's URL and credentials depend on four fields of its record.
LEMMA SameView ==
  ASSUME NEW x, NEW y, y.op = x.op, y.settings = x.settings, y.got = x.got,
         y.alternative = x.alternative
  PROVE  /\ XUrl(y) = XUrl(x)
         /\ XRedactions(y) = XRedactions(x)
         /\ XCredentials(y) = XCredentials(x)
         /\ XMechanism(y) = XMechanism(x)
         /\ \A h, j : XLacked(y, h, j) = XLacked(x, h, j)
         /\ \A b, f : FromBound(y, b, f) = FromBound(x, b, f)
         /\ \A b, f : Resolved(y, b, f) = Resolved(x, b, f)
         /\ \A h : Gathered(y, h) = Gathered(x, h)
<1>1. XUrl(y) = XUrl(x)
  BY DEF XUrl
<1>2. \A g : XAcquired(y, g) = XAcquired(x, g) /\ XPlaced(y, g) = XPlaced(x, g)
  BY DEF XAcquired, XPlaced
<1>3. XRedactions(y) = XRedactions(x) /\ XCredentials(y) = XCredentials(x)
  BY <1>2 DEF XRedactions, XCredentials
<1>4. XMechanism(y) = XMechanism(x) /\ \A h, j : XLacked(y, h, j) = XLacked(x, h, j)
  BY DEF XMechanism, XLacked
<1>5. \A b, f : FromBound(y, b, f) = FromBound(x, b, f)
  BY DEF FromBound
<1>6. \A b, f : Resolved(y, b, f) = Resolved(x, b, f)
  BY <1>5 DEF Resolved
<1>7. \A h : Gathered(y, h) = Gathered(x, h)
  BY <1>4 DEF Gathered
<1>8. QED
  BY <1>1, <1>3, <1>4, <1>5, <1>6, <1>7

\* A call that ends without its request or handle says nothing new.
LEMMA EndedOwned ==
  ASSUME NEW x \in CallState, NEW g, NEW h, NEW b, NEW w, Owned(x, g, h, b, w),
         x.phase \notin Planning, NEW r \in Reply, r # "Handle", r # "MissingCredential"
  PROVE  /\ [x EXCEPT !.phase = "done", !.answer = r] \in CallState
         /\ Owned([x EXCEPT !.phase = "done", !.answer = r], g, h, b, w)
<1> DEFINE y == [x EXCEPT !.phase = "done", !.answer = r]
<1>1. y \in CallState
  BY DEF CallState, Phase
<1>2. /\ y.phase = "done" /\ y.answer = r /\ y.tenant = x.tenant /\ y.op = x.op
      /\ y.read = x.read /\ y.settings = x.settings /\ y.alternative = x.alternative
      /\ y.got = x.got /\ y.redactor = x.redactor /\ y.sent = x.sent
      /\ y.minted = x.minted /\ y.shows = x.shows
  BY DEF CallState
<1> HIDE DEF y
<1>3. Staged(y, g, w)
  BY <1>2 DEF Owned, Staged, Planning, Unsent
<1>4. Projected(y, b)
  BY <1>2, SameView DEF Owned, Projected, Planning
<1>5. Assembled(y, h)
  BY <1>2, SameView DEF Owned, Assembled, XLacked
<1>6. Carried(y, g)
  BY <1>2, SameView DEF Owned, Carried
<1>7. Minted(y, w)
  BY <1>2 DEF Owned, Minted
<1>8. Owned(y, g, h, b, w)
  BY <1>3, <1>4, <1>5, <1>6, <1>7 DEF Owned
<1>9. QED
  BY <1>1, <1>8 DEF y

\* One call moves to the record y; the others see at most their histories grow.
LEMMA Preserved ==
  ASSUME IInv, NEW c \in Call, NEW y \in CallState, call' = [call EXCEPT ![c] = y],
         settings' \in [Tenant -> [Field -> Value]],
         secrets' \in [Tenant -> [Credential -> Entry]],
         writes' \in 0..MaxWrites,
         gated' \in [Call -> Url \cup {None}],
         held' \in [Call -> [Credential -> SUBSET Entry]],
         bound' \in [Call -> [Field -> SUBSET Value]],
         wrote' \in [Call -> Entry],
         \A d \in Call \ {c} :
           /\ gated'[d] = gated[d] /\ wrote'[d] = wrote[d]
           /\ \A k \in Credential : held[d][k] \subseteq held'[d][k]
           /\ \A f \in Field : bound[d][f] \subseteq bound'[d][f]
           /\ Watched(d)',
         Owned(y, gated'[c], held'[c], bound'[c], wrote'[c]), Watched(c)'
  PROVE  IInv'
<1>1. call \in [Call -> CallState]
  BY DEF IInv, ExecutionTypeOK
<1>2. call' \in [Call -> CallState] /\ call'[c] = y /\ \A d \in Call \ {c} : call'[d] = call[d]
  BY <1>1
<1>3. ExecutionTypeOK'
  BY <1>2 DEF ExecutionTypeOK
<1>4. ASSUME NEW d \in Call \ {c} PROVE CallInv(d)'
  <2>1. Owned(call[d], gated[d], held[d], bound[d], wrote[d])
    BY DEF IInv, CallInv
  <2>2. call[d] \in CallState /\ call'[d] = call[d]
    BY <1>1, <1>2
  <2>3. /\ held[d] \in [Credential -> SUBSET Entry] /\ held'[d] \in [Credential -> SUBSET Entry]
        /\ bound[d] \in [Field -> SUBSET Value] /\ bound'[d] \in [Field -> SUBSET Value]
    BY DEF IInv, ExecutionTypeOK
  <2>4. /\ \A k \in Credential : held[d][k] \subseteq held'[d][k]
        /\ \A f \in Field : bound[d][f] \subseteq bound'[d][f]
    OBVIOUS
  <2>5. Owned(call[d], gated[d], held'[d], bound'[d], wrote[d])
    <3> DEFINE x == call[d]
               g == gated[d]
               h == held[d]
               b == bound[d]
               w == wrote[d]
               h2 == held'[d]
               b2 == bound'[d]
    <3>1. /\ x \in CallState /\ Owned(x, g, h, b, w)
          /\ h \in [Credential -> SUBSET Entry] /\ h2 \in [Credential -> SUBSET Entry]
          /\ b \in [Field -> SUBSET Value] /\ b2 \in [Field -> SUBSET Value]
          /\ \A k \in Credential : h[k] \subseteq h2[k]
          /\ \A f \in Field : b[f] \subseteq b2[f]
      BY <2>1, <2>2, <2>3, <2>4
    <3> HIDE DEF x, g, h, b, w, h2, b2
    <3>2. Owned(x, g, h2, b2, w)
      BY ZenonT(20), <3>1, OwnedGrows
    <3>3. QED
      BY <3>2 DEF x, g, h2, b2, w
  <2>6. QED
    BY <2>2, <2>5 DEF CallInv
<1>5. CallInv(c)'
  BY <1>2 DEF CallInv
<1>6. QED
  BY <1>3, <1>4, <1>5 DEF IInv

\* The common case: nothing but the call's own record changes.
LEMMA LocalStep ==
  ASSUME IInv, NEW c \in Call, NEW y \in CallState, call' = [call EXCEPT ![c] = y],
         UNCHANGED <<host, writes, histories>>,
         Owned(y, gated[c], held[c], bound[c], wrote[c]),
         \/ y.phase \notin {"projecting", "assembling"}
         \/ y.phase = call[c].phase /\ y.tenant = call[c].tenant
  PROVE  IInv'
<1>0. /\ settings' = settings /\ secrets' = secrets /\ writes' = writes /\ gated' = gated
      /\ held' = held /\ bound' = bound /\ wrote' = wrote
  BY DEF host, histories
<1>1. call \in [Call -> CallState]
  BY DEF IInv, ExecutionTypeOK
<1>2. call'[c] = y /\ \A d \in Call \ {c} : call'[d] = call[d]
  BY <1>1
<1>3. \A d \in Call : Watched(d)
  BY DEF IInv, CallInv
<1>4. \A d \in Call : Watched(d)'
  BY <1>0, <1>2, <1>3 DEF Watched
<1>5. Owned(y, gated'[c], held'[c], bound'[c], wrote'[c])
  BY <1>0
<1>6. /\ settings' \in [Tenant -> [Field -> Value]]
      /\ secrets' \in [Tenant -> [Credential -> Entry]]
      /\ writes' \in 0..MaxWrites
      /\ gated' \in [Call -> Url \cup {None}]
      /\ held' \in [Call -> [Credential -> SUBSET Entry]]
      /\ bound' \in [Call -> [Field -> SUBSET Value]]
      /\ wrote' \in [Call -> Entry]
  BY <1>0 DEF IInv, ExecutionTypeOK
<1>7. \A d \in Call \ {c} :
        /\ gated'[d] = gated[d] /\ wrote'[d] = wrote[d]
        /\ \A k \in Credential : held[d][k] \subseteq held'[d][k]
        /\ \A f \in Field : bound[d][f] \subseteq bound'[d][f]
        /\ Watched(d)'
  BY <1>0, <1>4
<1>8. QED
  BY <1>4, <1>5, <1>6, <1>7, Preserved

\* A refusal, whatever it is about.
LEMMA RefuseStep ==
  ASSUME IInv, NEW c \in Call, call[c].phase \notin Planning,
         NEW r \in Reply, r # "Handle", r # "MissingCredential", RefuseCall(c, r),
         UNCHANGED <<host, writes, histories>>
  PROVE  IInv'
<1> DEFINE y == [call[c] EXCEPT !.phase = "done", !.answer = r]
<1>1. call \in [Call -> CallState] /\ call[c] \in CallState
  BY DEF IInv, ExecutionTypeOK
<1>2. call' = [call EXCEPT ![c] = y]
  BY <1>1 DEF RefuseCall
<1>3. Owned(call[c], gated[c], held[c], bound[c], wrote[c])
  BY DEF IInv, CallInv
<1>4. y \in CallState /\ Owned(y, gated[c], held[c], bound[c], wrote[c])
  BY <1>1, <1>3, EndedOwned
<1>5. y.phase = "done"
  BY <1>1 DEF CallState
<1> HIDE DEF y
<1>6. QED
  BY <1>2, <1>4, <1>5, LocalStep

\* A call that waits and is dropped, or answers its handle.
LEMMA PhaseOwned ==
  ASSUME NEW x \in CallState, NEW g, NEW h, NEW b, NEW w, Owned(x, g, h, b, w),
         x.phase \notin Planning
  PROVE  /\ [x EXCEPT !.phase = "dropped"] \in CallState
         /\ x.phase # "done" => Owned([x EXCEPT !.phase = "dropped"], g, h, b, w)
         /\ [x EXCEPT !.phase = "done", !.answer = "Handle"] \in CallState
         /\ x.phase = "minted" => Owned([x EXCEPT !.phase = "done", !.answer = "Handle"], g, h, b, w)
<1> DEFINE y == [x EXCEPT !.phase = "dropped"]
           z == [x EXCEPT !.phase = "done", !.answer = "Handle"]
<1>1. y \in CallState /\ z \in CallState
  BY DEF CallState, Phase, Reply
<1>2. /\ y.phase = "dropped" /\ y.answer = x.answer /\ y.tenant = x.tenant /\ y.op = x.op
      /\ y.read = x.read /\ y.settings = x.settings /\ y.alternative = x.alternative
      /\ y.got = x.got /\ y.redactor = x.redactor /\ y.sent = x.sent
      /\ y.minted = x.minted /\ y.shows = x.shows
  BY DEF CallState
<1>3. /\ z.phase = "done" /\ z.answer = "Handle" /\ z.tenant = x.tenant /\ z.op = x.op
      /\ z.read = x.read /\ z.settings = x.settings /\ z.alternative = x.alternative
      /\ z.got = x.got /\ z.redactor = x.redactor /\ z.sent = x.sent
      /\ z.minted = x.minted /\ z.shows = x.shows
  BY DEF CallState
<1> HIDE DEF y, z
<1>4. ASSUME x.phase # "done" PROVE Owned(y, g, h, b, w)
  <2>1. Staged(y, g, w)
    BY <1>2, <1>4 DEF Owned, Staged, Planning, Unsent
  <2>2. Projected(y, b) /\ Assembled(y, h) /\ Carried(y, g)
    BY <1>2, SameView DEF Owned, Projected, Assembled, Carried, Planning
  <2>3. Minted(y, w)
    BY <1>2, <1>4, ExecutionAssumption DEF Owned, Minted, Staged, Reply
  <2>4. QED
    BY <2>1, <2>2, <2>3 DEF Owned
<1>5. ASSUME x.phase = "minted" PROVE Owned(z, g, h, b, w)
  <2>1. Staged(z, g, w)
    BY <1>3, <1>5 DEF Owned, Staged, Planning, Unsent
  <2>2. Projected(z, b) /\ Assembled(z, h) /\ Carried(z, g)
    BY <1>3, SameView DEF Owned, Projected, Assembled, Carried, Planning
  <2>3. Minted(z, w)
    BY <1>3, <1>5 DEF Owned, Minted
  <2>4. QED
    BY <2>1, <2>2, <2>3 DEF Owned
<1>6. QED
  BY <1>1, <1>4, <1>5 DEF y, z

LEMMA DropStep ==
  ASSUME IInv, NEW c \in Call, Drop(c)
  PROVE  IInv'
<1> DEFINE y == [call[c] EXCEPT !.phase = "dropped"]
<1>1. call \in [Call -> CallState] /\ call[c] \in CallState
  BY DEF IInv, ExecutionTypeOK
<1>2. call' = [call EXCEPT ![c] = y] /\ UNCHANGED <<host, writes, histories>>
  BY <1>1 DEF Drop
<1>3. Owned(call[c], gated[c], held[c], bound[c], wrote[c])
  BY DEF IInv, CallInv
<1>4. y \in CallState /\ Owned(y, gated[c], held[c], bound[c], wrote[c])
  BY <1>1, <1>3, PhaseOwned DEF Drop, Planning
<1>5. y.phase = "dropped"
  BY <1>1 DEF CallState
<1> HIDE DEF y
<1>6. QED
  BY <1>2, <1>4, <1>5, LocalStep

LEMMA AnswerStep ==
  ASSUME IInv, NEW c \in Call, AnswerHandle(c)
  PROVE  IInv'
<1> DEFINE y == [call[c] EXCEPT !.phase = "done", !.answer = "Handle"]
<1>1. call \in [Call -> CallState] /\ call[c] \in CallState
  BY DEF IInv, ExecutionTypeOK
<1>2. call' = [call EXCEPT ![c] = y] /\ UNCHANGED <<host, writes, histories>>
  BY <1>1 DEF AnswerHandle
<1>3. Owned(call[c], gated[c], held[c], bound[c], wrote[c])
  BY DEF IInv, CallInv
<1>4. y \in CallState /\ Owned(y, gated[c], held[c], bound[c], wrote[c])
  BY <1>1, <1>3, PhaseOwned DEF AnswerHandle, Planning
<1>5. y.phase = "done"
  BY <1>1 DEF CallState
<1> HIDE DEF y
<1>6. QED
  BY <1>2, <1>4, <1>5, LocalStep

-----------------------------------------------------------------------------
(* Projecting *)

\* Before it assembles, a call owns what its bindings allow.
LEMMA PlanningOwned ==
  ASSUME NEW y \in CallState, NEW g, NEW h, NEW b, NEW w,
         y.phase \in Planning, Staged(y, g, w), g = None \/ g = XUrl(y), Projected(y, b)
  PROVE  Owned(y, g, h, b, w)
<1>1. /\ y.alternative = 1 /\ y.got = <<>> /\ y.sent = None /\ w = None /\ y.answer = None
      /\ y.phase \in {"new", "projecting", "projected"}
  BY DEF Staged, Planning, Unsent
<1>2. None \notin Reply
  BY ExecutionAssumption
<1>3. y.answer # "MissingCredential" /\ y.answer # "Handle"
  BY <1>1, <1>2 DEF Reply
<1>4. Gathered(y, h)
  BY <1>1 DEF Gathered
<1>5. Assembled(y, h)
  BY <1>1, <1>3, <1>4 DEF Assembled
<1>6. Carried(y, g)
  BY <1>1 DEF Carried
<1>7. Minted(y, w)
  BY <1>1, <1>3 DEF Minted
<1>8. QED
  BY <1>5, <1>6, <1>7 DEF Owned

LEMMA InitInv == ExecutionInit => IInv
<1> SUFFICES ASSUME ExecutionInit PROVE IInv
  OBVIOUS
<1>1. /\ New \in CallState /\ New.phase = "new" /\ New.read = 0 /\ New.alternative = 1
      /\ New.got = <<>> /\ New.sent = None /\ New.answer = None /\ New.shows = {}
  <2>1. <<>> \in Seq(Given)
    OBVIOUS
  <2>2. [f \in Field |-> None] \in [Field -> Value]
    BY DEF Value
  <2>3. QED
    BY <2>1, <2>2 DEF New, CallState, Phase, Entry
<1>2. ExecutionTypeOK
  BY <1>1, ExecutionAssumption DEF ExecutionInit, ExecutionTypeOK, Entry
<1>3. ASSUME NEW c \in Call PROVE CallInv(c)
  <2>1. call[c] = New /\ gated[c] = None /\ wrote[c] = None
    BY <1>3 DEF ExecutionInit
  <2>2. Staged(New, None, None)
    BY <1>1 DEF Staged, Planning, Unsent
  <2>3. Projected(New, bound[c])
    BY <1>1 DEF Projected
  <2>4. Owned(New, None, held[c], bound[c], None)
    BY <1>1, <2>2, <2>3, PlanningOwned DEF Planning
  <2>5. QED
    BY <1>1, <2>1, <2>4 DEF CallInv, Watched
<1>4. QED
  BY <1>2, <1>3 DEF IInv

LEMMA ReadFieldStep ==
  ASSUME IInv, NEW c \in Call, ReadField(c)
  PROVE  IInv'
<1> DEFINE x == call[c]
           f == Fields(x.op)[x.read + 1]
           r == [x.settings EXCEPT ![f] = Bound(x.tenant, f)]
           n == x.read + 1
           y == [x EXCEPT !.read = n, !.settings = r]
<1>1. call \in [Call -> CallState] /\ x \in CallState
  BY DEF IInv, ExecutionTypeOK
<1>2. call' = [call EXCEPT ![c] = y] /\ UNCHANGED <<host, writes, histories>>
  BY <1>1 DEF ReadField
<1>3. /\ x.phase = "projecting" /\ x.read < Len(Fields(x.op)) /\ x.read \in Nat
      /\ x.settings \in [Field -> Value]
  BY <1>1 DEF ReadField, CallState
<1>4. Owned(x, gated[c], held[c], bound[c], wrote[c]) /\ Watched(c)
  BY DEF IInv, CallInv
<1>5. x.op \in Operation /\ x.tenant \in Tenant
  BY <1>3, <1>4 DEF Owned, Staged
<1>6. Fields(x.op) \in Seq(Field) /\ f \in Field
  <2>1. Fields(x.op) \in Seq(Field)
    BY <1>5, FieldsCover
  <2>2. QED
    BY <2>1, <1>3
<1>7. settings[x.tenant][f] \in bound[c][f] /\ settings[x.tenant][f] \in Value
  BY <1>3, <1>4, <1>5, <1>6 DEF Watched, IInv, ExecutionTypeOK
<1>8. Bound(x.tenant, f) \in Value
  BY <1>7 DEF Bound, Value
<1>9. /\ r \in [Field -> Value]
       /\ \A e \in Field : r[e] = IF e = f THEN Bound(x.tenant, f) ELSE x.settings[e]
  BY <1>3, <1>6, <1>8
<1>10. n = x.read + 1 /\ n \in Nat
  BY <1>3
<1> HIDE DEF r, n
<1>11. /\ y \in CallState /\ y.phase = x.phase /\ y.tenant = x.tenant /\ y.op = x.op
       /\ y.read = n /\ y.alternative = x.alternative /\ y.got = x.got
       /\ y.sent = x.sent /\ y.answer = x.answer /\ y.shows = x.shows
       /\ y.settings = r
  BY <1>1, <1>9, <1>10 DEF CallState
<1> HIDE DEF y
<1>12. FromBound(y, bound[c], f)
  BY <1>6, <1>7, <1>11, <1>9 DEF FromBound, Bound
<1>13. ASSUME NEW i \in 1..y.read PROVE FromBound(y, bound[c], Fields(x.op)[i])
  <2>1. CASE Fields(x.op)[i] = f
    BY <2>1, <1>12
  <2>2. CASE Fields(x.op)[i] # f
    <3>1. i \in 1..x.read
      BY <2>2, <1>3, <1>10, <1>11
    <3>2. FromBound(x, bound[c], Fields(x.op)[i])
      BY <3>1, <1>3, <1>4 DEF Owned, Projected
    <3>3. Fields(x.op)[i] \in Field
      BY <3>1, <1>3, <1>6
    <3>4. QED
      BY <2>2, <3>2, <3>3, <1>11, <1>9 DEF FromBound
  <2>3. QED
    BY <2>1, <2>2
<1>14. Projected(y, bound[c])
  BY <1>3, <1>6, <1>10, <1>11, <1>13 DEF Projected
<1>15. Staged(y, gated[c], wrote[c])
  BY <1>3, <1>4, <1>11 DEF Owned, Staged, Planning, Unsent
<1>16. gated[c] = None
  BY <1>3, <1>4 DEF Owned, Staged
<1>17. Owned(y, gated[c], held[c], bound[c], wrote[c])
  BY <1>3, <1>11, <1>14, <1>15, <1>16, PlanningOwned DEF Planning
<1>18. QED
  BY <1>2, <1>11, <1>17, LocalStep

LEMMA ProjectStep ==
  ASSUME IInv, NEW c \in Call, Project(c)
  PROVE  IInv'
<1> DEFINE x == call[c]
           r == Defaulted(x.settings)
           y == [x EXCEPT !.phase = "projected", !.settings = r]
<1>1. call \in [Call -> CallState] /\ x \in CallState
  BY DEF IInv, ExecutionTypeOK
<1>2. call' = [call EXCEPT ![c] = y] /\ UNCHANGED <<host, writes, histories>>
  BY <1>1 DEF Project
<1>3. /\ x.phase = "projecting" /\ x.read = Len(Fields(x.op)) /\ x.settings \in [Field -> Value]
  BY <1>1 DEF Project, CallState
<1>4. Owned(x, gated[c], held[c], bound[c], wrote[c])
  BY DEF IInv, CallInv
<1>5. x.op \in Operation /\ x.tenant \in Tenant
  BY <1>3, <1>4 DEF Owned, Staged
<1>6. Default \in [Endpoint -> Value]
  BY ExecutionAssumption DEF Value
<1>7. /\ r \in [Field -> Value]
      /\ \A f \in Field : r[f] = IF f \in Endpoint /\ x.settings[f] = None THEN Default[f]
                                 ELSE x.settings[f]
  BY <1>3, <1>6 DEF Defaulted, Field
<1> HIDE DEF r
<1>8. /\ y \in CallState /\ y.phase = "projected" /\ y.tenant = x.tenant /\ y.op = x.op
      /\ y.read = x.read /\ y.alternative = x.alternative /\ y.got = x.got
      /\ y.sent = x.sent /\ y.answer = x.answer /\ y.shows = x.shows
      /\ y.settings = r
  BY <1>1, <1>7 DEF CallState, Phase
<1> HIDE DEF y
<1>9. \A i \in 1..Len(Fields(x.op)) : FromBound(x, bound[c], Fields(x.op)[i])
  BY <1>3, <1>4 DEF Owned, Projected
<1>10. ASSUME NEW e \in Range(EndpointsOf[x.op]) PROVE Resolved(y, bound[c], e)
  <2>1. FromBound(x, bound[c], e)
    BY <1>5, <1>9, FieldsCover
  <2>2. e \in Endpoint /\ e \in Field
    BY <1>5, ExecutionAssumption DEF Range, Field
  <2>3. CASE x.settings[e] = None
    <3>1. y.settings[e] = Default[e]
      BY <2>2, <2>3, <1>7, <1>8
    <3>2. bound[c][e] \cap {None, Blank} # {}
      BY <2>1, <2>3 DEF FromBound
    <3>3. QED
      BY <3>1, <3>2 DEF Resolved
  <2>4. CASE x.settings[e] # None
    <3>1. y.settings[e] = x.settings[e]
      BY <2>2, <2>4, <1>7, <1>8
    <3>2. QED
      BY <3>1, <2>1 DEF Resolved, FromBound
  <2>5. QED
    BY <2>3, <2>4
<1>11. ASSUME NEW k \in Joined PROVE FromBound(y, bound[c], k)
  <2>1. FromBound(x, bound[c], k)
    BY <1>5, <1>9, FieldsCover
  <2>2. k \in Field /\ k \notin Endpoint
    BY ExecutionAssumption DEF Joined, Range, Field
  <2>3. y.settings[k] = x.settings[k]
    BY <2>2, <1>7, <1>8
  <2>4. QED
    BY <2>1, <2>3 DEF FromBound
<1>12. Projected(y, bound[c])
  BY <1>8, <1>10, <1>11 DEF Projected
<1>13. Staged(y, gated[c], wrote[c]) /\ gated[c] = None
  BY <1>3, <1>4, <1>8 DEF Owned, Staged, Planning, Unsent
<1>14. Owned(y, gated[c], held[c], bound[c], wrote[c])
  BY <1>8, <1>12, <1>13, PlanningOwned DEF Planning
<1>15. QED
  BY <1>2, <1>8, <1>14, LocalStep

LEMMA UrlType ==
  ASSUME NEW x \in CallState, x.op \in Operation, XUrl(x) # None
  PROVE  XUrl(x) \in Url
<1> DEFINE es == Range(EndpointsOf[x.op])
           u == [e \in es |-> x.settings[e]]
<1>1. es \subseteq Endpoint /\ es \in SUBSET Endpoint
  BY ExecutionAssumption DEF Range
<1>2. (\A e \in es : Usable(e, x.settings[e])) /\ XUrl(x) = u
  BY DEF XUrl
<1>3. \A e \in es : x.settings[e] \in Setting
  <2>1. x.settings \in [Field -> Value]
    BY DEF CallState
  <2>2. QED
    BY <1>1, <1>2, <2>1 DEF Usable, Field, Value
<1>4. u \in [es -> Setting]
  BY <1>3
<1>5. QED
  BY <1>1, <1>2, <1>4 DEF Url

LEMMA GateStep ==
  ASSUME IInv, NEW c \in Call, Gate(c)
  PROVE  IInv'
<1> DEFINE x == call[c]
<1>1. call \in [Call -> CallState] /\ x \in CallState
  BY DEF IInv, ExecutionTypeOK
<1>2. call' = [call EXCEPT ![c] = x]
  BY <1>1 DEF Gate
<1>3. Owned(x, gated[c], held[c], bound[c], wrote[c])
  BY DEF IInv, CallInv
<1>4. /\ x.phase = "projected" /\ XUrl(x) # None
      /\ gated' = [gated EXCEPT ![c] = XUrl(x)]
      /\ settings' = settings /\ secrets' = secrets /\ writes' = writes
      /\ held' = held /\ bound' = bound /\ wrote' = wrote /\ call' = call
  BY Over DEF Gate, host
<1>5. x.op \in Operation
  BY <1>3, <1>4 DEF Owned, Staged
<1>6. XUrl(x) \in Url
  BY <1>1, <1>4, <1>5, UrlType
<1>7. gated' \in [Call -> Url \cup {None}] /\ gated'[c] = XUrl(x)
      /\ \A d \in Call \ {c} : gated'[d] = gated[d]
  BY <1>4, <1>6 DEF IInv, ExecutionTypeOK
<1>8. Staged(x, XUrl(x), wrote[c]) /\ Projected(x, bound[c])
  BY <1>3, <1>4 DEF Owned, Staged
<1>9. Owned(x, XUrl(x), held[c], bound[c], wrote[c])
  BY <1>1, <1>4, <1>8, PlanningOwned DEF Planning
<1>10. \A d \in Call : Watched(d)'
  BY <1>4 DEF IInv, CallInv, Watched
<1>11. /\ settings' \in [Tenant -> [Field -> Value]]
       /\ secrets' \in [Tenant -> [Credential -> Entry]]
       /\ writes' \in 0..MaxWrites
       /\ held' \in [Call -> [Credential -> SUBSET Entry]]
       /\ bound' \in [Call -> [Field -> SUBSET Value]]
       /\ wrote' \in [Call -> Entry]
  BY <1>4 DEF IInv, ExecutionTypeOK
<1>12. Owned(x, gated'[c], held'[c], bound'[c], wrote'[c])
  BY <1>4, <1>7, <1>9
<1>13. QED
  BY <1>1, <1>2, <1>4, <1>7, <1>10, <1>11, <1>12, Preserved

LEMMA BeginStep ==
  ASSUME IInv, NEW c \in Call, NEW t \in Tenant, NEW op \in Operation, Begin(c, t, op)
  PROVE  IInv'
<1> DEFINE x == call[c]
           b == [f \in Field |-> {settings[t][f]}]
           y == [x EXCEPT !.phase = "projecting", !.tenant = t, !.op = op]
<1>1. call \in [Call -> CallState] /\ x \in CallState
  BY DEF IInv, ExecutionTypeOK
<1>2. /\ call' = [call EXCEPT ![c] = y] /\ bound' = [bound EXCEPT ![c] = b]
      /\ settings' = settings /\ secrets' = secrets /\ writes' = writes
      /\ gated' = gated /\ held' = held /\ wrote' = wrote
  BY <1>1 DEF Begin, host
<1>3. x.phase = "new" /\ Owned(x, gated[c], held[c], bound[c], wrote[c])
  BY DEF Begin, IInv, CallInv
<1>4. /\ y \in CallState /\ y.phase = "projecting" /\ y.tenant = t /\ y.op = op
      /\ y.read = x.read /\ y.alternative = x.alternative /\ y.got = x.got
      /\ y.sent = x.sent /\ y.answer = x.answer /\ y.shows = x.shows
      /\ y.settings = x.settings
  BY <1>1 DEF CallState, Phase
<1> HIDE DEF y
<1>5. Staged(y, gated[c], wrote[c]) /\ gated[c] = None
  BY <1>3, <1>4 DEF Owned, Staged, Planning, Unsent
<1>6. Projected(y, b)
  <2>1. x.read = 0 /\ Len(Fields(op)) \in Nat
    BY <1>3, FieldsCover DEF Owned, Staged
  <2>2. QED
    BY <1>4, <2>1 DEF Projected
<1>7. Owned(y, gated[c], held[c], b, wrote[c])
  BY <1>4, <1>5, <1>6, PlanningOwned DEF Planning
<1>8. b \in [Field -> SUBSET Value] /\ \A f \in Field : settings[t][f] \in b[f]
  BY DEF IInv, ExecutionTypeOK
<1> HIDE DEF b
<1>9. /\ bound' \in [Call -> [Field -> SUBSET Value]] /\ bound'[c] = b
      /\ \A d \in Call \ {c} : bound'[d] = bound[d]
  BY <1>2, <1>8 DEF IInv, ExecutionTypeOK
<1>10. call'[c] = y /\ \A d \in Call \ {c} : call'[d] = call[d]
  BY <1>1, <1>2
<1>11. Watched(c)'
  BY <1>2, <1>4, <1>8, <1>9, <1>10 DEF Watched
<1>12. \A d \in Call \ {c} :
         /\ gated'[d] = gated[d] /\ wrote'[d] = wrote[d]
         /\ \A k \in Credential : held[d][k] \subseteq held'[d][k]
         /\ \A f \in Field : bound[d][f] \subseteq bound'[d][f]
         /\ Watched(d)'
  BY <1>2, <1>9, <1>10 DEF Watched, IInv, CallInv
<1>13. /\ settings' \in [Tenant -> [Field -> Value]]
       /\ secrets' \in [Tenant -> [Credential -> Entry]]
       /\ writes' \in 0..MaxWrites
       /\ gated' \in [Call -> Url \cup {None}]
       /\ held' \in [Call -> [Credential -> SUBSET Entry]]
       /\ wrote' \in [Call -> Entry]
  BY <1>2 DEF IInv, ExecutionTypeOK
<1>14. Owned(y, gated'[c], held'[c], bound'[c], wrote'[c])
  BY <1>2, <1>7, <1>9
<1>15. QED
  BY <1>2, <1>4, <1>9, <1>11, <1>12, <1>13, <1>14, Preserved

-----------------------------------------------------------------------------
(* Assembling *)

LEMMA ExecuteStep ==
  ASSUME IInv, NEW c \in Call, Execute(c)
  PROVE  IInv'
<1> DEFINE x == call[c]
           h == [k \in Credential |-> {secrets[x.tenant][k]}]
           p == IF Alternatives[x.op] = <<>> THEN "assembled" ELSE "assembling"
           y == [x EXCEPT !.phase = p]
<1>1. call \in [Call -> CallState] /\ x \in CallState
  BY DEF IInv, ExecutionTypeOK
<1>2. /\ call' = [call EXCEPT ![c] = y] /\ held' = [held EXCEPT ![c] = h]
      /\ settings' = settings /\ secrets' = secrets /\ writes' = writes
      /\ gated' = gated /\ bound' = bound /\ wrote' = wrote
  BY <1>1 DEF Execute, host
<1>3. x.phase = "projected" /\ Owned(x, gated[c], held[c], bound[c], wrote[c])
  BY DEF Execute, IInv, CallInv
<1>4. p \in {"assembled", "assembling"} /\ (p = "assembled" <=> Alternatives[x.op] = <<>>)
  OBVIOUS
<1> HIDE DEF p
<1>5. /\ y \in CallState /\ y.phase = p /\ y.tenant = x.tenant /\ y.op = x.op
      /\ y.read = x.read /\ y.alternative = x.alternative /\ y.got = x.got
      /\ y.sent = x.sent /\ y.answer = x.answer /\ y.shows = x.shows
      /\ y.settings = x.settings /\ y.redactor = x.redactor /\ y.minted = x.minted
  BY <1>1, <1>4 DEF CallState, Phase
<1> HIDE DEF y
<1>6. /\ x.tenant \in Tenant /\ x.op \in Operation /\ x.alternative = 1 /\ x.got = <<>>
      /\ x.sent = None /\ wrote[c] = None /\ x.answer = None
  BY <1>3 DEF Owned, Staged, Planning, Unsent
<1>7. x.answer # "MissingCredential" /\ x.answer # "Handle"
  BY <1>6, ExecutionAssumption DEF Reply
<1>8. Staged(y, gated[c], wrote[c])
  BY <1>3, <1>4, <1>5, <1>6 DEF Owned, Staged, Planning, Unsent
<1>9. Projected(y, bound[c])
  BY <1>3, <1>4, <1>5, SameView DEF Owned, Projected
<1>10. Assembled(y, h)
  <2>1. y.alternative = 1 /\ y.got = <<>> /\ y.op = x.op
    BY <1>5, <1>6
  <2>2. Gathered(y, h)
    BY <2>1 DEF Gathered
  <2>3. y.phase = "assembling" =>
           y.alternative \in DOMAIN Alternatives[y.op] /\ Len(y.got) < Len(XMechanism(y))
    <3>1. SUFFICES ASSUME y.phase = "assembling"
                   PROVE  y.alternative \in DOMAIN Alternatives[y.op] /\ Len(y.got) < Len(XMechanism(y))
      OBVIOUS
    <3>2. Alternatives[y.op] # <<>> /\ y.op \in Operation
      BY <3>1, <1>4, <1>5, <1>6
    <3>3. 1 \in DOMAIN Alternatives[y.op]
      BY <3>2, AlternativesType
    <3>4. Len(Alternatives[y.op][1]) > 0
      BY <3>2, <3>3, AlternativesType
    <3>5. QED
      BY <2>1, <3>3, <3>4 DEF XMechanism
  <2>4. QED
    BY <1>4, <1>5, <1>6, <1>7, <2>1, <2>2, <2>3 DEF Assembled
<1>11. Carried(y, gated[c])
  BY <1>3, <1>4, <1>5, <1>6, SameView DEF Owned, Carried
<1>12. Minted(y, wrote[c])
  BY <1>4, <1>5, <1>6, <1>7 DEF Minted
<1>13. Owned(y, gated[c], h, bound[c], wrote[c])
  BY <1>8, <1>9, <1>10, <1>11, <1>12 DEF Owned
<1>14. h \in [Credential -> SUBSET Entry] /\ \A k \in Credential : secrets[x.tenant][k] \in h[k]
  BY <1>6 DEF IInv, ExecutionTypeOK
<1> HIDE DEF h
<1>15. /\ held' \in [Call -> [Credential -> SUBSET Entry]] /\ held'[c] = h
       /\ \A d \in Call \ {c} : held'[d] = held[d]
  BY <1>2, <1>14 DEF IInv, ExecutionTypeOK
<1>16. call'[c] = y /\ \A d \in Call \ {c} : call'[d] = call[d]
  BY <1>1, <1>2
<1>17. Watched(c)'
  BY <1>2, <1>4, <1>5, <1>14, <1>15, <1>16 DEF Watched
<1>18. \A d \in Call \ {c} :
         /\ gated'[d] = gated[d] /\ wrote'[d] = wrote[d]
         /\ \A k \in Credential : held[d][k] \subseteq held'[d][k]
         /\ \A f \in Field : bound[d][f] \subseteq bound'[d][f]
         /\ Watched(d)'
  BY <1>2, <1>15, <1>16 DEF Watched, IInv, CallInv
<1>19. /\ settings' \in [Tenant -> [Field -> Value]]
       /\ secrets' \in [Tenant -> [Credential -> Entry]]
       /\ writes' \in 0..MaxWrites
       /\ gated' \in [Call -> Url \cup {None}]
       /\ bound' \in [Call -> [Field -> SUBSET Value]]
       /\ wrote' \in [Call -> Entry]
  BY <1>2 DEF IInv, ExecutionTypeOK
<1>20. Owned(y, gated'[c], held'[c], bound'[c], wrote'[c])
  BY <1>2, <1>13, <1>15
<1>21. QED
  BY <1>2, <1>5, <1>15, <1>17, <1>18, <1>19, <1>20, Preserved

\* The credential an assembling call is waiting for.
LEMMA WantedType ==
  ASSUME IInv, NEW c \in Call, call[c].phase = "assembling"
  PROVE  /\ call[c].tenant \in Tenant /\ call[c].op \in Operation
         /\ call[c].alternative \in DOMAIN Alternatives[call[c].op]
         /\ Mechanism(c) = XMechanism(call[c]) /\ Mechanism(c) \in Seq(Credential)
         /\ Len(call[c].got) \in Nat /\ Len(call[c].got) + 1 \in 1..Len(Mechanism(c))
         /\ Wanted(c) = Mechanism(c)[Len(call[c].got) + 1]
         /\ Wanted(c) \in Credential /\ Wanted(c) \in Range(Mechanism(c))
         /\ Read(call[c].tenant, Wanted(c)) \in held[c][Wanted(c)]
         /\ Read(call[c].tenant, Wanted(c)) \in Entry
<1> DEFINE x == call[c]
<1>1. /\ x \in CallState /\ Owned(x, gated[c], held[c], bound[c], wrote[c]) /\ Watched(c)
      /\ secrets \in [Tenant -> [Credential -> Entry]]
  BY DEF IInv, ExecutionTypeOK, CallInv
<1>2. x.tenant \in Tenant /\ x.op \in Operation
  BY <1>1 DEF Owned, Staged
<1>3. x.alternative \in DOMAIN Alternatives[x.op] /\ Len(x.got) < Len(XMechanism(x))
  BY <1>1 DEF Owned, Assembled
<1>4. Mechanism(c) = XMechanism(x) /\ XMechanism(x) \in Seq(Credential)
  BY <1>2, <1>3, Over, AlternativesType DEF XMechanism
<1>5. x.got \in Seq(Given) /\ Len(x.got) \in Nat
  BY <1>1 DEF CallState
<1>6. Len(XMechanism(x)) \in Nat /\ Len(x.got) + 1 \in 1..Len(XMechanism(x))
  BY <1>3, <1>4, <1>5
<1>7. Wanted(c) = Mechanism(c)[Len(x.got) + 1]
  BY DEF Wanted
<1>8. Wanted(c) \in Credential /\ Wanted(c) \in Range(Mechanism(c))
  BY <1>4, <1>6, <1>7 DEF Range
<1>9. /\ Read(x.tenant, Wanted(c)) \in held[c][Wanted(c)]
      /\ Read(x.tenant, Wanted(c)) \in Entry
  BY <1>1, <1>2, <1>8 DEF Read, Watched
<1>10. QED
  BY <1>2, <1>3, <1>4, <1>5, <1>6, <1>7, <1>8, <1>9

LEMMA FoundStep ==
  ASSUME IInv, NEW c \in Call, call[c].phase = "assembling", GetFound(c),
         UserReady(c, Wanted(c)), UNCHANGED <<host, writes, histories>>
  PROVE  IInv'
<1> DEFINE x == call[c]
           k == Wanted(c)
           s == Read(x.tenant, k)
           got == Append(x.got, [credential |-> k, secret |-> s])
           p == IF Len(got) = Len(Mechanism(c)) THEN "assembled" ELSE "assembling"
           y == [x EXCEPT !.got = got, !.phase = p]
<1>1. call \in [Call -> CallState] /\ x \in CallState
  BY DEF IInv, ExecutionTypeOK
<1>2. call' = [call EXCEPT ![c] = y]
  BY <1>1 DEF GetFound, Collected
<1>3. Owned(x, gated[c], held[c], bound[c], wrote[c])
  BY DEF IInv, CallInv
<1>4. /\ x.tenant \in Tenant /\ x.op \in Operation
      /\ x.alternative \in DOMAIN Alternatives[x.op]
      /\ Mechanism(c) = XMechanism(x) /\ Mechanism(c) \in Seq(Credential)
      /\ Len(x.got) \in Nat /\ Len(x.got) + 1 \in 1..Len(Mechanism(c))
      /\ k = Mechanism(c)[Len(x.got) + 1] /\ k \in Credential
      /\ s \in held[c][k] /\ s \in Entry
  BY WantedType
<1>5. s \in Secret
  BY <1>4 DEF GetFound, Entry
<1>6. k \in Joined => x.settings[k] # None
  BY DEF UserReady
<1>7. x.got \in Seq(Given)
  BY <1>1 DEF CallState
<1> HIDE DEF s, k
<1>8. /\ got \in Seq(Given) /\ Len(got) = Len(x.got) + 1
      /\ \A i \in 1..Len(x.got) : got[i] = x.got[i]
      /\ got[Len(x.got) + 1] = [credential |-> k, secret |-> s]
  <2>1. [credential |-> k, secret |-> s] \in Given
    BY <1>4, <1>5 DEF Given
  <2>2. QED
    BY <1>7, <2>1
<1>9. /\ p \in {"assembled", "assembling"}
      /\ p = "assembled" <=> Len(got) = Len(Mechanism(c))
  OBVIOUS
<1> HIDE DEF got, p
<1>10. /\ y \in CallState /\ y.phase = p /\ y.tenant = x.tenant /\ y.op = x.op
       /\ y.read = x.read /\ y.alternative = x.alternative /\ y.got = got
       /\ y.sent = x.sent /\ y.answer = x.answer /\ y.shows = x.shows
       /\ y.settings = x.settings /\ y.redactor = x.redactor /\ y.minted = x.minted
  BY <1>1, <1>8, <1>9 DEF CallState, Phase
<1> HIDE DEF y
<1>11. x.sent = None /\ wrote[c] = None /\ x.answer = None
  BY <1>3 DEF Owned, Staged, Planning, Unsent
<1>12. x.answer # "MissingCredential" /\ x.answer # "Handle"
  BY <1>11, ExecutionAssumption DEF Reply
<1>13. Staged(y, gated[c], wrote[c])
  BY <1>3, <1>4, <1>9, <1>10, <1>11 DEF Owned, Staged, Planning, Unsent
<1>14. Projected(y, bound[c])
  BY <1>3, <1>9, <1>10 DEF Owned, Projected, Resolved, FromBound
<1>15. XMechanism(y) = Mechanism(c)
  BY <1>4, <1>10 DEF XMechanism
<1>16. Gathered(y, held[c])
  <2>1. SUFFICES ASSUME NEW i \in 1..Len(got)
                 PROVE  /\ i \in DOMAIN Mechanism(c) /\ got[i].credential = Mechanism(c)[i]
                        /\ got[i].secret \in held[c][got[i].credential]
                        /\ got[i].credential \in Joined => x.settings[got[i].credential] # None
    BY <1>8, <1>10, <1>15 DEF Gathered
  <2>2. CASE i = Len(x.got) + 1
    BY <2>2, <1>4, <1>6, <1>8
  <2>3. CASE i \in 1..Len(x.got)
    <3>1. i \in DOMAIN x.got /\ got[i] = x.got[i]
      BY <2>3, <1>7, <1>8
    <3>2. QED
      BY <3>1, <1>3, <1>4 DEF Owned, Assembled, Gathered
  <2>4. QED
    BY <2>2, <2>3, <1>4, <1>8
<1>17. Assembled(y, held[c])
  <2>1. Len(got) <= Len(Mechanism(c)) /\ Len(Mechanism(c)) \in Nat
    BY <1>4, <1>8
  <2>2. y.phase = "assembling" => Len(y.got) < Len(XMechanism(y))
    BY <2>1, <1>4, <1>8, <1>9, <1>10, <1>15
  <2>3. Alternatives[x.op] # <<>>
    BY <1>4
  <2>4. y.phase = "assembled" => Len(y.got) = Len(XMechanism(y))
    BY <1>9, <1>10, <1>15
  <2>5. \A j \in 1..(y.alternative - 1) : XLacked(y, held[c], j)
    BY <1>3, <1>10 DEF Owned, Assembled, XLacked
  <2>6. y.phase # "sent" /\ y.sent = None /\ y.answer # "MissingCredential"
    BY <1>9, <1>10, <1>11, <1>12
  <2>7. QED
    BY <1>4, <1>10, <1>16, <2>2, <2>3, <2>4, <2>5, <2>6 DEF Assembled
<1>18. Carried(y, gated[c])
  <2>1. XUrl(y) = XUrl(x)
    BY <1>10 DEF XUrl
  <2>2. QED
    BY <2>1, <1>3, <1>9, <1>10, <1>11 DEF Owned, Carried
<1>19. Minted(y, wrote[c])
  BY <1>9, <1>10, <1>11, <1>12 DEF Minted
<1>20. Owned(y, gated[c], held[c], bound[c], wrote[c])
  BY <1>13, <1>14, <1>17, <1>18, <1>19 DEF Owned
<1>21. QED
  BY <1>2, <1>9, <1>10, <1>20, LocalStep

LEMMA FallbackStep ==
  ASSUME IInv, NEW c \in Call, call[c].phase = "assembling", GetMissing(c),
         UNCHANGED <<host, writes, histories>>
  PROVE  IInv'
<1> DEFINE x == call[c]
<1>1. call \in [Call -> CallState] /\ x \in CallState
  BY DEF IInv, ExecutionTypeOK
<1>2. Owned(x, gated[c], held[c], bound[c], wrote[c])
  BY DEF IInv, CallInv
<1>3. /\ x.tenant \in Tenant /\ x.op \in Operation
      /\ x.alternative \in DOMAIN Alternatives[x.op]
      /\ Mechanism(c) = XMechanism(x)
      /\ Wanted(c) \in Range(Mechanism(c))
      /\ Read(x.tenant, Wanted(c)) \in held[c][Wanted(c)]
  BY WantedType
<1>4. XLacked(x, held[c], x.alternative)
  BY <1>3 DEF GetMissing, XLacked, XMechanism
<1>5. /\ x.alternative \in Nat \ {0} /\ Len(Alternatives[x.op]) \in Nat
      /\ DOMAIN Alternatives[x.op] = 1..Len(Alternatives[x.op])
  BY <1>1, <1>3, AlternativesType DEF CallState
<1>6. \A j \in 1..x.alternative : XLacked(x, held[c], j)
  <2>1. \A j \in 1..(x.alternative - 1) : XLacked(x, held[c], j)
    BY <1>2 DEF Owned, Assembled
  <2>2. QED
    BY <2>1, <1>4, <1>5
<1>7. x.sent = None /\ wrote[c] = None /\ x.answer = None
  BY <1>2 DEF Owned, Staged, Planning, Unsent
<1>8. CASE x.alternative < Len(Alternatives[x.op])
  <2> DEFINE n == x.alternative + 1
             e == <<>>
             y == [x EXCEPT !.alternative = n, !.got = e]
  <2>1. call' = [call EXCEPT ![c] = y]
    BY <1>1, <1>8 DEF GetMissing, Fallback
  <2>2. n \in Nat \ {0} /\ n \in DOMAIN Alternatives[x.op] /\ n - 1 = x.alternative
    BY <1>5, <1>8
  <2>3. e \in Seq(Given) /\ e = <<>>
    OBVIOUS
  <2> HIDE DEF n, e
  <2>4. /\ y \in CallState /\ y.phase = x.phase /\ y.tenant = x.tenant /\ y.op = x.op
        /\ y.read = x.read /\ y.alternative = n /\ y.got = e
        /\ y.sent = x.sent /\ y.answer = x.answer /\ y.shows = x.shows
        /\ y.settings = x.settings /\ y.redactor = x.redactor /\ y.minted = x.minted
    BY <1>1, <2>2, <2>3 DEF CallState
  <2> HIDE DEF y
  <2>5. x.answer # "MissingCredential" /\ x.answer # "Handle"
    BY <1>7, ExecutionAssumption DEF Reply
  <2>6. Staged(y, gated[c], wrote[c])
    BY <1>2, <1>7, <2>4 DEF Owned, Staged, Planning, Unsent
  <2>7. Projected(y, bound[c])
    BY <1>2, <2>4 DEF Owned, Projected, Resolved, FromBound
  <2>8. Gathered(y, held[c])
    BY <2>3, <2>4 DEF Gathered
  <2>9. Len(XMechanism(y)) > 0 /\ Len(y.got) = 0
    BY <1>3, <2>2, <2>3, <2>4, AlternativesType DEF XMechanism
  <2>10. \A j \in 1..(y.alternative - 1) : XLacked(y, held[c], j)
    BY <1>6, <2>2, <2>4 DEF XLacked
  <2>11. Assembled(y, held[c])
    BY <1>7, <2>2, <2>4, <2>5, <2>8, <2>9, <2>10 DEF Assembled
  <2>12. Carried(y, gated[c])
    <3>1. XUrl(y) = XUrl(x)
      BY <2>4 DEF XUrl
    <3>2. QED
      BY <3>1, <1>2, <1>7, <2>4 DEF Owned, Carried
  <2>13. Minted(y, wrote[c])
    BY <1>7, <2>4, <2>5 DEF Minted
  <2>14. Owned(y, gated[c], held[c], bound[c], wrote[c])
    BY <2>6, <2>7, <2>11, <2>12, <2>13 DEF Owned
  <2>15. QED
    BY <2>1, <2>4, <2>14, LocalStep
<1>9. CASE ~(x.alternative < Len(Alternatives[x.op]))
  <2> DEFINE y == [x EXCEPT !.phase = "done", !.answer = "MissingCredential"]
  <2>1. call' = [call EXCEPT ![c] = y]
    BY <1>1, <1>9 DEF GetMissing, Fallback, RefuseCall
  <2>2. /\ y \in CallState /\ y.phase = "done" /\ y.tenant = x.tenant /\ y.op = x.op
        /\ y.read = x.read /\ y.alternative = x.alternative /\ y.got = x.got
        /\ y.sent = x.sent /\ y.answer = "MissingCredential" /\ y.shows = x.shows
        /\ y.settings = x.settings /\ y.redactor = x.redactor /\ y.minted = x.minted
    BY <1>1 DEF CallState, Phase, Reply
  <2> HIDE DEF y
  <2>3. Staged(y, gated[c], wrote[c])
    BY <1>2, <1>3, <1>7, <2>2 DEF Owned, Staged, Planning, Unsent
  <2>4. Projected(y, bound[c])
    BY <1>2, <2>2, SameView DEF Owned, Projected
  <2>5. \A j \in DOMAIN Alternatives[x.op] : XLacked(x, held[c], j)
    BY <1>3, <1>5, <1>6, <1>9
  <2>6. Alternatives[x.op] # <<>>
    BY <1>3
  <2>7. Assembled(y, held[c])
    BY <1>2, <1>7, <2>2, <2>5, <2>6, SameView DEF Owned, Assembled
  <2>8. Carried(y, gated[c])
    BY <1>2, <1>7, <2>2, SameView DEF Owned, Carried
  <2>9. Minted(y, wrote[c])
    BY <1>7, <2>2 DEF Minted
  <2>10. Owned(y, gated[c], held[c], bound[c], wrote[c])
    BY <2>3, <2>4, <2>7, <2>8, <2>9 DEF Owned
  <2>11. QED
    BY <2>1, <2>2, <2>10, LocalStep
<1>10. QED
  BY <1>8, <1>9

LEMMA GetStep ==
  ASSUME IInv, NEW c \in Call, Get(c)
  PROVE  IInv'
<1>1. call[c].phase = "assembling" /\ UNCHANGED <<host, writes, histories>>
  BY DEF Get
<1>2. CASE GetFound(c) /\ UserReady(c, Wanted(c))
  BY <1>1, <1>2, FoundStep
<1>3. CASE GetFound(c) /\ ~UserReady(c, Wanted(c))
  <2>1. RefuseCall(c, "MissingCredentialConfig")
    BY <1>3 DEF GetFound
  <2>2. QED
    BY <1>1, <2>1, RefuseStep DEF Planning, Reply
<1>4. CASE GetMissing(c)
  BY <1>1, <1>4, FallbackStep
<1>5. CASE GetFailed(c)
  BY <1>1, <1>5, RefuseStep DEF GetFailed, Planning, Reply
<1>6. QED
  BY <1>2, <1>3, <1>4, <1>5 DEF Get

-----------------------------------------------------------------------------
(* Sending *)

LEMMA FormType ==
  ASSUME NEW x \in CallState
  PROVE  /\ XRedactions(x) \in SUBSET Form
         /\ XCredentials(x) \in Seq([credential : Credential, form : Form])
         /\ \A i \in DOMAIN x.got :
              /\ Plain(x.got[i].secret) \in XRedactions(x)
              /\ XPlaced(x, x.got[i]) \in XRedactions(x)
              /\ XPlaced(x, x.got[i]).secret = x.got[i].secret
              /\ x.got[i].credential \in Joined =>
                   XPlaced(x, x.got[i]).user = x.settings[x.got[i].credential]
<1>1. x.got \in Seq(Given) /\ x.settings \in [Field -> Value]
  BY DEF CallState
<1>2. ASSUME NEW g \in Given
      PROVE  /\ Plain(g.secret) \in Form /\ XAcquired(x, g) \in Form /\ XPlaced(x, g) \in Form
             /\ XPlaced(x, g).secret = g.secret
             /\ g.credential \in Joined => XPlaced(x, g).user = x.settings[g.credential]
  <2> DEFINE u == IF g.credential \in Joined THEN x.settings[g.credential] ELSE None
             q == g.credential \in Queried
  <2>1. g.secret \in Secret /\ u \in Value /\ q \in BOOLEAN
    BY <1>1 DEF Given, Field, Value
  <2>2. g.credential \in Joined => u = x.settings[g.credential]
    OBVIOUS
  <2>3. XAcquired(x, g) = [Plain(g.secret) EXCEPT !.user = u]
    BY DEF XAcquired
  <2>4. XPlaced(x, g) = [XAcquired(x, g) EXCEPT !.encoded = q]
    BY DEF XPlaced
  <2> HIDE DEF u, q
  <2>5. Plain(g.secret) = [secret |-> g.secret, user |-> None, encoded |-> FALSE]
    BY DEF Plain
  <2>6. XAcquired(x, g) = [secret |-> g.secret, user |-> u, encoded |-> FALSE]
    BY <2>3 DEF Plain
  <2>7. XPlaced(x, g) = [secret |-> g.secret, user |-> u, encoded |-> q]
    BY <2>4, <2>6
  <2>8. QED
    BY <2>1, <2>2, <2>5, <2>6, <2>7 DEF Form, Value
<1>3. DOMAIN x.got = 1..Len(x.got) /\ Len(x.got) \in Nat
      /\ \A i \in DOMAIN x.got : x.got[i] \in Given /\ x.got[i].credential \in Credential
  BY <1>1, GivenType
<1>4. Range(x.got) \subseteq Given /\ \A i \in DOMAIN x.got : x.got[i] \in Range(x.got)
  BY <1>3 DEF Range
<1>5. XRedactions(x) \in SUBSET Form
  BY <1>2, <1>4 DEF XRedactions
<1>6. \A g \in Range(x.got) : Plain(g.secret) \in XRedactions(x) /\ XPlaced(x, g) \in XRedactions(x)
  BY DEF XRedactions
<1>7. XCredentials(x) \in Seq([credential : Credential, form : Form])
  <2>1. \A i \in 1..Len(x.got) :
          [credential |-> x.got[i].credential, form |-> XPlaced(x, x.got[i])]
            \in [credential : Credential, form : Form]
    BY <1>2, <1>3
  <2>2. QED
    BY <1>3, <2>1, IsASeq DEF XCredentials
<1>8. QED
  BY <1>2, <1>3, <1>4, <1>5, <1>6, <1>7

LEMMA DispatchStep ==
  ASSUME IInv, NEW c \in Call, Dispatch(c)
  PROVE  IInv'
<1> DEFINE x == call[c]
<1>1. call \in [Call -> CallState] /\ x \in CallState
  BY DEF IInv, ExecutionTypeOK
<1>2. Owned(x, gated[c], held[c], bound[c], wrote[c])
  BY DEF IInv, CallInv
<1>3. /\ x.phase = "assembled" /\ Redactions(c) = XRedactions(x) /\ UrlOf(c) = XUrl(x)
      /\ UNCHANGED <<host, writes, histories>>
  BY Over DEF Dispatch
<1>4. CASE \E form \in Redactions(c) : ~CanHold(form)
  <2>1. RefuseCall(c, "UnredactableCredential")
    BY <1>4 DEF Dispatch
  <2>2. QED
    BY <1>3, <2>1, RefuseStep DEF Planning, Reply
<1>5. CASE (\A form \in Redactions(c) : CanHold(form)) /\ UrlOf(c) = None
  <2>1. RefuseCall(c, "UnusableConfig")
    BY <1>5 DEF Dispatch
  <2>2. QED
    BY <1>3, <2>1, RefuseStep DEF Planning, Reply
<1>6. CASE (\A form \in Redactions(c) : CanHold(form)) /\ UrlOf(c) # None
  <2> DEFINE q == [url |-> XUrl(x), alternative |-> x.alternative, credentials |-> XCredentials(x)]
             r == XRedactions(x)
             y == [x EXCEPT !.phase = "sent", !.sent = q, !.redactor = r]
  <2>1. Dispatched(c) = q
    <3>1. \A g : Placed(c, g) = XPlaced(x, g)
      BY DEF Placed, Acquired, XPlaced, XAcquired
    <3>2. QED
      BY <1>3, <3>1 DEF Dispatched, XCredentials
  <2>2. call' = [call EXCEPT ![c] = y]
    BY <1>1, <1>3, <1>6, <2>1 DEF Dispatch
  <2>3. x.op \in Operation /\ x.alternative \in Nat \ {0}
    BY <1>1, <1>2, <1>3 DEF Owned, Staged, CallState
  <2>4. q \in Request
    BY <1>1, <1>3, <1>6, <2>3, UrlType, FormType DEF Request
  <2>5. r \in SUBSET Form
    BY <1>1, FormType
  <2> HIDE DEF q, r
  <2>6. /\ y \in CallState /\ y.phase = "sent" /\ y.tenant = x.tenant /\ y.op = x.op
        /\ y.read = x.read /\ y.alternative = x.alternative /\ y.got = x.got
        /\ y.sent = q /\ y.answer = x.answer /\ y.shows = x.shows
        /\ y.settings = x.settings /\ y.redactor = r /\ y.minted = x.minted
    BY <1>1, <2>4, <2>5 DEF CallState, Phase
  <2> HIDE DEF y
  <2>7. wrote[c] = None /\ x.answer = None /\ x.sent = None
    BY <1>2, <1>3 DEF Owned, Staged, Planning, Unsent
  <2>8. x.answer # "MissingCredential" /\ x.answer # "Handle"
    BY <2>7, ExecutionAssumption DEF Reply
  <2>9. Staged(y, gated[c], wrote[c])
    BY <1>2, <1>3, <2>6, <2>7 DEF Owned, Staged, Planning, Unsent
  <2>10. Projected(y, bound[c])
    BY <1>2, <1>3, <2>6, SameView DEF Owned, Projected
  <2>11. Assembled(y, held[c])
    BY <1>2, <1>3, <2>6, <2>8, SameView DEF Owned, Assembled
  <2>12. Carried(y, gated[c])
    <3>1. XUrl(y) = XUrl(x) /\ XRedactions(y) = XRedactions(x) /\ XCredentials(y) = XCredentials(x)
      BY <2>6, SameView
    <3>2. gated[c] # None => gated[c] = XUrl(x)
      BY <1>2 DEF Owned, Carried
    <3>3. QED
      BY <1>3, <1>6, <2>6, <3>1, <3>2 DEF Carried, q, r
  <2>13. Minted(y, wrote[c])
    BY <2>6, <2>7, <2>8 DEF Minted
  <2>14. Owned(y, gated[c], held[c], bound[c], wrote[c])
    BY <2>9, <2>10, <2>11, <2>12, <2>13 DEF Owned
  <2>15. QED
    BY <1>3, <2>2, <2>6, <2>14, LocalStep
<1>7. QED
  BY <1>4, <1>5, <1>6

LEMMA RespondStep ==
  ASSUME IInv, NEW c \in Call, Respond(c)
  PROVE  IInv'
<1> DEFINE x == call[c]
           e == Echo(c) \ x.redactor
           y == [x EXCEPT !.phase = "done", !.answer = "Content", !.shows = e]
<1>1. call \in [Call -> CallState] /\ x \in CallState
  BY DEF IInv, ExecutionTypeOK
<1>2. Owned(x, gated[c], held[c], bound[c], wrote[c])
  BY DEF IInv, CallInv
<1>3. x.phase = "sent" /\ UNCHANGED <<host, writes, histories>>
  BY DEF Respond
<1>4. CASE RefuseCall(c, "Transport")
  BY <1>3, <1>4, RefuseStep DEF Planning, Reply
<1>5. CASE ~RefuseCall(c, "Transport")
  <2>1. call' = [call EXCEPT ![c] = y]
    BY <1>1, <1>5 DEF Respond
  <2>2. e = {}
    BY <1>2, <1>3, Over DEF Owned, Carried
  <2> HIDE DEF e
  <2>3. /\ y \in CallState /\ y.phase = "done" /\ y.tenant = x.tenant /\ y.op = x.op
        /\ y.read = x.read /\ y.alternative = x.alternative /\ y.got = x.got
        /\ y.sent = x.sent /\ y.answer = "Content" /\ y.shows = e
        /\ y.settings = x.settings /\ y.redactor = x.redactor /\ y.minted = x.minted
    BY <1>1, <2>2 DEF CallState, Phase, Reply
  <2> HIDE DEF y
  <2>4. Staged(y, gated[c], wrote[c])
    BY <1>2, <1>3, <2>2, <2>3 DEF Owned, Staged, Planning, Unsent
  <2>5. Projected(y, bound[c]) /\ Assembled(y, held[c]) /\ Carried(y, gated[c])
    BY <1>2, <1>3, <2>3, SameView DEF Owned, Projected, Assembled, Carried
  <2>6. Minted(y, wrote[c])
    BY <1>2, <2>3 DEF Owned, Minted
  <2>7. Owned(y, gated[c], held[c], bound[c], wrote[c])
    BY <2>4, <2>5, <2>6 DEF Owned
  <2>8. QED
    BY <1>3, <2>1, <2>3, <2>7, LocalStep
<1>6. QED
  BY <1>4, <1>5

-----------------------------------------------------------------------------
(* Minting *)

LEMMA DivertStep ==
  ASSUME IInv, NEW c \in Call, Divert(c)
  PROVE  IInv'
<1> DEFINE x == call[c]
<1>1. call \in [Call -> CallState] /\ x \in CallState
  BY DEF IInv, ExecutionTypeOK
<1>2. Owned(x, gated[c], held[c], bound[c], wrote[c])
  BY DEF IInv, CallInv
<1>3. x.phase = "sent" /\ Mints[x.op] # None /\ UNCHANGED <<host, writes, histories>>
  BY DEF Divert
<1>4. CASE RefuseCall(c, "CredentialNotMinted")
  BY <1>3, <1>4, RefuseStep DEF Planning, Reply
<1>5. CASE RefuseCall(c, "UnredactableCredential")
  BY <1>3, <1>5, RefuseStep DEF Planning, Reply
<1>6. ASSUME NEW s \in Secret, CanHold(Plain(s)), call' = [call EXCEPT ![c] = Diverted(c, s)]
      PROVE  IInv'
  <2> DEFINE r == x.redactor \cup {Plain(s)}
             y == [x EXCEPT !.phase = "minting", !.minted = s, !.redactor = r]
  <2>1. call' = [call EXCEPT ![c] = y]
    BY <1>1, <1>6 DEF Diverted
  <2>2. Plain(s).secret = s /\ Plain(s).user = None /\ Plain(s) \in Form
    BY DEF Plain, Form, Value
  <2>3. s \notin Short
    BY <1>6, <2>2 DEF CanHold
  <2>4. r \in SUBSET Form /\ x.redactor \subseteq r /\ Plain(s) \in r
    BY <1>1, <2>2 DEF CallState
  <2> HIDE DEF r
  <2>5. /\ y \in CallState /\ y.phase = "minting" /\ y.tenant = x.tenant /\ y.op = x.op
        /\ y.read = x.read /\ y.alternative = x.alternative /\ y.got = x.got
        /\ y.sent = x.sent /\ y.answer = x.answer /\ y.shows = x.shows
        /\ y.settings = x.settings /\ y.redactor = r /\ y.minted = s
    BY <1>1, <2>4 DEF CallState, Phase, Entry
  <2> HIDE DEF y
  <2>6. wrote[c] = None /\ x.answer = None /\ s # None
    BY <1>2, <1>3, ExecutionAssumption DEF Owned, Staged, Planning, Unsent
  <2>7. x.answer # "MissingCredential" /\ x.answer # "Handle"
    BY <2>6, ExecutionAssumption DEF Reply
  <2>8. Staged(y, gated[c], wrote[c])
    BY <1>2, <1>3, <2>5, <2>6 DEF Owned, Staged, Planning, Unsent
  <2>9. Projected(y, bound[c]) /\ Assembled(y, held[c])
    BY <1>2, <1>3, <2>5, SameView DEF Owned, Projected, Assembled
  <2>10. Carried(y, gated[c])
    <3>1. XRedactions(x) \subseteq y.redactor
      BY <1>2, <1>3, <2>4, <2>5 DEF Owned, Carried
    <3>2. QED
      BY <1>2, <1>3, <2>5, <3>1, SameView DEF Owned, Carried
  <2>11. Minted(y, wrote[c])
    BY <1>3, <2>3, <2>4, <2>5, <2>6, <2>7 DEF Minted
  <2>12. Owned(y, gated[c], held[c], bound[c], wrote[c])
    BY <2>8, <2>9, <2>10, <2>11 DEF Owned
  <2>13. QED
    BY <1>3, <2>1, <2>5, <2>12, LocalStep
<1>7. QED
  BY <1>4, <1>5, <1>6 DEF Divert

LEMMA MintFailedStep ==
  ASSUME IInv, NEW c \in Call, MintFailed(c)
  PROVE  IInv'
BY RefuseStep DEF MintFailed, Planning, Reply

\* A write to the store is seen by the histories of the calls it concerns.
LEMMA StoreSeen ==
  ASSUME IInv, NEW t \in Tenant, NEW k \in Credential, NEW s \in Entry, Store(t, k, s)
  PROVE  /\ secrets' \in [Tenant -> [Credential -> Entry]]
         /\ held' \in [Call -> [Credential -> SUBSET Entry]]
         /\ \A d \in Call : \A j \in Credential : held[d][j] \subseteq held'[d][j]
         /\ \A d \in Call : call[d].phase # "assembling" => held'[d] = held[d]
         /\ \A d \in Call : call[d].phase = "assembling" =>
              \A j \in Credential : secrets'[call[d].tenant][j] \in held'[d][j]
<1>1. /\ secrets \in [Tenant -> [Credential -> Entry]]
      /\ held \in [Call -> [Credential -> SUBSET Entry]]
  BY DEF IInv, ExecutionTypeOK
<1>2. /\ secrets' \in [Tenant -> [Credential -> Entry]]
      /\ \A u \in Tenant, j \in Credential :
           secrets'[u][j] = IF u = t /\ j = k THEN s ELSE secrets[u][j]
  BY <1>1 DEF Store
<1>3. held' = [d \in Call |-> IF call[d].phase = "assembling" /\ call[d].tenant = t
                              THEN [held[d] EXCEPT ![k] = @ \cup {s}] ELSE held[d]]
  BY DEF Store, Recorded
<1>4. ASSUME NEW d \in Call
      PROVE  /\ held'[d] \in [Credential -> SUBSET Entry]
             /\ \A j \in Credential : held[d][j] \subseteq held'[d][j]
             /\ call[d].phase # "assembling" => held'[d] = held[d]
             /\ call[d].phase = "assembling" /\ call[d].tenant = t => s \in held'[d][k]
  BY <1>1, <1>3
<1>5. ASSUME NEW d \in Call, call[d].phase = "assembling", NEW j \in Credential
      PROVE  secrets'[call[d].tenant][j] \in held'[d][j]
  <2>1. call[d].tenant \in Tenant /\ secrets[call[d].tenant][j] \in held[d][j]
    BY <1>5 DEF IInv, CallInv, Owned, Staged, Watched
  <2>2. CASE call[d].tenant = t /\ j = k
    BY <2>2, <1>2, <1>4, <1>5
  <2>3. CASE ~(call[d].tenant = t /\ j = k)
    BY <2>1, <2>3, <1>2, <1>4
  <2>4. QED
    BY <2>2, <2>3
<1>6. held' \in [Call -> [Credential -> SUBSET Entry]]
  <2> DEFINE e(d) == IF call[d].phase = "assembling" /\ call[d].tenant = t
                     THEN [held[d] EXCEPT ![k] = @ \cup {s}] ELSE held[d]
  <2>1. held' = [d \in Call |-> e(d)]
    BY <1>3
  <2>2. \A d \in Call : e(d) \in [Credential -> SUBSET Entry]
    BY <1>1
  <2> HIDE DEF e
  <2>3. QED
    BY <2>1, <2>2
<1>7. QED
  BY <1>2, <1>4, <1>5, <1>6

LEMMA MintPutStep ==
  ASSUME IInv, NEW c \in Call, MintPut(c)
  PROVE  IInv'
<1> DEFINE x == call[c]
           k == Mints[x.op]
           s == x.minted
<1>1. call \in [Call -> CallState] /\ x \in CallState
  BY DEF IInv, ExecutionTypeOK
<1>2. Owned(x, gated[c], held[c], bound[c], wrote[c])
  BY DEF IInv, CallInv
<1>3. /\ x.phase = "minting" /\ Store(x.tenant, k, s)
      /\ wrote' = [wrote EXCEPT ![c] = s]
      /\ settings' = settings /\ writes' = writes /\ gated' = gated /\ bound' = bound
  BY DEF MintPut
<1>4. /\ x.tenant \in Tenant /\ x.op \in Operation /\ k # None /\ s # None
      /\ s \notin Short /\ Plain(s) \in x.redactor
  BY <1>2, <1>3 DEF Owned, Staged, Minted
<1>5. k \in Credential /\ s \in Entry
  BY <1>1, <1>4, ExecutionAssumption DEF CallState
<1>6. /\ wrote' \in [Call -> Entry] /\ wrote'[c] = s
      /\ \A d \in Call \ {c} : wrote'[d] = wrote[d]
  BY <1>3, <1>5 DEF IInv, ExecutionTypeOK
<1>7. /\ secrets' \in [Tenant -> [Credential -> Entry]]
      /\ held' \in [Call -> [Credential -> SUBSET Entry]]
      /\ \A d \in Call : \A j \in Credential : held[d][j] \subseteq held'[d][j]
      /\ held'[c] = held[c]
      /\ \A d \in Call : call[d].phase = "assembling" =>
           \A j \in Credential : secrets'[call[d].tenant][j] \in held'[d][j]
  BY <1>3, <1>4, <1>5, StoreSeen
<1>8. ASSUME NEW y \in CallState, call' = [call EXCEPT ![c] = y],
             y.phase \notin {"projecting", "assembling"},
             Owned(y, gated[c], held[c], bound[c], s)
      PROVE  IInv'
  <2>1. call'[c] = y /\ \A d \in Call \ {c} : call'[d] = call[d]
    BY <1>1, <1>8
  <2>2. Watched(c)'
    BY <2>1, <1>8 DEF Watched
  <2>3. \A d \in Call \ {c} : Watched(d)'
    BY <2>1, <1>3, <1>7 DEF Watched, IInv, CallInv
  <2>4. \A d \in Call \ {c} :
          /\ gated'[d] = gated[d] /\ wrote'[d] = wrote[d]
          /\ \A j \in Credential : held[d][j] \subseteq held'[d][j]
          /\ \A f \in Field : bound[d][f] \subseteq bound'[d][f]
          /\ Watched(d)'
    BY <1>3, <1>6, <1>7, <2>3
  <2>5. /\ settings' \in [Tenant -> [Field -> Value]]
        /\ writes' \in 0..MaxWrites
        /\ gated' \in [Call -> Url \cup {None}]
        /\ bound' \in [Call -> [Field -> SUBSET Value]]
    BY <1>3 DEF IInv, ExecutionTypeOK
  <2>6. Owned(y, gated'[c], held'[c], bound'[c], wrote'[c])
    BY <1>3, <1>6, <1>7, <1>8
  <2>7. QED
    BY <1>6, <1>7, <1>8, <2>2, <2>4, <2>5, <2>6, Preserved
<1>9. x.answer = None /\ x.answer # "MissingCredential" /\ x.answer # "Handle"
  BY <1>2, <1>3, ExecutionAssumption DEF Owned, Staged, Reply
<1> HIDE DEF k, s
<1>10. ASSUME NEW p \in {"minted", "done"}, NEW a \in Reply \cup {None},
              a # "MissingCredential", a # "Handle", p # "done" => a = None,
              call' = [call EXCEPT ![c] = [x EXCEPT !.phase = p, !.answer = a]]
       PROVE  IInv'
  <2> DEFINE y == [x EXCEPT !.phase = p, !.answer = a]
  <2>1. /\ y \in CallState /\ y.phase = p /\ y.tenant = x.tenant /\ y.op = x.op
        /\ y.read = x.read /\ y.alternative = x.alternative /\ y.got = x.got
        /\ y.sent = x.sent /\ y.answer = a /\ y.shows = x.shows
        /\ y.settings = x.settings /\ y.redactor = x.redactor /\ y.minted = x.minted
    BY <1>1, <1>10 DEF CallState, Phase
  <2> HIDE DEF y
  <2>2. Staged(y, gated[c], s)
    BY <1>2, <1>3, <1>10, <2>1 DEF Owned, Staged, Planning, Unsent
  <2>3. Projected(y, bound[c]) /\ Assembled(y, held[c]) /\ Carried(y, gated[c])
    BY <1>2, <1>3, <1>10, <2>1, SameView DEF Owned, Projected, Assembled, Carried
  <2>4. Minted(y, s)
    BY <1>4, <1>10, <2>1 DEF Minted, k, s
  <2>5. Owned(y, gated[c], held[c], bound[c], s)
    BY <2>2, <2>3, <2>4 DEF Owned
  <2>6. QED
    BY <1>8, <1>10, <2>1, <2>5 DEF y
<1>11. CASE call' = [call EXCEPT ![c].phase = "minted"]
  <2>1. call' = [call EXCEPT ![c] = [x EXCEPT !.phase = "minted", !.answer = None]]
    BY <1>1, <1>9, <1>11 DEF CallState
  <2>2. QED
    BY <2>1, <1>10, ExecutionAssumption DEF Reply
<1>12. CASE RefuseCall(c, "CredentialStore")
  <2>1. call' = [call EXCEPT ![c] = [x EXCEPT !.phase = "done", !.answer = "CredentialStore"]]
    BY <1>1, <1>12 DEF RefuseCall
  <2>2. QED
    BY <2>1, <1>10 DEF Reply
<1>13. QED
  BY <1>11, <1>12 DEF MintPut

-----------------------------------------------------------------------------
(* The operators' steps and the theorems *)

\* No call moves: what their tenants' settings and entries become is seen.
LEMMA OutsideStep ==
  ASSUME IInv, call' = call, gated' = gated, wrote' = wrote,
         settings' \in [Tenant -> [Field -> Value]],
         secrets' \in [Tenant -> [Credential -> Entry]],
         writes' \in 0..MaxWrites,
         held' \in [Call -> [Credential -> SUBSET Entry]],
         bound' \in [Call -> [Field -> SUBSET Value]],
         \A d \in Call :
           /\ \A k \in Credential : held[d][k] \subseteq held'[d][k]
           /\ \A f \in Field : bound[d][f] \subseteq bound'[d][f]
           /\ Watched(d)'
  PROVE  IInv'
<1>1. ExecutionTypeOK'
  BY DEF IInv, ExecutionTypeOK
<1>2. ASSUME NEW d \in Call PROVE CallInv(d)'
  <2> DEFINE x == call[d]
             g == gated[d]
             h == held[d]
             b == bound[d]
             w == wrote[d]
             h2 == held'[d]
             b2 == bound'[d]
  <2>1. /\ x \in CallState /\ Owned(x, g, h, b, w)
        /\ h \in [Credential -> SUBSET Entry] /\ h2 \in [Credential -> SUBSET Entry]
        /\ b \in [Field -> SUBSET Value] /\ b2 \in [Field -> SUBSET Value]
        /\ \A k \in Credential : h[k] \subseteq h2[k]
        /\ \A f \in Field : b[f] \subseteq b2[f]
    BY DEF IInv, ExecutionTypeOK, CallInv
  <2> HIDE DEF x, g, h, b, w, h2, b2
  <2>2. Owned(x, g, h2, b2, w)
    BY <2>1, OwnedGrows
  <2>3. QED
    BY <2>2 DEF x, g, h2, b2, w, CallInv
<1>3. QED
  BY <1>1, <1>2 DEF IInv

LEMMA WrittenStep ==
  ASSUME IInv, NEW t \in Tenant, NEW k \in Credential, NEW s \in Entry,
         Writes, Store(t, k, s), UNCHANGED <<settings, call, gated, bound, wrote>>
  PROVE  IInv'
<1>1. /\ secrets' \in [Tenant -> [Credential -> Entry]]
      /\ held' \in [Call -> [Credential -> SUBSET Entry]]
      /\ \A d \in Call : \A j \in Credential : held[d][j] \subseteq held'[d][j]
      /\ \A d \in Call : call[d].phase = "assembling" =>
           \A j \in Credential : secrets'[call[d].tenant][j] \in held'[d][j]
  BY StoreSeen
<1>2. \A d \in Call : Watched(d)'
  BY <1>1 DEF Watched, IInv, CallInv
<1>3. writes' \in 0..MaxWrites
  BY ExecutionAssumption DEF Writes, IInv, ExecutionTypeOK
<1>4. /\ settings' \in [Tenant -> [Field -> Value]]
      /\ bound' \in [Call -> [Field -> SUBSET Value]]
  BY DEF IInv, ExecutionTypeOK
<1>5. QED
  BY <1>1, <1>2, <1>3, <1>4, OutsideStep

LEMMA PutConfigStep ==
  ASSUME IInv, NEW t \in Tenant, NEW f \in Field, NEW v \in Setting, PutConfig(t, f, v)
  PROVE  IInv'
<1>1. /\ settings \in [Tenant -> [Field -> Value]]
      /\ bound \in [Call -> [Field -> SUBSET Value]]
      /\ v \in Value
  BY DEF IInv, ExecutionTypeOK, Value
<1>2. /\ settings' \in [Tenant -> [Field -> Value]]
      /\ \A u \in Tenant, e \in Field :
           settings'[u][e] = IF u = t /\ e = f THEN v ELSE settings[u][e]
  BY <1>1 DEF PutConfig
<1> DEFINE n(d) == IF call[d].phase = "projecting" /\ call[d].tenant = t
                   THEN [bound[d] EXCEPT ![f] = @ \cup {v}] ELSE bound[d]
<1>3. bound' = [d \in Call |-> n(d)]
  BY DEF PutConfig
<1>4. ASSUME NEW d \in Call
      PROVE  /\ n(d) \in [Field -> SUBSET Value]
             /\ \A e \in Field : bound[d][e] \subseteq n(d)[e]
             /\ call[d].phase = "projecting" /\ call[d].tenant = t => v \in n(d)[f]
  BY <1>1
<1> HIDE DEF n
<1>5. bound' \in [Call -> [Field -> SUBSET Value]]
  BY <1>3, <1>4
<1>6. ASSUME NEW d \in Call, call[d].phase = "projecting", NEW e \in Field
      PROVE  settings'[call[d].tenant][e] \in bound'[d][e]
  <2>1. call[d].tenant \in Tenant /\ settings[call[d].tenant][e] \in bound[d][e]
    BY <1>6 DEF IInv, CallInv, Owned, Staged, Watched
  <2>2. CASE call[d].tenant = t /\ e = f
    BY <2>2, <1>2, <1>3, <1>4, <1>6
  <2>3. CASE ~(call[d].tenant = t /\ e = f)
    BY <2>1, <2>3, <1>2, <1>3, <1>4
  <2>4. QED
    BY <2>2, <2>3
<1>7. /\ call' = call /\ secrets' = secrets /\ held' = held /\ gated' = gated /\ wrote' = wrote
  BY DEF PutConfig
<1>8. \A d \in Call : Watched(d)'
  BY <1>6, <1>7 DEF Watched, IInv, CallInv
<1>9. writes' \in 0..MaxWrites
  BY ExecutionAssumption DEF PutConfig, Writes, IInv, ExecutionTypeOK
<1>10. /\ secrets' \in [Tenant -> [Credential -> Entry]]
       /\ held' \in [Call -> [Credential -> SUBSET Entry]]
  BY <1>7 DEF IInv, ExecutionTypeOK
<1>11. \A d \in Call :
         /\ \A k \in Credential : held[d][k] \subseteq held'[d][k]
         /\ \A e \in Field : bound[d][e] \subseteq bound'[d][e]
         /\ Watched(d)'
  BY <1>3, <1>4, <1>7, <1>8
<1>12. QED
  BY <1>2, <1>5, <1>7, <1>9, <1>10, <1>11, OutsideStep

LEMMA NextInv ==
  IInv /\ [ExecutionNext]_executionVars => IInv'
<1> SUFFICES ASSUME IInv, [ExecutionNext]_executionVars
             PROVE  IInv'
  OBVIOUS
<1>1. ASSUME NEW c \in Call, Step(c)
      PROVE  IInv'
  BY <1>1, ReadFieldStep, ProjectStep, GateStep, ExecuteStep, GetStep, DispatchStep,
     RespondStep, DivertStep, MintPutStep, MintFailedStep, AnswerStep DEF Step
<1>2. ASSUME NEW c \in Call, Drop(c)
      PROVE  IInv'
  BY <1>2, DropStep
<1>3. ASSUME NEW c \in Call, NEW t \in Tenant, NEW op \in Operation, Begin(c, t, op)
      PROVE  IInv'
  BY <1>3, BeginStep
<1>4. ASSUME NEW t \in Tenant, NEW k \in Credential, DeleteCredential(t, k)
      PROVE  IInv'
  BY <1>4, WrittenStep DEF DeleteCredential, Entry
<1>5. ASSUME NEW t \in Tenant, NEW k \in Credential, NEW s \in Secret, PutCredential(t, k, s)
      PROVE  IInv'
  BY <1>5, WrittenStep DEF PutCredential, Entry
<1>6. ASSUME NEW t \in Tenant, NEW f \in Field, NEW v \in Setting, PutConfig(t, f, v)
      PROVE  IInv'
  BY <1>6, PutConfigStep
<1>7. CASE UNCHANGED executionVars
  BY <1>7 DEF executionVars, IInv, ExecutionTypeOK, CallInv, Watched
<1>8. QED
  BY <1>1, <1>2, <1>3, <1>4, <1>5, <1>6, <1>7 DEF ExecutionNext

-----------------------------------------------------------------------------
(* What the invariant says of a request *)

LEMMA SentFacts ==
  ASSUME IInv, NEW c \in Call, call[c].sent # None
  PROVE  /\ call[c] \in CallState /\ call[c].op \in Operation
         /\ call[c].phase \notin Unsent
         /\ XUrl(call[c]) # None
         /\ call[c].sent.url = XUrl(call[c])
         /\ call[c].sent.alternative = call[c].alternative
         /\ call[c].sent.credentials = XCredentials(call[c])
         /\ DOMAIN call[c].sent.credentials = DOMAIN call[c].got
         /\ DOMAIN call[c].got = 1..Len(call[c].got)
         /\ \A i \in DOMAIN call[c].got :
              /\ call[c].got[i] \in Given
              /\ call[c].sent.credentials[i].credential = call[c].got[i].credential
              /\ call[c].sent.credentials[i].form = XPlaced(call[c], call[c].got[i])
<1> DEFINE x == call[c]
<1>1. x \in CallState /\ Owned(x, gated[c], held[c], bound[c], wrote[c])
  BY DEF IInv, ExecutionTypeOK, CallInv
<1>2. x.sent # None
  OBVIOUS
<1>3. x.got \in Seq(Given)
  BY <1>1 DEF CallState
<1> HIDE DEF x
<1>4. x.phase \notin Unsent /\ x.op \in Operation
  BY <1>1, <1>2 DEF Owned, Staged, Unsent, Planning
<1>5. /\ XUrl(x) # None
      /\ x.sent = [url |-> XUrl(x), alternative |-> x.alternative, credentials |-> XCredentials(x)]
  BY <1>1, <1>2 DEF Owned, Carried
<1>6. /\ DOMAIN XCredentials(x) = DOMAIN x.got
      /\ \A i \in DOMAIN x.got :
           /\ XCredentials(x)[i].credential = x.got[i].credential
           /\ XCredentials(x)[i].form = XPlaced(x, x.got[i])
  BY DEF XCredentials
<1>7. DOMAIN x.got = 1..Len(x.got) /\ \A i \in DOMAIN x.got : x.got[i] \in Given
  BY <1>3, GivenType
<1>8. QED
  BY <1>1, <1>4, <1>5, <1>6, <1>7 DEF x

LEMMA OwnTenantLemma == IInv => OwnTenantOnly
<1> SUFFICES ASSUME IInv, NEW c \in Call, call[c].sent # None
             PROVE  /\ \A e \in DOMAIN call[c].sent.url :
                         \/ call[c].sent.url[e] \in bound[c][e]
                         \/ /\ call[c].sent.url[e] = Default[e]
                            /\ bound[c][e] \cap {None, Blank} # {}
                    /\ \A g \in Range(call[c].sent.credentials) :
                         /\ g.form.secret \in held[c][g.credential]
                         /\ g.credential \in Joined => g.form.user \in bound[c][g.credential]
  BY DEF OwnTenantOnly
<1> DEFINE x == call[c]
           b == bound[c]
           h == held[c]
           es == Range(EndpointsOf[x.op])
<1>1. Owned(x, gated[c], h, b, wrote[c])
  BY DEF IInv, CallInv
<1>2. x \in CallState /\ x.phase \notin {"new", "projecting"}
  BY SentFacts DEF Unsent, Planning
<1>3. (\A e \in es : Resolved(x, b, e)) /\ \A k \in Joined : FromBound(x, b, k)
  BY <1>1, <1>2 DEF Owned, Projected
<1>4. x.sent.url = [e \in es |-> x.settings[e]] /\ \A e \in es : x.settings[e] # None
  <2>1. XUrl(x) # None /\ x.sent.url = XUrl(x)
    BY SentFacts
  <2>2. QED
    BY <2>1 DEF XUrl, Usable
<1> HIDE DEF es
<1>5. ASSUME NEW e \in DOMAIN x.sent.url
      PROVE  x.sent.url[e] \in b[e] \/ (x.sent.url[e] = Default[e] /\ b[e] \cap {None, Blank} # {})
  <2>1. e \in es /\ x.sent.url[e] = x.settings[e] /\ x.settings[e] # None
    BY <1>4
  <2>2. QED
    BY <1>3, <2>1 DEF Resolved, FromBound
<1>6. ASSUME NEW g \in Range(x.sent.credentials)
      PROVE  /\ g.form.secret \in h[g.credential]
             /\ g.credential \in Joined => g.form.user \in b[g.credential]
  <2>1. PICK i \in DOMAIN x.sent.credentials : g = x.sent.credentials[i]
    BY DEF Range
  <2>2. /\ i \in DOMAIN x.got
        /\ g.credential = x.got[i].credential /\ g.form = XPlaced(x, x.got[i])
    BY <2>1, SentFacts
  <2>3. /\ g.form.secret = x.got[i].secret
        /\ g.credential \in Joined => g.form.user = x.settings[g.credential]
    BY <1>2, <2>2, FormType
  <2>4. /\ x.got[i].secret \in h[g.credential]
        /\ g.credential \in Joined => x.settings[g.credential] # None
    BY <1>1, <2>2 DEF Owned, Assembled, Gathered
  <2>5. QED
    BY <1>3, <2>3, <2>4 DEF FromBound
<1>7. QED
  BY <1>5, <1>6

LEMMA LackedOver ==
  ASSUME NEW c \in Call
  PROVE  \A j : Lacked(c, j) = XLacked(call[c], held[c], j)
BY DEF Lacked, XLacked

LEMMA WholeLemma == IInv => WholeAlternative
<1> SUFFICES ASSUME IInv, NEW c \in Call
             PROVE  /\ call[c].sent # None =>
                         /\ IF Alternatives[call[c].op] = <<>> THEN call[c].sent.credentials = <<>>
                            ELSE NamesOf(call[c].sent.credentials)
                                   = Alternatives[call[c].op][call[c].sent.alternative]
                         /\ \A j \in 1..(call[c].sent.alternative - 1) : Lacked(c, j)
                    /\ call[c].answer = "MissingCredential" =>
                         \A j \in DOMAIN Alternatives[call[c].op] : Lacked(c, j)
  BY DEF WholeAlternative
<1> DEFINE x == call[c]
<1>1. Assembled(x, held[c])
  BY DEF IInv, CallInv, Owned
<1>2. x.answer = "MissingCredential" => \A j \in DOMAIN Alternatives[x.op] : Lacked(c, j)
  BY <1>1, LackedOver DEF Assembled
<1>3. ASSUME x.sent # None
      PROVE  /\ IF Alternatives[x.op] = <<>> THEN x.sent.credentials = <<>>
                ELSE NamesOf(x.sent.credentials) = Alternatives[x.op][x.sent.alternative]
             /\ \A j \in 1..(x.sent.alternative - 1) : Lacked(c, j)
  <2>1. \A j \in 1..(x.sent.alternative - 1) : Lacked(c, j)
    BY <1>1, <1>3, SentFacts, LackedOver DEF Assembled
  <2>2. CASE Alternatives[x.op] = <<>>
    <3>1. x.got = <<>>
      BY <1>1, <1>3, <2>2 DEF Assembled
    <3>2. x.sent.credentials = XCredentials(x)
      BY <1>3, SentFacts
    <3>3. XCredentials(x) = <<>>
      BY <3>1 DEF XCredentials
    <3>4. QED
      BY <2>1, <2>2, <3>2, <3>3
  <2>3. CASE Alternatives[x.op] # <<>>
    <3> DEFINE m == Alternatives[x.op][x.alternative]
               cs == x.sent.credentials
    <3>1. x.alternative \in DOMAIN Alternatives[x.op] /\ Len(x.got) = Len(m)
      BY <1>1, <1>3, <2>3 DEF Assembled, XMechanism
    <3>2. m \in Seq(Credential)
      BY <1>3, <3>1, SentFacts, AlternativesType
    <3>3. DOMAIN cs = 1..Len(m) /\ x.sent.alternative = x.alternative
      BY <1>3, <3>1, SentFacts
    <3>4. \A i \in DOMAIN cs : cs[i].credential = m[i]
      <4>1. \A i \in DOMAIN x.got : x.got[i].credential = m[i]
        BY <1>1 DEF Assembled, Gathered, XMechanism
      <4>2. QED
        BY <1>3, <4>1, SentFacts
    <3> HIDE DEF m, cs
    <3>5. m = [i \in 1..Len(m) |-> m[i]]
      BY <3>2
    <3>6. NamesOf(cs) = [i \in 1..Len(m) |-> m[i]]
      BY <3>3, <3>4 DEF NamesOf
    <3>7. QED
      BY <2>1, <2>3, <3>3, <3>5, <3>6 DEF m, cs
  <2>4. QED
    BY <2>2, <2>3
<1>4. QED
  BY <1>2, <1>3

LEMMA CallableLemma == IInv => CallableIsTruthful
<1> SUFFICES ASSUME IInv, NEW c \in Call,
                    \A k \in Credential : \E s \in Entry : held[c][k] = {s}
             PROVE  /\ call[c].answer = "MissingCredential" =>
                         ~IsCallable(call[c].op, {k \in Credential : None \notin held[c][k]})
                    /\ call[c].sent # None =>
                         \/ call[c].op \in Withheld
                         \/ IsCallable(call[c].op, {k \in Credential : None \notin held[c][k]})
  BY DEF CallableIsTruthful
<1> DEFINE x == call[c]
           stored == {k \in Credential : None \notin held[c][k]}
<1>1. Assembled(x, held[c])
  BY DEF IInv, CallInv, Owned
<1>2. ASSUME x.answer = "MissingCredential"
      PROVE  ~IsCallable(x.op, stored)
  <2>1. Alternatives[x.op] # <<>>
    BY <1>1, <1>2 DEF Assembled
  <2>2. \A j \in DOMAIN Alternatives[x.op] : ~(Range(Alternatives[x.op][j]) \subseteq stored)
    BY <1>1, <1>2 DEF Assembled, XLacked
  <2>3. QED
    BY <2>1, <2>2 DEF IsCallable, Range
<1>3. ASSUME x.sent # None, x.op \notin Withheld
      PROVE  IsCallable(x.op, stored)
  <2>1. CASE Alternatives[x.op] = <<>>
    BY <1>3, <2>1 DEF IsCallable
  <2>2. CASE Alternatives[x.op] # <<>>
    <3> DEFINE m == Alternatives[x.op][x.alternative]
    <3>1. x.alternative \in DOMAIN Alternatives[x.op] /\ Len(x.got) = Len(m)
      BY <1>1, <1>3, <2>2 DEF Assembled, XMechanism
    <3>2. m \in Seq(Credential) /\ m \in Range(Alternatives[x.op])
      BY <1>3, <3>1, SentFacts, AlternativesType DEF Range
    <3>3. \A i \in DOMAIN m : m[i] \in stored
      <4>1. SUFFICES ASSUME NEW i \in DOMAIN m PROVE m[i] \in stored
        OBVIOUS
      <4>2. i \in DOMAIN x.got /\ x.got[i] \in Given
        BY <1>3, <3>1, <3>2, SentFacts
      <4>3. x.got[i].credential = m[i] /\ x.got[i].secret \in held[c][m[i]]
        BY <1>1, <4>2 DEF Assembled, Gathered, XMechanism
      <4>4. x.got[i].secret # None /\ m[i] \in Credential
        BY <3>2, <4>2, ExecutionAssumption DEF Given
      <4>5. PICK s \in Entry : held[c][m[i]] = {s}
        BY <4>4
      <4>6. None \notin held[c][m[i]]
        BY <4>3, <4>4, <4>5
      <4> HIDE DEF m
      <4>7. QED
        BY <4>4, <4>6
    <3> HIDE DEF m, stored
    <3>4. Range(m) \subseteq stored
      BY <3>3 DEF Range
    <3>5. QED
      BY <1>3, <3>2, <3>4 DEF IsCallable
  <2>3. QED
    BY <2>1, <2>2
<1>4. QED
  BY <1>2, <1>3

LEMMA HeldLemma == IInv => HeldBeforeItTravels
<1> SUFFICES ASSUME IInv, NEW c \in Call
             PROVE  /\ \A form \in Travelled(c) :
                         form \in call[c].redactor /\ form.secret \notin Short
                    /\ wrote[c] # None =>
                         Plain(wrote[c]) \in call[c].redactor /\ wrote[c] \notin Short
                    /\ call[c].shows = {}
  BY DEF HeldBeforeItTravels
<1> DEFINE x == call[c]
<1>1. Owned(x, gated[c], held[c], bound[c], wrote[c]) /\ x \in CallState
  BY DEF IInv, CallInv, ExecutionTypeOK
<1>2. x.shows = {} /\ (wrote[c] # None => Plain(wrote[c]) \in x.redactor /\ wrote[c] \notin Short)
  BY <1>1 DEF Owned, Staged, Minted
<1>3. ASSUME NEW form \in Travelled(c)
      PROVE  form \in x.redactor /\ form.secret \notin Short
  <2>1. x.sent # None
    BY <1>3 DEF Travelled
  <2>2. PICK i \in DOMAIN x.sent.credentials : form = x.sent.credentials[i].form
    BY <1>3, <2>1 DEF Travelled
  <2>3. i \in DOMAIN x.got /\ form = XPlaced(x, x.got[i])
    BY <2>1, <2>2, SentFacts
  <2>4. /\ XRedactions(x) \subseteq x.redactor
        /\ \A r \in XRedactions(x) : CanHold(r)
    BY <1>1, <2>1 DEF Owned, Carried
  <2>5. /\ form \in XRedactions(x) /\ Plain(x.got[i].secret) \in XRedactions(x)
        /\ form.secret = x.got[i].secret
    BY <1>1, <2>3, FormType
  <2>6. QED
    BY <2>4, <2>5 DEF CanHold, Plain
<1>4. QED
  BY <1>2, <1>3

LEMMA GateLemma == IInv => GateMatchesRequest
<1> SUFFICES ASSUME IInv, NEW c \in Call, call[c].sent # None, gated[c] # None
             PROVE  call[c].sent.url = gated[c]
  BY DEF GateMatchesRequest
<1>1. gated[c] = XUrl(call[c])
  BY DEF IInv, CallInv, Owned, Carried
<1>2. QED
  BY <1>1, SentFacts

LEMMA HandleLemma == IInv => HandleNamesStored
BY DEF IInv, CallInv, Owned, Minted, HandleNamesStored

-----------------------------------------------------------------------------
(* The theorems *)

\* Whatever the calls and the operators do, in any order, each call stays what
\* IInv says of it.
THEOREM Inductive == ExecutionSpec => []IInv
<1>1. ExecutionInit => IInv
  BY InitInv
<1>2. IInv /\ [ExecutionNext]_executionVars => IInv'
  BY NextInv
<1>3. QED
  BY <1>1, <1>2, PTL DEF ExecutionSpec

\* Every call keeps the shape its program gives it: in particular no request
\* is built over an unresolved variable.
THEOREM TypeCorrect == ExecutionSpec => []ExecutionTypeOK
BY Inductive, PTL DEF IInv

\* A request carries its own tenant's settings and secrets and nobody else's,
\* however many tenants call and write at once.
THEOREM CarriesItsOwn == ExecutionSpec => []OwnTenantOnly
BY Inductive, OwnTenantLemma, PTL

\* A request carries one alternative whole, and a credential is reported
\* missing only when every alternative really lacked one.
THEOREM CarriesOneAlternative == ExecutionSpec => []WholeAlternative
BY Inductive, WholeLemma, PTL

\* While a tenant's entries stay, its connector's page agrees with what a call
\* meets.
THEOREM PageIsTruthful == ExecutionSpec => []CallableIsTruthful
BY Inductive, CallableLemma, PTL

\* A secret is held by the call's redactor, in the form that travels, before it
\* leaves or is stored; no answer shows it.
THEOREM RedactedFirst == ExecutionSpec => []HeldBeforeItTravels
BY Inductive, HeldLemma, PTL

\* The URL the permission gate was shown is the URL requested.
THEOREM GateIsKept == ExecutionSpec => []GateMatchesRequest
BY Inductive, GateLemma, PTL

\* A handle is answered only for a secret that was stored.
THEOREM HandleIsBacked == ExecutionSpec => []HandleNamesStored
BY Inductive, HandleLemma, PTL

=============================================================================
