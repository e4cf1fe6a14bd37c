----------------------------- MODULE Execution -----------------------------
(***************************************************************************)
(* Running operations on the host (connectors-api exec.rs and api.rs,      *)
(* connector-pack tool.rs, credentials.rs and mint.rs, connector-resolve): *)
(* a call projects its operation over a snapshot of the caller's settings, *)
(* assembles the caller's credentials from the store, sends one request    *)
(* and answers.  Operators write settings and credentials meanwhile, and   *)
(* an operation may mint a credential into the same store.                 *)
(*                                                                         *)
(* Every read of a setting takes and releases the settings' lock, and every*)
(* use of the store is awaited: these are the steps of a call.  A call that*)
(* is waiting may be dropped with its connection.                          *)
(*                                                                         *)
(* A form is one string that stands for a secret: the secret itself, joined*)
(* with a user name, or percent-encoded for a query, which here always     *)
(* changes it.  The catalogue's declarations are constants; parameters, the*)
(* body and the rest of a request are left out.  External: the store reads *)
(* and writes one entry atomically or fails; the vendor may echo whatever  *)
(* it was sent; the redactor drops a short secret.                         *)
(***************************************************************************)
EXTENDS Naturals, Sequences, Functions

CONSTANTS
  Tenant, Call, Operation, Credential, Endpoint,
  Secret, Setting,
  None,          \* no entry, no value, no request
  Blank,         \* a setting of white space only
  Alternatives,  \* per operation, its credentials: alternatives, in order
  EndpointsOf,   \* per operation, its endpoint variables, in order
  Withheld,      \* the operations whose credential the catalogue withholds
  Mints,         \* per operation, the credential it mints or None
  Users,         \* the BasicJoin credentials, in order: each has a user name
  Queried,       \* the credentials placed in the query
  Default,       \* per endpoint variable, its declared default or None
  Operators,     \* the endpoint variables only an operator may approve
  Unsafe,        \* the settings a URL position refuses
  ClosedTo,      \* per field, the values it is closed to
  Short,         \* the secrets the redactor does not hold
  MaxWrites      \* bound: the operators' writes

Joined == Range(Users)
Field == Endpoint \cup Joined

\* How a call can end: the errors' codes, the vendor's answer, or a handle.
Reply == {"MissingCredential", "MissingCredentialConfig", "CredentialStore",
          "UnredactableCredential", "UnusableConfig", "Content", "Transport",
          "CredentialNotMinted", "Handle"}

ASSUME ExecutionAssumption ==
  /\ Alternatives \in [Operation -> Seq(Seq(Credential) \ {<<>>})]
  /\ EndpointsOf \in [Operation -> Seq(Endpoint)]
  /\ Mints \in [Operation -> Credential \cup {None}]
  /\ Users \in Seq(Credential)
  /\ Default \in [Endpoint -> Setting \cup {None}]
  /\ ClosedTo \in [Field -> SUBSET Setting]
  /\ None \notin Secret \cup Setting \cup Credential \cup Tenant \cup Operation \cup Reply
  /\ Endpoint \cap Credential = {}
  /\ Blank \notin Range(Default) /\ MaxWrites \in Nat

VARIABLES
  settings,  \* Settings: per tenant and field, a value or None
  secrets,   \* the secret store: per tenant and credential
  call,      \* the calls in progress
  writes,    \* how many writes the operators have made
  gated,     \* history: the URL a call's permission gate was shown
  held,      \* history: the entries its tenant had while it was assembled
  bound,     \* history: the settings its tenant had while it was projected
  wrote      \* history: the secret a call has written to the store

host == <<settings, secrets>>
histories == <<gated, held, bound, wrote>>
executionVars == <<settings, secrets, call, writes, gated, held, bound, wrote>>

Entry == Secret \cup {None}
Value == Setting \cup {None}

New == [phase |-> "new", tenant |-> None, op |-> None, read |-> 0,
        settings |-> [f \in Field |-> None], alternative |-> 1, got |-> <<>>,
        redactor |-> {}, sent |-> None, minted |-> None, answer |-> None,
        shows |-> {}]

ExecutionInit ==
  /\ settings \in [Tenant -> [Field -> Value]]
  /\ secrets \in [Tenant -> [Credential -> Entry]]
  /\ call = [c \in Call |-> New]
  /\ writes = 0
  /\ gated = [c \in Call |-> None]
  /\ held = [c \in Call |-> [k \in Credential |-> {}]]
  /\ bound = [c \in Call |-> [f \in Field |-> {}]]
  /\ wrote = [c \in Call |-> None]

\* The call ends with a refusal and nothing of the vendor's answer.
RefuseCall(c, reason) ==
  call' = [call EXCEPT ![c].phase = "done", ![c].answer = reason]

-----------------------------------------------------------------------------
(* Projecting: Configuration::snapshot and the declared defaults *)

Fields(op) == EndpointsOf[op] \o Users

\* execute: both ports are bound to the caller's tenant.
Begin(c, t, op) ==
  /\ call[c].phase = "new"
  /\ call' = [call EXCEPT ![c].phase = "projecting", ![c].tenant = t, ![c].op = op]
  /\ bound' = [bound EXCEPT ![c] = [f \in Field |-> {settings[t][f]}]]
  /\ UNCHANGED <<host, writes, gated, held, wrote>>

\* Mutant of Bound: the field of any tenant that has it bound.
BoundAnywhere(t, f) ==
  IF settings[t][f] # None \/ \A u \in Tenant : settings[u][f] = None THEN settings[t][f]
  ELSE settings[CHOOSE u \in Tenant : settings[u][f] # None][f]

\* What the snapshot takes of one field: ConfigStore::get for the tenant, a value
\* of white space filtered out.
Bound(t, f) == IF settings[t][f] = Blank THEN None ELSE settings[t][f]

\* One field is read, under a lock of its own.
ReadField(c) ==
  LET f == Fields(call[c].op)[call[c].read + 1]
  IN  /\ call[c].phase = "projecting"
      /\ call[c].read < Len(Fields(call[c].op))
      /\ call' = [call EXCEPT ![c].read = @ + 1,
                              ![c].settings[f] = Bound(call[c].tenant, f)]
      /\ UNCHANGED <<host, writes, histories>>

Defaulted(bindings) ==
  [f \in Field |-> IF f \in Endpoint /\ bindings[f] = None THEN Default[f] ELSE bindings[f]]

Project(c) ==
  /\ call[c].phase = "projecting"
  /\ call[c].read = Len(Fields(call[c].op))
  /\ call' = [call EXCEPT ![c].phase = "projected", ![c].settings = Defaulted(@)]
  /\ UNCHANGED <<host, writes, histories>>

\* The declared default passes; anything else would need an operator's
\* approval, which this host's settings never carry.
Approved(e, v) == e \in Operators => v = Default[e]

Usable(e, v) == v # None /\ Approved(e, v) /\ v \notin Unsafe

\* Mutant of UrlOf: the settings are read again when the URL is built.
UrlOfLive(c) ==
  LET es == Range(EndpointsOf[call[c].op])
      v(e) == Bound(call[c].tenant, e)
  IN  IF \A e \in es : Usable(e, v(e)) THEN [e \in es |-> v(e)] ELSE None

\* build_request: the URL over the snapshot, or None when it refuses.
UrlOf(c) ==
  LET es == Range(EndpointsOf[call[c].op])
      v(e) == call[c].settings[e]
  IN  IF \A e \in es : Usable(e, v(e)) THEN [e \in es |-> v(e)] ELSE None

\* permission_subjects: the runtime that dispatches a projected operation may
\* ask what it would reach.
Gate(c) ==
  /\ call[c].phase = "projected"
  /\ gated[c] = None /\ UrlOf(c) # None
  /\ gated' = [gated EXCEPT ![c] = UrlOf(c)]
  /\ UNCHANGED <<host, call, writes, held, bound, wrote>>

-----------------------------------------------------------------------------
(* Assembling: assemble_credentials *)

\* Tool::execute: an operation that declares no credential needs none.
Execute(c) ==
  /\ call[c].phase = "projected"
  /\ call' = [call EXCEPT ![c].phase =
       IF Alternatives[call[c].op] = <<>> THEN "assembled" ELSE "assembling"]
  /\ held' = [held EXCEPT ![c] = [k \in Credential |-> {secrets[call[c].tenant][k]}]]
  /\ UNCHANGED <<host, writes, gated, bound, wrote>>

Mechanism(c) == Alternatives[call[c].op][call[c].alternative]
Wanted(c) == Mechanism(c)[Len(call[c].got) + 1]

\* Mutant of Read: an entry of another tenant answers when this one's is empty.
ReadAnywhere(t, k) ==
  IF secrets[t][k] # None \/ \A u \in Tenant : secrets[u][k] = None THEN secrets[t][k]
  ELSE secrets[CHOOSE u \in Tenant : secrets[u][k] # None][k]

Read(t, k) == secrets[t][k]

\* The user half of a joined credential is bound in the snapshot.
UserReady(c, k) == k \in Joined => call[c].settings[k] # None

Collected(c) ==
  Append(call[c].got,
         [credential |-> Wanted(c), secret |-> Read(call[c].tenant, Wanted(c))])

GetFound(c) ==
  /\ Read(call[c].tenant, Wanted(c)) # None
  /\ IF UserReady(c, Wanted(c))
     THEN call' = [call EXCEPT ![c].got = Collected(c),
                    ![c].phase = IF Len(Collected(c)) = Len(Mechanism(c))
                                 THEN "assembled" ELSE "assembling"]
     ELSE RefuseCall(c, "MissingCredentialConfig")

\* The next alternative starts from nothing.
Fallback(c) ==
  IF call[c].alternative < Len(Alternatives[call[c].op])
  THEN call' = [call EXCEPT ![c].alternative = @ + 1, ![c].got = <<>>]
  ELSE RefuseCall(c, "MissingCredential")

GetMissing(c) == Read(call[c].tenant, Wanted(c)) = None /\ Fallback(c)

\* Mutant of GetFailed: a store that cannot answer counts as an empty entry.
GetFailedOver(c) == Fallback(c)

\* Any other error of the store ends the assembly.
GetFailed(c) == RefuseCall(c, "CredentialStore")

Get(c) ==
  /\ call[c].phase = "assembling"
  /\ GetFound(c) \/ GetMissing(c) \/ GetFailed(c)
  /\ UNCHANGED <<host, writes, histories>>

-----------------------------------------------------------------------------
(* Sending *)

Plain(s) == [secret |-> s, user |-> None, encoded |-> FALSE]

\* acquire: the secret, or joined with its user name.
Acquired(c, g) ==
  [Plain(g.secret) EXCEPT !.user =
     IF g.credential \in Joined THEN call[c].settings[g.credential] ELSE None]

\* place: what travels.
Placed(c, g) == [Acquired(c, g) EXCEPT !.encoded = g.credential \in Queried]

\* Mutant of Redactions: the placed form is left to the acquired one.
RedactionsUnplaced(c) ==
  UNION {{Plain(g.secret), Acquired(c, g)} : g \in Range(call[c].got)}

Redactions(c) ==
  UNION {{Plain(g.secret), Acquired(c, g), Placed(c, g)} : g \in Range(call[c].got)}

\* Mutant of CanHold: registering is taken for holding.
CanHoldAnything(form) == TRUE

CanHold(form) == form.secret \notin Short \/ form.user # None

Dispatched(c) ==
  [url |-> UrlOf(c), alternative |-> call[c].alternative,
   credentials |-> [i \in DOMAIN call[c].got |->
     [credential |-> call[c].got[i].credential, form |-> Placed(c, call[c].got[i])]]]

\* Every form is registered before a request exists; then the URL, then the
\* credentials are placed and the request leaves.
Dispatch(c) ==
  /\ call[c].phase = "assembled"
  /\ IF \E form \in Redactions(c) : ~CanHold(form) THEN RefuseCall(c, "UnredactableCredential")
     ELSE IF UrlOf(c) = None THEN RefuseCall(c, "UnusableConfig")
     ELSE call' = [call EXCEPT ![c].phase = "sent", ![c].sent = Dispatched(c),
                               ![c].redactor = Redactions(c)]
  /\ UNCHANGED <<host, writes, histories>>

Travelled(c) ==
  IF call[c].sent = None THEN {}
  ELSE {call[c].sent.credentials[i].form : i \in DOMAIN call[c].sent.credentials}

\* All forms of the secrets a call was given: what a vendor might echo.
Echo(c) ==
  UNION {{Plain(g.secret), Acquired(c, g), Placed(c, g)} : g \in Range(call[c].got)}

Respond(c) ==
  /\ call[c].phase = "sent" /\ Mints[call[c].op] = None
  /\ \/ call' = [call EXCEPT ![c].phase = "done", ![c].answer = "Content",
                             ![c].shows = Echo(c) \ call[c].redactor]
     \/ RefuseCall(c, "Transport")
  /\ UNCHANGED <<host, writes, histories>>

-----------------------------------------------------------------------------
(* Minting: divert and Credentials::mint *)

\* Mutant of Diverted: stored first, registered when it is used.
DivertedUnregistered(c, s) == [call[c] EXCEPT !.phase = "minting", !.minted = s]

Diverted(c, s) ==
  [call[c] EXCEPT !.phase = "minting", !.minted = s, !.redactor = @ \cup {Plain(s)}]

\* The answer is never carried: it holds a secret to take or it is withheld.
Divert(c) ==
  /\ call[c].phase = "sent" /\ Mints[call[c].op] # None
  /\ \/ RefuseCall(c, "CredentialNotMinted")
     \/ \E s \in Secret :
          IF CanHold(Plain(s)) THEN call' = [call EXCEPT ![c] = Diverted(c, s)]
          ELSE RefuseCall(c, "UnredactableCredential")
  /\ UNCHANGED <<host, writes, histories>>

\* The history of every call of this tenant that is assembling.
Recorded(t, k, s) ==
  [c \in Call |-> IF call[c].phase = "assembling" /\ call[c].tenant = t
                  THEN [held[c] EXCEPT ![k] = @ \cup {s}] ELSE held[c]]

Store(t, k, s) ==
  /\ secrets' = [secrets EXCEPT ![t][k] = s]
  /\ held' = Recorded(t, k, s)

MintPut(c) ==
  /\ call[c].phase = "minting"
  /\ Store(call[c].tenant, Mints[call[c].op], call[c].minted)
  /\ wrote' = [wrote EXCEPT ![c] = call[c].minted]
  /\ \/ call' = [call EXCEPT ![c].phase = "minted"]
     \/ RefuseCall(c, "CredentialStore")   \* the store wrote it and could not say so
  /\ UNCHANGED <<settings, writes, gated, bound>>

\* Mutant of MintFailed: the store's error is dropped.
MintFailedSilently(c) ==
  /\ call[c].phase = "minting"
  /\ call' = [call EXCEPT ![c].phase = "minted"]
  /\ UNCHANGED <<host, writes, histories>>

MintFailed(c) ==
  /\ call[c].phase = "minting"
  /\ RefuseCall(c, "CredentialStore")
  /\ UNCHANGED <<host, writes, histories>>

\* handle: the address, never the value.
AnswerHandle(c) ==
  /\ call[c].phase = "minted"
  /\ call' = [call EXCEPT ![c].phase = "done", ![c].answer = "Handle"]
  /\ UNCHANGED <<host, writes, histories>>

\* The connection goes away while the call waits; its future is dropped.
Drop(c) ==
  /\ call[c].phase \in {"assembling", "sent", "minting", "minted"}
  /\ call' = [call EXCEPT ![c].phase = "dropped"]
  /\ UNCHANGED <<host, writes, histories>>

-----------------------------------------------------------------------------
(* The operators: put_credential, delete_credential, put_config *)

Writes == writes < MaxWrites /\ writes' = writes + 1

PutCredential(t, k, s) ==
  /\ Writes
  /\ Store(t, k, s)
  /\ UNCHANGED <<settings, call, gated, bound, wrote>>

DeleteCredential(t, k) ==
  /\ Writes
  /\ Store(t, k, None)
  /\ UNCHANGED <<settings, call, gated, bound, wrote>>

\* A closed field takes one of its choices only.
PutConfig(t, f, v) ==
  /\ Writes
  /\ v \in ClosedTo[f]
  /\ settings' = [settings EXCEPT ![t][f] = v]
  /\ bound' = [c \in Call |-> IF call[c].phase = "projecting" /\ call[c].tenant = t
                              THEN [bound[c] EXCEPT ![f] = @ \cup {v}] ELSE bound[c]]
  /\ UNCHANGED <<secrets, call, gated, held, wrote>>

Step(c) ==
  \/ ReadField(c) \/ Project(c) \/ Gate(c) \/ Execute(c) \/ Get(c) \/ Dispatch(c)
  \/ Respond(c) \/ Divert(c) \/ MintPut(c) \/ MintFailed(c) \/ AnswerHandle(c)

ExecutionNext ==
  \/ \E c \in Call : Step(c) \/ Drop(c) \/ \E t \in Tenant, op \in Operation : Begin(c, t, op)
  \/ \E t \in Tenant, k \in Credential :
       DeleteCredential(t, k) \/ \E s \in Secret : PutCredential(t, k, s)
  \/ \E t \in Tenant, f \in Field, v \in Setting : PutConfig(t, f, v)

ExecutionSpec == ExecutionInit /\ [][ExecutionNext]_executionVars

-----------------------------------------------------------------------------
(* Type correctness *)

Form == [secret : Secret, user : Value, encoded : BOOLEAN]
Url == UNION {[es -> Setting] : es \in SUBSET Endpoint}
Given == [credential : Credential, secret : Secret]
Request == [url : Url, alternative : Nat \ {0},
            credentials : Seq([credential : Credential, form : Form])]
Phase == {"new", "projecting", "projected", "assembling", "assembled", "sent",
          "minting", "minted", "done", "dropped"}
CallState ==
  [phase : Phase, tenant : Tenant \cup {None}, op : Operation \cup {None},
   read : Nat, settings : [Field -> Value], alternative : Nat \ {0},
   got : Seq(Given), redactor : SUBSET Form, sent : Request \cup {None},
   minted : Entry, answer : Reply \cup {None}, shows : SUBSET Form]

\* A request in particular names no unresolved variable and no other secret
\* than those of the store.
ExecutionTypeOK ==
  /\ settings \in [Tenant -> [Field -> Value]]
  /\ secrets \in [Tenant -> [Credential -> Entry]]
  /\ call \in [Call -> CallState]
  /\ writes \in 0..MaxWrites
  /\ gated \in [Call -> Url \cup {None}]
  /\ held \in [Call -> [Credential -> SUBSET Entry]]
  /\ bound \in [Call -> [Field -> SUBSET Value]]
  /\ wrote \in [Call -> Entry]

-----------------------------------------------------------------------------
(* Safety *)

\* Everything a request carries is the calling tenant's own: each setting in
\* its URL had that value while the call was projected, or is the declared
\* default of a variable that was unbound then, and each secret was at its
\* address while the call was assembled, whoever else wrote meanwhile.
OwnTenantOnly ==
  \A c \in Call : call[c].sent # None =>
    /\ \A e \in DOMAIN call[c].sent.url :
         \/ call[c].sent.url[e] \in bound[c][e]
         \/ call[c].sent.url[e] = Default[e] /\ bound[c][e] \cap {None, Blank} # {}
    /\ \A x \in Range(call[c].sent.credentials) :
         /\ x.form.secret \in held[c][x.credential]
         /\ x.credential \in Joined => x.form.user \in bound[c][x.credential]

\* Something alternative j needs was missing at some moment of the assembly.
Lacked(c, j) ==
  \E k \in Range(Alternatives[call[c].op][j]) : None \in held[c][k]

NamesOf(credentials) == [i \in DOMAIN credentials |-> credentials[i].credential]

\* A request carries the credentials of exactly one alternative, all of them
\* and nothing an earlier one had collected; an alternative is passed over,
\* and a missing credential reported, only for what really was missing.
WholeAlternative ==
  \A c \in Call :
    /\ call[c].sent # None =>
         /\ IF Alternatives[call[c].op] = <<>> THEN call[c].sent.credentials = <<>>
            ELSE NamesOf(call[c].sent.credentials)
                   = Alternatives[call[c].op][call[c].sent.alternative]
         /\ \A j \in 1..(call[c].sent.alternative - 1) : Lacked(c, j)
    /\ call[c].answer = "MissingCredential" =>
         \A j \in DOMAIN Alternatives[call[c].op] : Lacked(c, j)

\* Mutant of IsCallable: one credential of a mechanism is enough.
IsCallableByAny(op, stored) ==
  /\ op \notin Withheld
  /\ \/ Alternatives[op] = <<>>
     \/ \E m \in Range(Alternatives[op]) : Range(m) \cap stored # {}

\* is_callable, what the connector's page says of an operation.
IsCallable(op, stored) ==
  /\ op \notin Withheld
  /\ \/ Alternatives[op] = <<>>
     \/ \E m \in Range(Alternatives[op]) : Range(m) \subseteq stored

\* The page and the assembly agree: while nothing of the tenant's store
\* changes, an operation shown as callable never ends in a missing credential,
\* and one shown as not callable is never sent, unless its credential is
\* withheld.  The page does not look at user names: an operation it shows as
\* callable can still end in MissingCredentialConfig.
CallableIsTruthful ==
  \A c \in Call :
    LET stored == {k \in Credential : None \notin held[c][k]}
        quiet == \A k \in Credential : \E s \in Entry : held[c][k] = {s}
    IN  quiet => /\ call[c].answer = "MissingCredential" => ~IsCallable(call[c].op, stored)
                 /\ call[c].sent # None =>
                      call[c].op \in Withheld \/ IsCallable(call[c].op, stored)

\* What travels, and what is minted into the store, the call's redactor holds,
\* in the very form that travels; so no answer shows a secret however the
\* vendor echoes it.
HeldBeforeItTravels ==
  \A c \in Call :
    /\ \A form \in Travelled(c) : form \in call[c].redactor /\ form.secret \notin Short
    /\ wrote[c] # None => Plain(wrote[c]) \in call[c].redactor /\ wrote[c] \notin Short
    /\ call[c].shows = {}

\* A call whose URL a permission gate has seen goes to that URL, whatever
\* settings are written in between.
GateMatchesRequest ==
  \A c \in Call :
    call[c].sent # None /\ gated[c] # None => call[c].sent.url = gated[c]

\* A handle is answered only for a secret this call has written, and a call
\* writes nothing but what the vendor minted for it under an operation that
\* declares so.
HandleNamesStored ==
  \A c \in Call :
    /\ call[c].answer = "Handle" => wrote[c] # None
    /\ wrote[c] # None => wrote[c] = call[c].minted /\ Mints[call[c].op] # None
=============================================================================
