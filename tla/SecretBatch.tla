---------------------------- MODULE SecretBatch ----------------------------
(***************************************************************************)
(* The checked batch of secret mutations (connector-secrets, batch.rs) as  *)
(* pure operators: which mutations a batch admits, and what applying a     *)
(* batch does to a store's entries.                                        *)
(*                                                                         *)
(* Entries are the store's map from address to value, written as a total   *)
(* function in which NoValue stands for a missing key.  An address is      *)
(* already rendered: the layout is injective, so it is left out.           *)
(***************************************************************************)
EXTENDS Naturals, Sequences, SequencesExt

CONSTANTS
  Addr,     \* credential addresses
  Val,      \* secret values
  NoValue,  \* no entry at this address
  Scope     \* the addresses of the tenant and authority a batch is bound to

ASSUME NoValueAssumption == NoValue \notin Val
ASSUME ScopeAssumption == Scope \subseteq Addr

Entries == [Addr -> Val \cup {NoValue}]

-----------------------------------------------------------------------------
(* Building a batch *)

Move(from, to) == [op |-> "move", from |-> from, to |-> to]
PutAt(at, secret) == [op |-> "put", at |-> at, secret |-> secret]
DeleteAt(at) == [op |-> "delete", at |-> at]

Mutation ==
  {Move(from, to) : from \in Addr, to \in Addr}
    \cup {PutAt(at, secret) : at \in Addr, secret \in Val}
    \cup {DeleteAt(at) : at \in Addr}

Named(m) == IF m.op = "move" THEN {m.from, m.to} ELSE {m.at}

\* Mutants of Admit: an address twice in one batch; an address of another scope.
AdmitRepeated(touched, m) == Named(m) \subseteq Scope
AdmitForeign(touched, m) == Named(m) \cap touched = {}

\* Every named address is inside the scope and was not touched before.  The two
\* ends of one move are compared with the earlier operations only.
Admit(touched, m) == Named(m) \subseteq Scope \ touched

-----------------------------------------------------------------------------
(* Applying a batch, one operation after the other *)

\* One operation on [ok, entries]: a move refuses an occupied destination and
\* a missing source; a refusal ends the batch.
ApplyOne(acc, m) ==
  LET entries == acc.entries
      refused == /\ m.op = "move"
                 /\ \/ entries[m.to] # NoValue
                    \/ entries[m.from] = NoValue
      changed ==
        CASE m.op = "move" ->
               [entries EXCEPT ![m.from] = NoValue, ![m.to] = entries[m.from]]
          [] m.op = "put" -> [entries EXCEPT ![m.at] = m.secret]
          [] m.op = "delete" -> [entries EXCEPT ![m.at] = NoValue]
  IN  IF ~acc.ok THEN acc
      ELSE IF refused THEN [ok |-> FALSE, entries |-> entries]
      ELSE [ok |-> TRUE, entries |-> changed]

ApplyTo(entries, operations) ==
  LET after[n \in 0 .. Len(operations)] ==
        IF n = 0 THEN [ok |-> TRUE, entries |-> entries]
        ELSE ApplyOne(after[n - 1], operations[n])
  IN  after[Len(operations)]

-----------------------------------------------------------------------------
(* The same outcome as a set of operations, which is what the stores use:  *)
(* it names no order.  MCSecretBatch checks that the two agree.            *)

\* Mutant of Refuses: a move overwrites an occupied destination.
RefusesMissingOnly(entries, operations) ==
  \E m \in operations : m.op = "move" /\ entries[m.from] = NoValue

Refuses(entries, operations) ==
  \E m \in operations :
    m.op = "move" /\ (entries[m.from] = NoValue \/ entries[m.to] # NoValue)

\* What operation m leaves at the address a it names.
Effect(entries, m, a) ==
  CASE m.op = "move" -> IF a = m.to THEN entries[m.from] ELSE NoValue
    [] m.op = "put" -> m.secret
    [] m.op = "delete" -> NoValue

Outcome(entries, operations) ==
  [a \in Addr |->
     IF \E m \in operations : a \in Named(m)
     THEN Effect(entries, CHOOSE m \in operations : a \in Named(m), a)
     ELSE entries[a]]
=============================================================================
