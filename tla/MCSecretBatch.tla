--------------------------- MODULE MCSecretBatch ---------------------------
(***************************************************************************)
(* Model checking of SecretBatch: a builder adds every admissible sequence *)
(* of operations, and the invariants quantify over all entries the batch   *)
(* could be applied to.  The empty batch is left out of them.              *)
(***************************************************************************)
EXTENDS SecretBatch

VARIABLES
  touched,     \* the addresses the batch already names
  operations   \* the operations admitted so far, in order

vars == <<touched, operations>>

Init == touched = {} /\ operations = <<>>

\* move_secret, put and delete: one call of the builder.  A refused call
\* returns an error and leaves the batch as it was.
Add(m) ==
  /\ Admit(touched, m)
  /\ touched' = touched \cup Named(m)
  /\ operations' = Append(operations, m)

MoveSecret(from, to) == Add(Move(from, to))
Put(at, secret) == Add(PutAt(at, secret))
Delete(at) == Add(DeleteAt(at))

Next ==
  \/ \E from, to \in Addr : MoveSecret(from, to)
  \/ \E at \in Addr, secret \in Val : Put(at, secret)
  \/ \E at \in Addr : Delete(at)

Spec == Init /\ [][Next]_vars

Reorderings ==
  {[i \in DOMAIN operations |-> operations[p[i]]] :
     p \in {q \in [DOMAIN operations -> DOMAIN operations] :
              \A i, j \in DOMAIN operations : q[i] = q[j] => i = j}}

\* The result of a batch is independent of the order of its operations: it
\* refuses in every order or in none, and leaves the same entries (batch.rs
\* 9-10 promises this of admitting every address at most once).
OrderIndependent ==
  operations # <<>> =>
  \A e \in Entries : \A s \in Reorderings :
    LET one == ApplyTo(e, operations)
        other == ApplyTo(e, s)
    IN  one.ok = other.ok /\ (one.ok => one.entries = other.entries)

\* Applying the operations one by one computes the order-free Outcome that
\* MemoryStore and FileStore are specified with.
ApplyMatchesOutcome ==
  operations # <<>> =>
  \A e \in Entries :
    LET done == ApplyTo(e, operations)
        ms == Range(operations)
    IN  /\ done.ok = ~Refuses(e, ms)
        /\ done.ok => done.entries = Outcome(e, ms)

\* A batch bound to one tenant and authority never changes, reads into or
\* clears an address outside that scope, whatever the entries hold.
ScopeConfined ==
  operations # <<>> =>
  \A e, f \in Entries :
    (\A a \in Scope : e[a] = f[a]) =>
      LET one == ApplyTo(e, operations)
          other == ApplyTo(f, operations)
      IN  /\ one.ok = other.ok
          /\ one.ok => /\ \A a \in Scope : one.entries[a] = other.entries[a]
                       /\ \A a \in Addr \ Scope : one.entries[a] = e[a]

============================================================================
