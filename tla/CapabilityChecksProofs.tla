------------------------ MODULE CapabilityChecksProofs ------------------------
(***************************************************************************)
(* Theorems about CapabilityChecks for any set of callers and any bounds.  *)
(***************************************************************************)
EXTENDS CapabilityChecks, TLAPS

\* The updates of a caller that wait in the queue, or have their turn.
Queued(op) == op # Idle /\ op.at \in {"marking", "writing", "queued", "listing"}

\* Only callers with an update are in the queue, each once.
QueueOK == \A i \in 1 .. Len(queue) : Queued(operation[queue[i]])

TypeInv ==
    /\ CapabilityTypeOK
    /\ QueueOK
    /\ Running => generation <= MaxBegun
    /\ service = "down" => generation = 0

\* What an operation can be.
LEMMA OperationCases ==
    ASSUME NEW op \in Operations
    PROVE  /\ op # Idle
           /\ \/ op \in Begun /\ op.kind \in {"check", "prepare"}
                 /\ op.at \in {"marking", "probing", "writing"}
              \/ op \in Refreshes /\ op.kind = "refresh" /\ op.at \in {"queued", "listing"}
              \/ op \in Joins /\ op.kind = "join" /\ op.at = "waiting"
  BY PlaceholdersAreNotValues DEF Operations, Begun, Refreshes, Joins

\* A sequence without repetitions has none when its first element is taken away or a
\* new one is added, and the first is not in the rest.
LEMMA TailKeepsInjective ==
    ASSUME NEW S, NEW q \in Seq(S), IsInjective(q), q # <<>>
    PROVE  /\ Tail(q) \in Seq(S) /\ IsInjective(Tail(q))
           /\ Len(Tail(q)) = Len(q) - 1
           /\ \A i \in 1 .. Len(Tail(q)) : Tail(q)[i] = q[i + 1] /\ Tail(q)[i] # Head(q)
  <1>1. /\ Len(q) \in Nat /\ Len(q) > 0 /\ DOMAIN q = 1 .. Len(q)
        /\ Tail(q) \in Seq(S) /\ Len(Tail(q)) = Len(q) - 1
        /\ Head(q) = q[1] /\ DOMAIN Tail(q) = 1 .. Len(q) - 1
    OBVIOUS
  <1>2. \A i \in 1 .. Len(Tail(q)) : Tail(q)[i] = q[i + 1]
    OBVIOUS
  <1>3. \A a, b \in 1 .. Len(q) : q[a] = q[b] => a = b
    BY <1>1 DEF IsInjective
  <1>4. \A i \in 1 .. Len(Tail(q)) : Tail(q)[i] # Head(q)
    BY <1>1, <1>2, <1>3
  <1>5. \A a, b \in 1 .. Len(Tail(q)) : Tail(q)[a] = Tail(q)[b] => a = b
    <2> SUFFICES ASSUME NEW a \in 1 .. Len(Tail(q)), NEW b \in 1 .. Len(Tail(q)),
                        Tail(q)[a] = Tail(q)[b]
                 PROVE  a = b
      OBVIOUS
    <2>1. a + 1 \in 1 .. Len(q) /\ b + 1 \in 1 .. Len(q)
      BY <1>1
    <2>2. q[a + 1] = q[b + 1]
      BY <1>2
    <2>3. a + 1 = b + 1
      BY <1>3, <2>1, <2>2
    <2> QED BY <2>3
  <1> QED BY <1>1, <1>2, <1>4, <1>5 DEF IsInjective

\* A new value at the end keeps a sequence without duplicates.
LEMMA AppendKeepsInjective ==
    ASSUME NEW S, NEW q \in Seq(S), IsInjective(q), NEW c \in S,
           \A i \in 1 .. Len(q) : q[i] # c
    PROVE  /\ Append(q, c) \in Seq(S) /\ IsInjective(Append(q, c))
           /\ Len(Append(q, c)) = Len(q) + 1
           /\ Append(q, c)[Len(q) + 1] = c
           /\ \A i \in 1 .. Len(q) : Append(q, c)[i] = q[i]
  <1>1. /\ Len(q) \in Nat /\ DOMAIN q = 1 .. Len(q)
        /\ Append(q, c) \in Seq(S) /\ Len(Append(q, c)) = Len(q) + 1
        /\ DOMAIN Append(q, c) = 1 .. Len(q) + 1
        /\ Append(q, c)[Len(q) + 1] = c
        /\ \A i \in 1 .. Len(q) : Append(q, c)[i] = q[i]
    OBVIOUS
  <1>2. \A a, b \in 1 .. Len(q) : q[a] = q[b] => a = b
    BY <1>1 DEF IsInjective
  <1>3. \A a, b \in 1 .. Len(q) + 1 : Append(q, c)[a] = Append(q, c)[b] => a = b
    BY <1>1, <1>2
  <1>4. IsInjective(Append(q, c))
    BY <1>1, <1>3 DEF IsInjective
  <1>5. QED BY <1>1, <1>4

\* The queue after a step that puts the update of c at its end.
LEMMA QueueAppend ==
    ASSUME TypeInv, NEW c \in Callers, ~Queued(operation[c]), queue' = Append(queue, c),
           Queued(operation'[c]),
           \A d \in Callers : d # c => operation'[d] = operation[d]
    PROVE  queue' \in Seq(Callers) /\ IsInjective(queue') /\ QueueOK'
  <1>1. /\ queue \in Seq(Callers) /\ IsInjective(queue)
        /\ \A i \in 1 .. Len(queue) : Queued(operation[queue[i]])
    BY DEF TypeInv, CapabilityTypeOK, QueueOK
  <1>2. \A i \in 1 .. Len(queue) : queue[i] \in Callers /\ queue[i] # c
    BY <1>1
  <1>3. /\ queue' \in Seq(Callers) /\ IsInjective(queue') /\ Len(queue') = Len(queue) + 1
        /\ queue'[Len(queue) + 1] = c
        /\ \A i \in 1 .. Len(queue) : queue'[i] = queue[i]
    <2>1. \A i \in 1 .. Len(queue) : queue[i] # c
      BY <1>2
    <2> DEFINE new == Append(queue, c)
    <2>2. /\ new \in Seq(Callers) /\ IsInjective(new) /\ Len(new) = Len(queue) + 1
          /\ new[Len(queue) + 1] = c
          /\ \A i \in 1 .. Len(queue) : new[i] = queue[i]
      BY <1>1, <2>1, AppendKeepsInjective
    <2>3. queue' = new
      OBVIOUS
    <2> HIDE DEF new
    <2> QED BY <2>2, <2>3
  <1>4. \A i \in 1 .. Len(queue') : Queued(operation'[queue'[i]])
    <2> SUFFICES ASSUME NEW i \in 1 .. Len(queue')
                 PROVE  Queued(operation'[queue'[i]])
      OBVIOUS
    <2>1. i \in 1 .. Len(queue) \/ i = Len(queue) + 1
      BY <1>1, <1>3
    <2>2. CASE i \in 1 .. Len(queue)
      <3>1. queue'[i] = queue[i] /\ operation'[queue[i]] = operation[queue[i]]
        BY <1>2, <1>3, <2>2
      <3> QED BY <1>1, <2>2, <3>1
    <2>3. CASE i = Len(queue) + 1
      BY <1>3, <2>3
    <2> QED BY <2>1, <2>2, <2>3
  <1> QED BY <1>3, <1>4 DEF QueueOK, Queued

\* The queue after a step that ends the turn of c.
LEMMA QueueTail ==
    ASSUME TypeInv, NEW c \in Callers, Turn(c), queue' = Tail(queue),
           \A d \in Callers : d # c /\ Queued(operation[d]) => operation'[d] = operation[d]
    PROVE  queue' \in Seq(Callers) /\ IsInjective(queue') /\ QueueOK'
  <1>1. /\ queue \in Seq(Callers) /\ IsInjective(queue) /\ queue # <<>> /\ Head(queue) = c
        /\ \A i \in 1 .. Len(queue) : Queued(operation[queue[i]])
    BY DEF TypeInv, CapabilityTypeOK, QueueOK, Turn
  <1>2. /\ queue' \in Seq(Callers) /\ IsInjective(queue') /\ Len(queue') = Len(queue) - 1
        /\ \A i \in 1 .. Len(queue') : queue'[i] = queue[i + 1] /\ queue'[i] # c
    BY <1>1, TailKeepsInjective
  <1>3. \A i \in 1 .. Len(queue') : Queued(operation'[queue'[i]])
    <2> SUFFICES ASSUME NEW i \in 1 .. Len(queue')
                 PROVE  Queued(operation'[queue'[i]])
      OBVIOUS
    <2>1. i + 1 \in 1 .. Len(queue)
      BY <1>1, <1>2
    <2>2. queue'[i] \in Callers /\ queue'[i] = queue[i + 1] /\ queue'[i] # c
      BY <1>2
    <2>3. Queued(operation[queue'[i]])
      BY <1>1, <2>1, <2>2
    <2> QED BY <2>2, <2>3
  <1> QED BY <1>2, <1>3 DEF QueueOK, Queued

\* The queue after a step that leaves it alone and ends no update.
LEMMA QueueStays ==
    ASSUME TypeInv, queue' = queue,
           \A d \in Callers : Queued(operation[d]) => Queued(operation'[d])
    PROVE  queue' \in Seq(Callers) /\ IsInjective(queue') /\ QueueOK'
  <1>1. /\ queue \in Seq(Callers) /\ IsInjective(queue)
        /\ \A i \in 1 .. Len(queue) : Queued(operation[queue[i]])
    BY DEF TypeInv, CapabilityTypeOK, QueueOK
  <1>2. \A i \in 1 .. Len(queue) : queue[i] \in Callers
    BY <1>1
  <1>3. \A i \in 1 .. Len(queue') : Queued(operation'[queue'[i]])
    BY <1>1, <1>2
  <1> QED BY <1>1, <1>3 DEF QueueOK, Queued

\* The promise settles for c and for who waits for it; every other operation stays.
LEMMA SettlesCases ==
    ASSUME CapabilityTypeOK, NEW c \in Callers, Settles(c)
    PROVE  /\ operation' \in [Callers -> Operations \cup {Idle}]
           /\ operation'[c] = Idle
           /\ \A d \in Callers : d # c /\ ~At(d, "waiting") => operation'[d] = operation[d]
           /\ \A d \in Callers : operation'[d] \in {operation[d], Idle}
           /\ promise' \in {promise, NoCaller}
  BY DEF CapabilityTypeOK, Settles, At

\* An operation of c goes on with record x; the others stay.
LEMMA DoesCases ==
    ASSUME CapabilityTypeOK, NEW c \in Callers, NEW x \in Operations \cup {Idle}, Does(c, x)
    PROVE  /\ operation' \in [Callers -> Operations \cup {Idle}]
           /\ operation'[c] = x
           /\ \A d \in Callers : d # c => operation'[d] = operation[d]
  BY DEF CapabilityTypeOK, Does

\* The types of everything but the operations and the queue.
RestOK ==
    /\ row \in Rows
    /\ generation \in 0 .. MaxBegun + 1
    /\ promise \in Callers \cup {NoCaller}
    /\ service \in {"running", "stopping", "down"}
    /\ stops \in 0 .. MaxStops
    /\ answered \in Statuses \cup {"none"}
    /\ shown \in 0 .. MaxBegun
    /\ abandoned \in BOOLEAN
    /\ Running => generation <= MaxBegun
    /\ service = "down" => generation = 0

\* The store starts well typed.
LEMMA TypeInit == Init => TypeInv
  <1> SUFFICES ASSUME Init
               PROVE  TypeInv
    OBVIOUS
  <1>1. RestOK
    <2>1. row \in Rows
      BY DEF Init, Rows, Statuses, NotChecked
    <2>2. generation = 0 /\ stops = 0 /\ shown = 0
      BY DEF Init
    <2>3. /\ generation \in 0 .. MaxBegun + 1 /\ stops \in 0 .. MaxStops
          /\ shown \in 0 .. MaxBegun /\ generation <= MaxBegun
      BY <2>2, BoundsOK
    <2>4. /\ promise = NoCaller /\ service = "running" /\ answered = "none"
          /\ abandoned = FALSE
      BY DEF Init
    <2> QED BY <2>1, <2>2, <2>3, <2>4 DEF RestOK
  <1>2. operation \in [Callers -> Operations \cup {Idle}]
    BY DEF Init
  <1>3. queue \in Seq(Callers) /\ IsInjective(queue) /\ QueueOK
    BY DEF Init, IsInjective, QueueOK
  <1> QED BY <1>1, <1>2, <1>3 DEF RestOK, TypeInv, CapabilityTypeOK

\* What c does with its own update and the turns of others: the queue and the types
\* after a step in which the operation of c becomes x.
LEMMA StepTypes ==
    ASSUME TypeInv, RestOK', NEW c \in Callers,
           NEW x \in Operations \cup {Idle}, Does(c, x),
           \/ queue' = Append(queue, c) /\ ~Queued(operation[c]) /\ Queued(x)
           \/ queue' = Tail(queue) /\ Turn(c)
           \/ queue' = queue /\ (Queued(operation[c]) => Queued(x))
    PROVE  TypeInv'
  <1>1. /\ operation' \in [Callers -> Operations \cup {Idle}]
        /\ operation'[c] = x
        /\ \A d \in Callers : d # c => operation'[d] = operation[d]
    BY DoesCases DEF TypeInv
  <1>2. queue' \in Seq(Callers) /\ IsInjective(queue') /\ QueueOK'
    <2>1. CASE queue' = Append(queue, c) /\ ~Queued(operation[c]) /\ Queued(x)
      BY <1>1, <2>1, QueueAppend
    <2>2. CASE queue' = Tail(queue) /\ Turn(c)
      BY <1>1, <2>2, QueueTail
    <2>3. CASE queue' = queue /\ (Queued(operation[c]) => Queued(x))
      <3>1. \A d \in Callers : Queued(operation[d]) => Queued(operation'[d])
        BY <1>1, <2>3
      <3> QED BY <2>3, <3>1, QueueStays
    <2> QED BY <2>1, <2>2, <2>3
  <1> QED BY <1>1, <1>2 DEF RestOK, TypeInv, CapabilityTypeOK, Running

\* The same for a step that answers c and who waits for its promise.
LEMMA SettleTypes ==
    ASSUME TypeInv, RestOK', NEW c \in Callers, Settles(c),
           \/ queue' = Tail(queue) /\ Turn(c)
           \/ queue' = queue /\ \A i \in 1 .. Len(queue) : queue[i] # c
    PROVE  TypeInv'
  <1>1. /\ operation' \in [Callers -> Operations \cup {Idle}]
        /\ \A d \in Callers : d # c /\ ~At(d, "waiting") => operation'[d] = operation[d]
    BY SettlesCases DEF TypeInv
  <1>2. \A d \in Callers : d # c /\ Queued(operation[d]) => operation'[d] = operation[d]
    BY <1>1 DEF Queued, At
  <1>3. queue' \in Seq(Callers) /\ IsInjective(queue') /\ QueueOK'
    <2>1. CASE queue' = Tail(queue) /\ Turn(c)
      BY <1>2, <2>1, QueueTail
    <2>2. CASE queue' = queue /\ \A i \in 1 .. Len(queue) : queue[i] # c
      <3>1. queue \in Seq(Callers) /\ IsInjective(queue)
        BY DEF TypeInv, CapabilityTypeOK
      <3>2. \A i \in 1 .. Len(queue) : queue[i] \in Callers /\ Queued(operation[queue[i]])
        BY <3>1 DEF TypeInv, QueueOK
      <3>3. \A i \in 1 .. Len(queue') : Queued(operation'[queue'[i]])
        BY <1>2, <2>2, <3>2
      <3> QED BY <2>2, <3>1, <3>3 DEF QueueOK, Queued
    <2> QED BY <2>1, <2>2
  <1> QED BY <1>1, <1>3 DEF RestOK, TypeInv, CapabilityTypeOK, Running

\* Every action keeps the types.
LEMMA TypeStep == TypeInv /\ [Next]_vars => TypeInv'
  <1> SUFFICES ASSUME TypeInv, [Next]_vars
               PROVE  TypeInv'
    OBVIOUS
  <1>1. /\ RestOK
        /\ operation \in [Callers -> Operations \cup {Idle}]
        /\ queue \in Seq(Callers)
    BY DEF TypeInv, CapabilityTypeOK, RestOK
  <1>2. ASSUME NEW c \in Callers, operation[c] # Idle
        PROVE  operation[c] \in Operations
    BY <1>1, <1>2
  <1>3. ASSUME NEW c \in Callers, At(c, "marking") \/ At(c, "probing") \/ At(c, "writing")
        PROVE  /\ operation[c] \in Begun
               /\ At(c, "probing") => ~Queued(operation[c])
    BY <1>2, <1>3, OperationCases DEF At, Queued
  <1>4. NotChecked \in Rows
    BY DEF NotChecked, Rows, Statuses
  <1>5. ASSUME NEW c \in Callers, BeginCheck(c)
        PROVE  TypeInv'
    <2> DEFINE x == [kind |-> "check", at |-> "marking", generation |-> generation + 1,
                     outcome |-> NotChecked, thrown |-> FALSE]
    <2>4. generation + 1 \in 1 .. MaxBegun
      BY <1>1, <1>5, BoundsOK DEF RestOK, BeginCheck, Begins
    <2>1. x \in Begun /\ x.at = "marking"
      BY <1>4, <2>4 DEF Begun
    <2>2. Does(c, x) /\ queue' = Append(queue, c) /\ ~Queued(operation[c])
      BY <1>5 DEF BeginCheck, Begins, Queued
    <2>3. RestOK'
      BY <1>1, <1>5, BoundsOK DEF RestOK, BeginCheck, Begins, Running
    <2> HIDE DEF x
    <2>5. x \in Operations /\ Queued(x)
      BY <2>1, PlaceholdersAreNotValues DEF Operations, Queued
    <2> QED BY <2>2, <2>3, <2>5, StepTypes
  <1>6. ASSUME NEW c \in Callers, JoinCheck(c)
        PROVE  TypeInv'
    <2> DEFINE x == [kind |-> "join", at |-> "waiting"]
    <2>1. x \in Operations
      BY DEF Operations, Joins
    <2>2. Does(c, x) /\ queue' = queue /\ ~Queued(operation[c]) /\ RestOK'
      BY <1>1, <1>6 DEF JoinCheck, Queued, RestOK, Running
    <2> HIDE DEF x
    <2> QED BY <2>1, <2>2, StepTypes
  <1>7. ASSUME NEW c \in Callers, BeginPrepare(c)
        PROVE  TypeInv'
    <2> DEFINE x == [kind |-> "prepare", at |-> "probing", generation |-> generation + 1,
                     outcome |-> NotChecked, thrown |-> FALSE]
    <2>1. x \in Begun
      BY <1>1, <1>4, <1>7, BoundsOK DEF RestOK, BeginPrepare, Begins, Begun
    <2>2. Does(c, x) /\ queue' = queue /\ ~Queued(operation[c])
      BY <1>7 DEF BeginPrepare, Begins, Queued
    <2>3. RestOK'
      BY <1>1, <1>7, BoundsOK DEF RestOK, BeginPrepare, Begins, Running
    <2> HIDE DEF x
    <2> QED BY <2>1, <2>2, <2>3, StepTypes DEF Operations
  <1>8. ASSUME NEW c \in Callers, BeginRefresh(c)
        PROVE  TypeInv'
    <2> DEFINE x == [kind |-> "refresh", at |-> "queued"]
    <2>1. x \in Operations /\ Queued(x)
      BY PlaceholdersAreNotValues DEF Operations, Refreshes, Queued
    <2>2. Does(c, x) /\ queue' = Append(queue, c) /\ ~Queued(operation[c]) /\ RestOK'
      BY <1>1, <1>8 DEF BeginRefresh, Queued, RestOK, Running
    <2> HIDE DEF x
    <2> QED BY <2>1, <2>2, StepTypes
  <1>9. ASSUME NEW c \in Callers, Mark(c)
        PROVE  TypeInv'
    <2> DEFINE x == [operation[c] EXCEPT !.at = "probing"]
    <2>1. x \in Begun
      BY <1>3, <1>9 DEF Mark, Begun
    <2>2. Does(c, x) /\ queue' = Tail(queue) /\ Turn(c)
      BY <1>9 DEF Mark
    <2>3. RestOK'
      BY <1>1, <1>9 DEF RestOK, Mark, Rows, Statuses, Running
    <2> HIDE DEF x
    <2> QED BY <2>1, <2>2, <2>3, StepTypes DEF Operations
  <1>10. ASSUME NEW c \in Callers, NEW outcome \in Rows, NEW thrown \in BOOLEAN,
                At(c, "probing"), Answers(c, outcome, thrown),
                UNCHANGED <<row, generation, promise, service, stops, answered, shown, abandoned>>
         PROVE  TypeInv'
    <2> DEFINE x == [operation[c] EXCEPT !.at = "writing", !.outcome = outcome,
                                         !.thrown = thrown]
    <2>1. x \in Begun /\ x.at = "writing"
      BY <1>3, <1>10 DEF Begun
    <2>2. Does(c, x) /\ queue' = Append(queue, c) /\ ~Queued(operation[c])
      BY <1>3, <1>10 DEF Answers
    <2>3. RestOK'
      BY <1>1, <1>10 DEF RestOK, Running
    <2> HIDE DEF x
    <2>4. x \in Operations /\ Queued(x)
      BY <2>1, PlaceholdersAreNotValues DEF Operations, Queued
    <2> QED BY <2>2, <2>3, <2>4, StepTypes
  <1>11. ASSUME NEW c \in Callers, Probe(c)
         PROVE  TypeInv'
    <2>1. PICK ok \in BOOLEAN :
              Answers(c, [status |-> IF ok THEN "ready" ELSE "unavailable", succeeded |-> ok],
                      FALSE)
      BY <1>11 DEF Probe
    <2>2. [status |-> IF ok THEN "ready" ELSE "unavailable", succeeded |-> ok] \in Rows
      BY DEF Rows, Statuses
    <2> QED BY <1>10, <1>11, <2>1, <2>2 DEF Probe
  <1>12. ASSUME NEW c \in Callers, ProbeThrows(c)
         PROVE  TypeInv'
    <2>1. [row EXCEPT !.status = "unavailable"] \in Rows
      BY <1>1 DEF RestOK, Rows, Statuses
    <2> QED BY <1>10, <1>12, <2>1 DEF ProbeThrows
  <1>13. ASSUME NEW c \in Callers, Write(c)
         PROVE  TypeInv'
    <2>1. operation[c] \in Begun /\ At(c, "writing")
      BY <1>3, <1>13 DEF Write
    <2>2. /\ operation[c].outcome \in Rows
          /\ operation[c].generation \in 1 .. MaxBegun
      BY <2>1 DEF Begun
    <2>3. operation[c].outcome.status \in Statuses
      BY <2>2 DEF Rows
    <2>4. Settles(c) /\ queue' = Tail(queue) /\ Turn(c)
      BY <1>13 DEF Write
    <2>5. promise' \in {promise, NoCaller}
      BY <2>4, SettlesCases DEF TypeInv
    <2>6. /\ row' \in {row, operation[c].outcome}
          /\ answered' \in {answered, operation[c].outcome.status}
          /\ shown' \in {shown, operation[c].generation}
          /\ abandoned' \in BOOLEAN
          /\ UNCHANGED <<generation, service, stops>>
      BY <1>1, <1>13 DEF Write, RestOK
    <2>7. shown' \in 0 .. MaxBegun
      BY <1>1, <2>2, <2>6, BoundsOK DEF RestOK
    <2>8. RestOK'
      BY <1>1, <2>2, <2>3, <2>5, <2>6, <2>7 DEF RestOK, Running
    <2> QED BY <2>4, <2>8, SettleTypes
  <1>14. ASSUME NEW c \in Callers, Prepared(c)
         PROVE  TypeInv'
    BY <1>4, <1>10, <1>14 DEF Prepared
  <1>15. ASSUME NEW c \in Callers, PrepareFails(c)
         PROVE  TypeInv'
    <2>1. ~Queued(operation[c])
      BY <1>3, <1>15 DEF PrepareFails
    <2>2. Does(c, Idle) /\ queue' = queue /\ RestOK'
      BY <1>1, <1>15 DEF PrepareFails, RestOK, Running
    <2> QED BY <2>1, <2>2, StepTypes
  <1>16. ASSUME NEW c \in Callers, BeginList(c)
         PROVE  TypeInv'
    <2> DEFINE x == [kind |-> "refresh", at |-> "listing"]
    <2>1. x \in Operations /\ x.at = "listing"
      BY DEF Operations, Refreshes
    <2>2. Does(c, x) /\ queue' = queue /\ RestOK'
      BY <1>1, <1>16 DEF BeginList, RestOK, Running
    <2> HIDE DEF x
    <2>3. Queued(x)
      BY <2>1, PlaceholdersAreNotValues DEF Queued
    <2> QED BY <2>1, <2>2, <2>3, StepTypes
  <1>17. ASSUME NEW c \in Callers, EndList(c)
         PROVE  TypeInv'
    <2>1. Does(c, Idle) /\ queue' = Tail(queue) /\ Turn(c) /\ row' \in {row, NotChecked}
      BY <1>17 DEF EndList
    <2>2. RestOK'
      BY <1>1, <1>4, <1>17, <2>1 DEF EndList, RestOK, Running
    <2> QED BY <2>1, <2>2, StepTypes
  <1>18. ASSUME NEW c \in Callers, Refuse(c)
         PROVE  TypeInv'
    <2>1. Settles(c) /\ UNCHANGED <<row, generation, service, stops, answered, shown, abandoned>>
      BY <1>18 DEF Refuse
    <2>2. promise' \in {promise, NoCaller}
      BY <2>1, SettlesCases DEF TypeInv
    <2>3. RestOK'
      BY <1>1, <2>1, <2>2 DEF RestOK, Running
    <2>4. \/ queue' = Tail(queue) /\ Turn(c)
          \/ queue' = queue /\ c \notin ToSet(queue)
      BY <1>18 DEF Refuse
    <2>5. c \notin ToSet(queue) => \A i \in 1 .. Len(queue) : queue[i] # c
      BY <1>1 DEF ToSet
    <2> QED BY <2>1, <2>3, <2>4, <2>5, SettleTypes
  <1>19. ASSUME RequestShutdown
         PROVE  TypeInv'
    <2>1. RestOK'
      BY <1>1, <1>19, BoundsOK DEF RestOK, RequestShutdown, Running
    <2>2. UNCHANGED <<operation, queue>>
      BY <1>19 DEF RequestShutdown
    <2> QED BY <2>1, <2>2 DEF TypeInv, CapabilityTypeOK, RestOK, QueueOK, Queued, Running
  <1>20. ASSUME Vanish, stops' \in 0 .. MaxStops
         PROVE  TypeInv'
    <2>1. RestOK'
      <3>1. /\ service' = "down" /\ generation' = 0 /\ promise' = NoCaller /\ shown' = 0
            /\ abandoned' = FALSE /\ row' = row /\ answered' = answered
        BY <1>20 DEF Vanish
      <3>2. generation' \in 0 .. MaxBegun + 1 /\ shown' \in 0 .. MaxBegun
        BY <3>1, BoundsOK
      <3> QED BY <1>1, <1>20, <3>1, <3>2 DEF RestOK, Running
    <2>2. operation' = [c \in Callers |-> Idle] /\ queue' = <<>>
      BY <1>20 DEF Vanish
    <2>3. /\ operation' \in [Callers -> Operations \cup {Idle}]
          /\ queue' \in Seq(Callers) /\ IsInjective(queue')
          /\ \A i \in 1 .. Len(queue') : Queued(operation'[queue'[i]])
      BY <2>2 DEF IsInjective
    <2> QED BY <2>1, <2>3 DEF TypeInv, CapabilityTypeOK, RestOK, QueueOK, Queued, Running
  <1>21. CASE Exit
    BY <1>1, <1>20, <1>21 DEF Exit, RestOK
  <1>22. CASE Crash
    <2>1. stops' \in 0 .. MaxStops
      BY <1>1, <1>22, BoundsOK DEF Crash, RestOK
    <2> QED BY <1>20, <1>22, <2>1 DEF Crash
  <1>23. CASE Restart
    <2>1. row' \in Rows
      BY <1>1, <1>23 DEF Restart, Repaired, RestOK, Rows, Statuses
    <2>2. RestOK'
      BY <1>1, <1>23, <2>1, BoundsOK DEF Restart, RestOK, Running
    <2>3. UNCHANGED <<operation, queue>>
      BY <1>23 DEF Restart
    <2> QED BY <2>2, <2>3 DEF TypeInv, CapabilityTypeOK, RestOK, QueueOK, Queued, Running
  <1>24. CASE UNCHANGED vars
    BY <1>24 DEF vars, TypeInv, CapabilityTypeOK, QueueOK, Queued, Running
  <1> QED
    BY <1>5, <1>6, <1>7, <1>8, <1>9, <1>11, <1>12, <1>13, <1>14, <1>15, <1>16, <1>17, <1>18,
       <1>19, <1>21, <1>22, <1>23, <1>24 DEF Next, Requests, Steps

\* The types hold in every behaviour.
LEMMA TypeInvCorrect == Spec => []TypeInv
  BY TypeInit, TypeStep, PTL DEF Spec

\* Type correctness for any callers and bounds: every caller has at most one update
\* in the queue.
THEOREM TypesAreCorrect == Spec => []CapabilityTypeOK
  <1>1. TypeInv => CapabilityTypeOK
    BY DEF TypeInv
  <1> QED BY <1>1, TypeInvCorrect, PTL

----------------------------------------------------------------------------

IsCheck(op) == op # Idle /\ op.kind = "check"

\* The promise belongs to the one check there is, and only then is it waited for.
Shared ==
    /\ promise # NoCaller => promise \in Callers /\ IsCheck(operation[promise])
    /\ \A c \in Callers : IsCheck(operation[c]) => promise = c
    /\ \A c \in Callers : At(c, "waiting") => promise # NoCaller

\* A step of c that neither begins nor ends a check.
LEMMA SharedDoes ==
    ASSUME TypeInv, Shared, NEW c \in Callers, NEW x \in Operations \cup {Idle},
           Does(c, x), UNCHANGED promise,
           IsCheck(operation[c]) <=> IsCheck(x),
           x # Idle /\ x.at = "waiting" => promise # NoCaller
    PROVE  Shared'
  <1>1. /\ operation'[c] = x
        /\ \A d \in Callers : d # c => operation'[d] = operation[d]
    BY DoesCases DEF TypeInv
  <1>2. \A d \in Callers : IsCheck(operation'[d]) <=> IsCheck(operation[d])
    BY <1>1
  <1>3. \A d \in Callers : At(d, "waiting")' => promise # NoCaller
    BY <1>1 DEF Shared, At
  <1> QED BY <1>2, <1>3 DEF Shared, IsCheck, At

\* When a check ends, so does its promise and the wait for it; a prepare has none.
LEMMA SharedSettles ==
    ASSUME TypeInv, Shared, NEW c \in Callers, Settles(c), ~At(c, "waiting")
    PROVE  /\ Shared'
           /\ \A d \in Callers : d # c /\ operation[d] # Idle /\ ~At(d, "waiting")
                                     => operation'[d] = operation[d]
  <1>1. /\ \A d \in Callers : operation'[d] =
               IF d = c \/ (promise = c /\ At(d, "waiting")) THEN Idle ELSE operation[d]
        /\ promise' = IF promise = c THEN NoCaller ELSE promise
    BY DEF Settles
  <1>2. CASE promise = c
    <2>1. \A d \in Callers : ~IsCheck(operation'[d])
      BY <1>1, <1>2 DEF Shared, IsCheck
    <2>2. \A d \in Callers : ~At(d, "waiting")'
      BY <1>1, <1>2 DEF At
    <2>3. promise' = NoCaller
      BY <1>1, <1>2
    <2> QED BY <1>1, <2>1, <2>2, <2>3 DEF Shared, IsCheck, At
  <1>3. CASE promise # c
    <2>1. \A d \in Callers : operation'[d] = IF d = c THEN Idle ELSE operation[d]
      BY <1>1, <1>3
    <2>2. promise' = promise
      BY <1>1, <1>3
    <2> QED BY <1>3, <2>1, <2>2 DEF Shared, IsCheck, At
  <1> QED BY <1>2, <1>3

\* Nothing happens before the first request.
LEMMA SharedInit == Init => Shared
  BY PlaceholdersAreNotValues DEF Init, Shared, IsCheck, At

\* Every action keeps the promise with its check.
LEMMA SharedStep == TypeInv /\ Shared /\ [Next]_vars => Shared'
  <1> SUFFICES ASSUME TypeInv, Shared, [Next]_vars
               PROVE  Shared'
    OBVIOUS
  <1>1. /\ operation \in [Callers -> Operations \cup {Idle}]
        /\ NotChecked \in Rows /\ row \in Rows /\ generation \in 0 .. MaxBegun + 1
    BY DEF TypeInv, CapabilityTypeOK, NotChecked, Rows, Statuses
  <1>2. ASSUME NEW c \in Callers, At(c, "marking") \/ At(c, "probing") \/ At(c, "writing")
        PROVE  operation[c] \in Begun /\ ~At(c, "waiting")
    BY <1>1, <1>2, OperationCases DEF At
  <1>3. ASSUME NEW c \in Callers, NEW x \in Begun, operation[c] \in Begun,
               x.kind = operation[c].kind, x.at # "waiting", Does(c, x), UNCHANGED promise
        PROVE  Shared'
    <2>1. x \in Operations /\ operation[c] \in Operations
      BY <1>3 DEF Operations
    <2>2. IsCheck(operation[c]) <=> IsCheck(x)
      BY <1>3, <2>1, PlaceholdersAreNotValues DEF IsCheck
    <2> QED BY <1>3, <2>1, <2>2, SharedDoes
  <1>4. ASSUME NEW c \in Callers, BeginCheck(c)
        PROVE  Shared'
    <2> DEFINE x == [kind |-> "check", at |-> "marking", generation |-> generation + 1,
                     outcome |-> NotChecked, thrown |-> FALSE]
    <2>1. generation + 1 \in 1 .. MaxBegun
      BY <1>1, <1>4, BoundsOK DEF BeginCheck, Begins
    <2>2. x \in Begun /\ x.kind = "check" /\ x.at = "marking"
      BY <1>1, <2>1 DEF Begun
    <2>3. Does(c, x) /\ promise = NoCaller /\ promise' = c
      BY <1>4 DEF BeginCheck, Begins, IsChecked
    <2> HIDE DEF x
    <2>4. x \in Operations /\ x # Idle
      BY <2>2, PlaceholdersAreNotValues DEF Operations
    <2>5. /\ operation'[c] = x
          /\ \A d \in Callers : d # c => operation'[d] = operation[d]
      BY <2>3, <2>4, DoesCases DEF TypeInv
    <2>6. \A d \in Callers : ~IsCheck(operation[d])
      BY <2>3, PlaceholdersAreNotValues DEF Shared
    <2>7. \A d \in Callers : IsCheck(operation'[d]) <=> d = c
      BY <2>2, <2>4, <2>5, <2>6 DEF IsCheck
    <2> QED BY <2>3, <2>7, PlaceholdersAreNotValues DEF Shared, IsCheck, At
  <1>5. ASSUME NEW c \in Callers, NEW x \in Operations \cup {Idle}, Does(c, x),
               UNCHANGED promise, ~IsCheck(operation[c]), ~IsCheck(x),
               x # Idle /\ x.at = "waiting" => promise # NoCaller
        PROVE  Shared'
    BY <1>5, SharedDoes
  <1>6. ASSUME NEW c \in Callers, JoinCheck(c)
        PROVE  Shared'
    <2> DEFINE x == [kind |-> "join", at |-> "waiting"]
    <2>1. x \in Operations /\ ~IsCheck(x)
      BY DEF Operations, Joins, IsCheck
    <2>2. Does(c, x) /\ UNCHANGED promise /\ ~IsCheck(operation[c]) /\ promise # NoCaller
      BY <1>6 DEF JoinCheck, IsCheck, IsChecked
    <2> HIDE DEF x
    <2> QED BY <1>5, <2>1, <2>2
  <1>7. ASSUME NEW c \in Callers, BeginPrepare(c)
        PROVE  Shared'
    <2> DEFINE x == [kind |-> "prepare", at |-> "probing", generation |-> generation + 1,
                     outcome |-> NotChecked, thrown |-> FALSE]
    <2>1. generation + 1 \in 1 .. MaxBegun
      BY <1>1, <1>7, BoundsOK DEF BeginPrepare, Begins
    <2>2. x \in Operations /\ ~IsCheck(x) /\ x.at # "waiting"
      BY <1>1, <2>1 DEF Operations, Begun, IsCheck
    <2>3. Does(c, x) /\ UNCHANGED promise /\ ~IsCheck(operation[c])
      BY <1>7 DEF BeginPrepare, Begins, IsCheck
    <2> HIDE DEF x
    <2> QED BY <1>5, <2>2, <2>3
  <1>8. ASSUME NEW c \in Callers, BeginRefresh(c)
        PROVE  Shared'
    <2> DEFINE x == [kind |-> "refresh", at |-> "queued"]
    <2>1. x \in Operations /\ ~IsCheck(x) /\ x.at # "waiting"
      BY DEF Operations, Refreshes, IsCheck
    <2>2. Does(c, x) /\ UNCHANGED promise /\ ~IsCheck(operation[c])
      BY <1>8 DEF BeginRefresh, IsCheck
    <2> HIDE DEF x
    <2> QED BY <1>5, <2>1, <2>2
  <1>9. ASSUME NEW c \in Callers, Mark(c)
        PROVE  Shared'
    <2> DEFINE x == [operation[c] EXCEPT !.at = "probing"]
    <2>1. operation[c] \in Begun
      BY <1>2, <1>9 DEF Mark
    <2>2. x \in Begun /\ x.kind = operation[c].kind /\ x.at # "waiting"
      BY <2>1 DEF Begun
    <2>3. Does(c, x) /\ UNCHANGED promise
      BY <1>9 DEF Mark
    <2> HIDE DEF x
    <2> QED BY <1>3, <2>1, <2>2, <2>3
  <1>10. ASSUME NEW c \in Callers, NEW outcome \in Rows, NEW thrown \in BOOLEAN,
                At(c, "probing"), Answers(c, outcome, thrown), UNCHANGED promise
         PROVE  Shared'
    <2> DEFINE x == [operation[c] EXCEPT !.at = "writing", !.outcome = outcome,
                                         !.thrown = thrown]
    <2>1. operation[c] \in Begun
      BY <1>2, <1>10
    <2>2. x \in Begun /\ x.kind = operation[c].kind /\ x.at # "waiting"
      BY <1>10, <2>1 DEF Begun
    <2>3. Does(c, x)
      BY <1>10 DEF Answers
    <2> HIDE DEF x
    <2> QED BY <1>3, <1>10, <2>1, <2>2, <2>3
  <1>11. ASSUME NEW c \in Callers, Probe(c)
         PROVE  Shared'
    <2>1. PICK ok \in BOOLEAN :
              Answers(c, [status |-> IF ok THEN "ready" ELSE "unavailable", succeeded |-> ok],
                      FALSE)
      BY <1>11 DEF Probe
    <2>2. [status |-> IF ok THEN "ready" ELSE "unavailable", succeeded |-> ok] \in Rows
      BY DEF Rows, Statuses
    <2> QED BY <1>10, <1>11, <2>1, <2>2 DEF Probe
  <1>12. ASSUME NEW c \in Callers, ProbeThrows(c)
         PROVE  Shared'
    <2>1. [row EXCEPT !.status = "unavailable"] \in Rows
      BY <1>1 DEF Rows, Statuses
    <2> QED BY <1>10, <1>12, <2>1 DEF ProbeThrows
  <1>13. ASSUME NEW c \in Callers, Prepared(c)
         PROVE  Shared'
    BY <1>1, <1>10, <1>13 DEF Prepared
  <1>14. ASSUME NEW c \in Callers, Write(c) \/ Refuse(c)
         PROVE  Shared'
    <2>1. Settles(c) /\ ~At(c, "waiting")
      BY <1>2, <1>14 DEF Write, Refuse
    <2> QED BY <2>1, SharedSettles
  <1>15. ASSUME NEW c \in Callers, PrepareFails(c)
         PROVE  Shared'
    BY <1>5, <1>15 DEF PrepareFails, IsCheck
  <1>16. ASSUME NEW c \in Callers, At(c, "queued") \/ At(c, "listing")
         PROVE  ~IsCheck(operation[c])
    BY <1>1, <1>16, OperationCases DEF At, IsCheck
  <1>17. ASSUME NEW c \in Callers, BeginList(c)
         PROVE  Shared'
    <2> DEFINE x == [kind |-> "refresh", at |-> "listing"]
    <2>1. x \in Operations /\ ~IsCheck(x) /\ x.at # "waiting"
      BY DEF Operations, Refreshes, IsCheck
    <2>2. Does(c, x) /\ UNCHANGED promise /\ ~IsCheck(operation[c])
      BY <1>16, <1>17 DEF BeginList
    <2> HIDE DEF x
    <2> QED BY <1>5, <2>1, <2>2
  <1>18. ASSUME NEW c \in Callers, EndList(c)
         PROVE  Shared'
    BY <1>5, <1>16, <1>18 DEF EndList, IsCheck
  <1>19. CASE Exit \/ Crash
    BY <1>19 DEF Exit, Crash, Vanish, Shared, IsCheck, At
  <1>20. CASE UNCHANGED <<operation, promise>>
    BY <1>20 DEF Shared, IsCheck, At
  <1>21. CASE RequestShutdown \/ Restart \/ UNCHANGED vars
    BY <1>20, <1>21 DEF RequestShutdown, Restart, vars
  <1> QED
    BY <1>4, <1>6, <1>7, <1>8, <1>9, <1>11, <1>12, <1>13, <1>14, <1>15, <1>17, <1>18, <1>19,
       <1>21 DEF Next, Requests, Steps

\* Concurrent requests share one probe, for any number of callers, prepares, refreshes,
\* shutdowns and crashes (checkCapabilityProvider).
THEOREM OneCheckAtATime == Spec => []ChecksAreShared
  <1>1. TypeInv /\ Shared => ChecksAreShared
    BY DEF Shared, ChecksAreShared, IsCheck, At
  <1>2. Init => TypeInv /\ Shared
    BY TypeInit, SharedInit
  <1>3. TypeInv /\ Shared /\ [Next]_vars => (TypeInv /\ Shared)'
    BY TypeStep, SharedStep
  <1> QED BY <1>1, <1>2, <1>3, PTL DEF Spec

----------------------------------------------------------------------------

\* What an outcome that waits to be written claims.
Honest(op, last) ==
    op # Idle /\ op.at = "writing" =>
        /\ op.outcome.status # "checking"
        /\ op.kind = "prepare" => op.outcome = NotChecked
        /\ op.kind = "check" /\ op.thrown =>
               op.outcome.status # "ready" /\ (op.outcome.succeeded => last = "ready")
        /\ op.kind = "check" /\ ~op.thrown =>
               (op.outcome.succeeded => op.outcome.status = "ready")

\* lastSuccessAt, from which a restart repairs an interrupted check, is set only after
\* a check that found the provider ready and was the last to be answered.
Earned ==
    /\ row.succeeded \/ row.status = "ready" => answered = "ready"
    /\ \A c \in Callers : Honest(operation[c], answered)

\* A step of c that leaves the answer alone.
LEMMA EarnedDoes ==
    ASSUME TypeInv, Earned, NEW c \in Callers, NEW x \in Operations \cup {Idle}, Does(c, x),
           UNCHANGED answered, Honest(x, answered),
           row'.succeeded \/ row'.status = "ready" => answered = "ready"
    PROVE  Earned'
  <1>1. \A d \in Callers : operation'[d] = IF d = c THEN x ELSE operation[d]
    BY DoesCases DEF TypeInv
  <1>2. \A d \in Callers : Honest(operation'[d], answered')
    BY <1>1 DEF Earned
  <1> QED BY <1>2 DEF Earned, Honest

\* Nothing was answered before the first request.
LEMMA EarnedInit == Init => Earned
  BY DEF Init, Earned, Honest, NotChecked

\* Every action keeps what the row and the outcomes claim.
LEMMA EarnedStep == TypeInv /\ Shared /\ Earned /\ [Next]_vars => Earned'
  <1> SUFFICES ASSUME TypeInv, Shared, Earned, [Next]_vars
               PROVE  Earned'
    OBVIOUS
  <1>1. /\ operation \in [Callers -> Operations \cup {Idle}]
        /\ NotChecked \in Rows /\ row \in Rows /\ generation \in 0 .. MaxBegun + 1
        /\ NotChecked.status = "not_checked" /\ NotChecked.succeeded = FALSE
    BY DEF TypeInv, CapabilityTypeOK, NotChecked, Rows, Statuses
  <1>2. ASSUME NEW c \in Callers, At(c, "marking") \/ At(c, "probing") \/ At(c, "writing")
        PROVE  operation[c] \in Begun /\ ~At(c, "waiting")
    BY <1>1, <1>2, OperationCases DEF At
  <1>3. ASSUME NEW c \in Callers, NEW x \in Operations \cup {Idle}, Does(c, x),
               x # Idle => x.at # "writing", UNCHANGED answered,
               row'.succeeded \/ row'.status = "ready" => row.succeeded \/ row.status = "ready"
        PROVE  Earned'
    <2>1. Honest(x, answered)
      BY <1>3 DEF Honest
    <2>2. row'.succeeded \/ row'.status = "ready" => answered = "ready"
      BY <1>3 DEF Earned
    <2> QED BY <1>3, <2>1, <2>2, EarnedDoes
  <1>4. ASSUME NEW c \in Callers, BeginCheck(c) \/ BeginPrepare(c)
        PROVE  Earned'
    <2>1. PICK kind \in {"check", "prepare"}, point \in {"marking", "probing"} :
              Begins(c, kind, point) /\ UNCHANGED <<row, answered>>
      BY <1>4 DEF BeginCheck, BeginPrepare
    <2> DEFINE x == [kind |-> kind, at |-> point, generation |-> generation + 1,
                     outcome |-> NotChecked, thrown |-> FALSE]
    <2>2. generation + 1 \in 1 .. MaxBegun
      BY <1>1, <2>1, BoundsOK DEF Begins
    <2>3. x \in Operations /\ x.at # "writing"
      BY <1>1, <2>2 DEF Operations, Begun
    <2>4. Does(c, x)
      BY <2>1 DEF Begins
    <2> HIDE DEF x
    <2> QED BY <1>3, <2>1, <2>3, <2>4
  <1>5. ASSUME NEW c \in Callers, JoinCheck(c)
        PROVE  Earned'
    <2> DEFINE x == [kind |-> "join", at |-> "waiting"]
    <2>1. x \in Operations /\ x.at # "writing"
      BY DEF Operations, Joins
    <2>2. Does(c, x) /\ UNCHANGED <<row, answered>>
      BY <1>5 DEF JoinCheck
    <2> HIDE DEF x
    <2> QED BY <1>3, <2>1, <2>2
  <1>6. ASSUME NEW c \in Callers, BeginRefresh(c) \/ BeginList(c)
        PROVE  Earned'
    <2>1. PICK point \in {"queued", "listing"} :
              Does(c, [kind |-> "refresh", at |-> point]) /\ UNCHANGED <<row, answered>>
      BY <1>6 DEF BeginRefresh, BeginList
    <2> DEFINE x == [kind |-> "refresh", at |-> point]
    <2>2. x \in Operations /\ x.at # "writing" /\ Does(c, x)
      BY <2>1 DEF Operations, Refreshes
    <2> HIDE DEF x
    <2> QED BY <1>3, <2>1, <2>2
  <1>7. ASSUME NEW c \in Callers, Mark(c)
        PROVE  Earned'
    <2> DEFINE x == [operation[c] EXCEPT !.at = "probing"]
    <2>1. operation[c] \in Begun
      BY <1>2, <1>7 DEF Mark
    <2>2. x \in Operations /\ x.at # "writing"
      BY <2>1 DEF Begun, Operations
    <2>3. Does(c, x) /\ UNCHANGED answered
          /\ row' \in {row, [row EXCEPT !.status = "checking"]}
      BY <1>7 DEF Mark
    <2>4. row'.succeeded \/ row'.status = "ready" => row.succeeded \/ row.status = "ready"
      BY <1>1, <2>3 DEF Rows
    <2> HIDE DEF x
    <2> QED BY <1>3, <2>2, <2>3, <2>4
  <1>8. ASSUME NEW c \in Callers, NEW outcome \in Rows, NEW thrown \in BOOLEAN,
               At(c, "probing"), Answers(c, outcome, thrown), UNCHANGED <<row, answered>>,
               outcome.status # "checking",
               operation[c].kind = "prepare" => outcome = NotChecked,
               operation[c].kind = "check" /\ thrown =>
                   outcome.status # "ready" /\ (outcome.succeeded => answered = "ready"),
               operation[c].kind = "check" /\ ~thrown =>
                   (outcome.succeeded => outcome.status = "ready")
        PROVE  Earned'
    <2> DEFINE x == [operation[c] EXCEPT !.at = "writing", !.outcome = outcome,
                                         !.thrown = thrown]
    <2>1. operation[c] \in Begun
      BY <1>2, <1>8
    <2>2. /\ x \in Operations /\ x.kind = operation[c].kind
          /\ x.outcome = outcome /\ x.thrown = thrown
      BY <1>8, <2>1 DEF Begun, Operations
    <2>3. Does(c, x)
      BY <1>8 DEF Answers
    <2> HIDE DEF x
    <2>4. Honest(x, answered)
      BY <1>8, <2>2 DEF Honest
    <2> QED BY <1>8, <2>2, <2>3, <2>4, EarnedDoes DEF Earned
  <1>9. ASSUME NEW c \in Callers, Probe(c)
        PROVE  Earned'
    <2>1. PICK ok \in BOOLEAN :
              Answers(c, [status |-> IF ok THEN "ready" ELSE "unavailable", succeeded |-> ok],
                      FALSE)
      BY <1>9 DEF Probe
    <2> DEFINE outcome == [status |-> IF ok THEN "ready" ELSE "unavailable", succeeded |-> ok]
    <2>2. /\ outcome \in Rows /\ outcome.status # "checking"
          /\ outcome.succeeded => outcome.status = "ready"
      BY DEF Rows, Statuses
    <2>3. /\ At(c, "probing") /\ operation[c].kind = "check"
          /\ UNCHANGED <<row, answered>> /\ Answers(c, outcome, FALSE)
      BY <1>9, <2>1 DEF Probe
    <2> HIDE DEF outcome
    <2> QED BY <1>8, <2>2, <2>3
  <1>10. ASSUME NEW c \in Callers, ProbeThrows(c)
         PROVE  Earned'
    <2> DEFINE outcome == [row EXCEPT !.status = "unavailable"]
    <2>1. /\ outcome \in Rows /\ outcome.status = "unavailable"
          /\ outcome.succeeded = row.succeeded
      BY <1>1 DEF Rows, Statuses
    <2>2. /\ At(c, "probing") /\ operation[c].kind = "check"
          /\ UNCHANGED <<row, answered>> /\ Answers(c, outcome, TRUE)
      BY <1>10 DEF ProbeThrows
    <2> HIDE DEF outcome
    <2>3. outcome.succeeded => answered = "ready"
      BY <2>1 DEF Earned
    <2> QED BY <1>8, <2>1, <2>2, <2>3
  <1>11. ASSUME NEW c \in Callers, Prepared(c)
         PROVE  Earned'
    BY <1>1, <1>8, <1>11 DEF Prepared
  <1>12. ASSUME NEW c \in Callers, Write(c)
         PROVE  Earned'
    <2> DEFINE op == operation[c]
    <2>1. op \in Begun /\ op # Idle /\ op.at = "writing" /\ Settles(c) /\ ~At(c, "waiting")
      BY <1>2, <1>12 DEF Write, At
    <2>2. op.outcome \in Rows /\ op.kind \in {"check", "prepare"} /\ op.thrown \in BOOLEAN
      BY <2>1 DEF Begun
    <2>3. Honest(op, answered)
      BY DEF Earned
    <2>4. \A d \in Callers : operation'[d] \in {operation[d], Idle}
      BY <2>1, SettlesCases DEF TypeInv
    <2>5. operation'[c] = Idle
      BY <2>1, SettlesCases DEF TypeInv
    <2>6. /\ row' = IF IsCurrent(c) THEN op.outcome ELSE row
          /\ answered' = IF IsCurrent(c) /\ op.kind = "check" /\ ~op.thrown
                         THEN op.outcome.status ELSE answered
      BY <1>12 DEF Write
    <2> HIDE DEF op
    <2>7. CASE answered' = answered
      <3>1. \A d \in Callers : Honest(operation'[d], answered')
        BY <2>4, <2>7 DEF Earned, Honest
      <3>2. row'.succeeded \/ row'.status = "ready" => answered = "ready"
        BY <1>1, <2>1, <2>2, <2>3, <2>6, <2>7 DEF Earned, Honest
      <3> QED BY <2>7, <3>1, <3>2 DEF Earned, Honest
    <2>8. CASE answered' # answered
      <3>1. op.kind = "check" /\ ~op.thrown /\ row' = op.outcome /\ answered' = op.outcome.status
        BY <2>6, <2>8
      <3>2. \A d \in Callers : d # c => ~IsCheck(operation[d])
        BY <2>1, <3>1 DEF Shared, IsCheck, op
      <3>3. ASSUME NEW d \in Callers
            PROVE  Honest(operation'[d], answered')
        <4>1. CASE d = c
          BY <2>5, <4>1 DEF Honest
        <4>2. CASE d # c /\ operation'[d] # Idle
          BY <2>4, <3>2, <4>2 DEF Earned, Honest, IsCheck
        <4> QED BY <4>1, <4>2 DEF Honest
      <3>4. row'.succeeded \/ row'.status = "ready" => answered' = "ready"
        BY <2>1, <2>3, <3>1 DEF Honest
      <3> QED BY <3>3, <3>4 DEF Earned, Honest
    <2> QED BY <2>7, <2>8
  <1>13. ASSUME NEW c \in Callers, Refuse(c)
         PROVE  Earned'
    <2>1. Settles(c) /\ UNCHANGED <<row, answered>>
      BY <1>13 DEF Refuse
    <2>2. \A d \in Callers : operation'[d] \in {operation[d], Idle}
      BY <2>1, SettlesCases DEF TypeInv
    <2> QED BY <2>1, <2>2 DEF Earned, Honest
  <1>14. ASSUME NEW c \in Callers, PrepareFails(c)
         PROVE  Earned'
    BY <1>3, <1>14 DEF PrepareFails
  <1>15. ASSUME NEW c \in Callers, EndList(c)
         PROVE  Earned'
    <2>1. Does(c, Idle) /\ UNCHANGED answered /\ row' \in {row, NotChecked}
      BY <1>15 DEF EndList
    <2>2. row'.succeeded \/ row'.status = "ready" => row.succeeded \/ row.status = "ready"
      BY <1>1, <2>1
    <2> QED BY <1>3, <2>1, <2>2
  <1>16. CASE Exit \/ Crash
    <2>1. operation' = [c \in Callers |-> Idle] /\ UNCHANGED <<row, answered>>
      BY <1>16 DEF Exit, Crash, Vanish
    <2> QED BY <2>1 DEF Earned, Honest
  <1>17. CASE Restart
    <2>1. UNCHANGED <<operation, answered>> /\ row' = Repaired
      BY <1>17 DEF Restart
    <2>2. row'.succeeded \/ row'.status = "ready" => answered' = "ready"
      BY <1>1, <2>1 DEF Repaired, Rows, Earned
    <2> QED BY <2>1, <2>2 DEF Earned, Honest
  <1>18. CASE UNCHANGED <<operation, row, answered>>
    BY <1>18 DEF Earned, Honest
  <1>19. CASE RequestShutdown \/ UNCHANGED vars
    BY <1>18, <1>19 DEF RequestShutdown, vars
  <1> QED
    BY <1>4, <1>5, <1>6, <1>7, <1>9, <1>10, <1>11, <1>12, <1>13, <1>14, <1>15, <1>16, <1>17,
       <1>19 DEF Next, Requests, Steps

\* The row says "ready" only if the last check that was answered found it so
\* (checkCapabilityProvider, mergeCapabilityProviderSnapshots, repairStaleRuntimeState).
THEOREM ReadinessIsEarned == Spec => []ReadyIsEarned
  <1>1. Earned => ReadyIsEarned
    BY DEF Earned, ReadyIsEarned
  <1>2. Init => TypeInv /\ Shared /\ Earned
    BY TypeInit, SharedInit, EarnedInit
  <1>3. TypeInv /\ Shared /\ Earned /\ [Next]_vars => (TypeInv /\ Shared /\ Earned)'
    BY TypeStep, SharedStep, EarnedStep
  <1> QED BY <1>1, <1>2, <1>3, PTL DEF Spec

----------------------------------------------------------------------------

Active(c) == At(c, "marking") \/ At(c, "probing") \/ At(c, "writing")

\* A row that says "checking" has the latest operation still under way.
Attended ==
    Running /\ row.status = "checking" /\ ~abandoned =>
        \E c \in Callers : Active(c) /\ operation[c].generation = generation

\* The row does not say "checking" at first.
LEMMA AttendedInit == Init => Attended
  BY DEF Init, Attended, NotChecked

\* A step that leaves row, generation and the latest operation alone.
LEMMA AttendedStays ==
    ASSUME Attended, Running, UNCHANGED generation,
           row'.status = "checking" => row.status = "checking",
           ~abandoned' => ~abandoned,
           \A d \in Callers : Active(d) /\ operation[d].generation = generation =>
               Active(d)' /\ operation'[d].generation = generation
    PROVE  Attended'
  BY DEF Attended

\* Every action keeps it, except that a prepare that fails gives up.
LEMMA AttendedStep == TypeInv /\ Shared /\ Earned /\ Attended /\ [Next]_vars => Attended'
  <1> SUFFICES ASSUME TypeInv, Shared, Earned, Attended, [Next]_vars
               PROVE  Attended'
    OBVIOUS
  <1>1. /\ operation \in [Callers -> Operations \cup {Idle}]
        /\ row \in Rows /\ generation \in 0 .. MaxBegun + 1
    BY DEF TypeInv, CapabilityTypeOK
  <1>2. ASSUME NEW c \in Callers, Active(c)
        PROVE  operation[c] \in Begun /\ ~At(c, "waiting")
    BY <1>1, <1>2, OperationCases DEF At, Active
  <1>3. ASSUME NEW c \in Callers, BeginCheck(c) \/ BeginPrepare(c)
        PROVE  Attended'
    <2>1. PICK kind \in {"check", "prepare"}, point \in {"marking", "probing"} :
              Begins(c, kind, point)
      BY <1>3 DEF BeginCheck, BeginPrepare
    <2> DEFINE x == [kind |-> kind, at |-> point, generation |-> generation + 1,
                     outcome |-> NotChecked, thrown |-> FALSE]
    <2>2. operation' = [operation EXCEPT ![c] = x] /\ generation' = generation + 1
      BY <2>1 DEF Begins, Does
    <2>3. x.at = point /\ x.generation = generation + 1 /\ x \in Operations
      <3>1. generation + 1 \in 1 .. MaxBegun
        BY <1>1, <2>1, BoundsOK DEF Begins
      <3> QED BY <3>1 DEF Operations, Begun, NotChecked, Rows, Statuses
    <2> HIDE DEF x
    <2>4. operation'[c] = x
      BY <1>1, <2>2
    <2>5. Active(c)' /\ operation'[c].generation = generation'
      BY <2>2, <2>3, <2>4, PlaceholdersAreNotValues DEF Active, At
    <2> QED BY <2>5 DEF Attended
  <1>4. ASSUME NEW c \in Callers, NEW x, operation' = [operation EXCEPT ![c] = x],
               ~Active(c), Running, UNCHANGED <<generation, abandoned>>,
               row'.status = "checking" => row.status = "checking"
        PROVE  Attended'
    <2>1. \A d \in Callers : d # c => operation'[d] = operation[d]
      BY <1>1, <1>4
    <2>2. \A d \in Callers : Active(d) => operation'[d] = operation[d] /\ Active(d)'
      BY <1>4, <2>1 DEF Active, At
    <2> QED BY <1>4, <2>2, AttendedStays
  <1>5. ASSUME NEW c \in Callers,
               JoinCheck(c) \/ BeginRefresh(c) \/ BeginList(c)
        PROVE  Attended'
    <2>1. /\ ~Active(c) /\ Running
          /\ UNCHANGED <<row, generation, abandoned>>
      BY <1>5 DEF JoinCheck, BeginRefresh, BeginList, Active, At
    <2>2. PICK x : operation' = [operation EXCEPT ![c] = x]
      BY <1>5 DEF JoinCheck, BeginRefresh, BeginList, Does
    <2> QED BY <1>4, <2>1, <2>2
  <1>6. ASSUME NEW c \in Callers, EndList(c)
        PROVE  Attended'
    <2>1. /\ ~Active(c) /\ Running
          /\ UNCHANGED <<generation, abandoned>>
          /\ operation' = [operation EXCEPT ![c] = Idle]
          /\ row' \in {row, NotChecked}
      BY <1>6 DEF EndList, Active, At, Does
    <2>2. row'.status = "checking" => row.status = "checking"
      BY <2>1 DEF NotChecked
    <2> QED BY <1>4, <2>1, <2>2
  <1>7. ASSUME NEW c \in Callers, Active(c), NEW x \in Begun, Does(c, x), Running,
               x.generation = operation[c].generation, UNCHANGED generation,
               \/ IsCurrent(c)
               \/ /\ row'.status = "checking" => row.status = "checking"
                  /\ ~abandoned' => ~abandoned
        PROVE  Attended'
    <2>1. /\ operation'[c] = x /\ x # Idle /\ x.at \in {"marking", "probing", "writing"}
          /\ \A d \in Callers : d # c => operation'[d] = operation[d]
      BY <1>1, <1>7, PlaceholdersAreNotValues DEF Does, Operations, Begun
    <2>2. Active(c)'
      BY <2>1 DEF Active, At
    <2>3. CASE IsCurrent(c)
      BY <1>7, <2>1, <2>2, <2>3 DEF IsCurrent, Attended
    <2>4. CASE /\ row'.status = "checking" => row.status = "checking"
               /\ ~abandoned' => ~abandoned
      <3>1. \A d \in Callers : Active(d) =>
                Active(d)' /\ operation'[d].generation = operation[d].generation
        BY <1>7, <2>1, <2>2 DEF Active, At
      <3> QED BY <1>7, <2>4, <3>1, AttendedStays
    <2> QED BY <1>7, <2>3, <2>4
  <1>8. ASSUME NEW c \in Callers, Mark(c)
        PROVE  Attended'
    <2> DEFINE x == [operation[c] EXCEPT !.at = "probing"]
    <2>1. Active(c) /\ operation[c] \in Begun
      BY <1>2, <1>8 DEF Mark, Active
    <2>2. x \in Begun /\ x.generation = operation[c].generation
      BY <2>1 DEF Begun
    <2>3. /\ Does(c, x) /\ Running /\ UNCHANGED generation
          /\ row' = IF IsCurrent(c) THEN [row EXCEPT !.status = "checking"] ELSE row
          /\ abandoned' = (abandoned /\ ~IsCurrent(c))
      BY <1>8 DEF Mark
    <2> HIDE DEF x
    <2> QED BY <1>7, <2>1, <2>2, <2>3
  <1>9. ASSUME NEW c \in Callers, Probe(c) \/ ProbeThrows(c) \/ Prepared(c)
        PROVE  Attended'
    <2>1. PICK outcome \in Rows, thrown \in BOOLEAN : Answers(c, outcome, thrown)
      <3>1. CASE Probe(c)
        <4>1. PICK ok \in BOOLEAN :
                  Answers(c, [status |-> IF ok THEN "ready" ELSE "unavailable",
                              succeeded |-> ok], FALSE)
          BY <3>1 DEF Probe
        <4>2. [status |-> IF ok THEN "ready" ELSE "unavailable", succeeded |-> ok] \in Rows
          BY DEF Rows, Statuses
        <4> QED BY <4>1, <4>2
      <3>2. CASE ProbeThrows(c)
        <4>1. [row EXCEPT !.status = "unavailable"] \in Rows
          BY <1>1 DEF Rows, Statuses
        <4> QED BY <3>2, <4>1 DEF ProbeThrows
      <3>3. CASE Prepared(c)
        <4>1. NotChecked \in Rows
          BY DEF NotChecked, Rows, Statuses
        <4> QED BY <3>3, <4>1 DEF Prepared
      <3> QED BY <1>9, <3>1, <3>2, <3>3
    <2> DEFINE x == [operation[c] EXCEPT !.at = "writing", !.outcome = outcome,
                                         !.thrown = thrown]
    <2>2. Active(c) /\ operation[c] \in Begun
      BY <1>2, <1>9 DEF Probe, ProbeThrows, Prepared, Active
    <2>3. x \in Begun /\ x.generation = operation[c].generation
      BY <2>2 DEF Begun
    <2>4. Does(c, x)
      BY <2>1 DEF Answers
    <2>5. Running /\ UNCHANGED <<row, generation, abandoned>>
      BY <1>9 DEF Probe, ProbeThrows, Prepared
    <2> HIDE DEF x
    <2> QED BY <1>7, <2>2, <2>3, <2>4, <2>5
  <1>10. ASSUME NEW c \in Callers, Write(c)
         PROVE  Attended'
    <2>1. Active(c) /\ Settles(c) /\ Running /\ UNCHANGED generation /\ operation[c] # Idle
      BY <1>10 DEF Write, Active, At
    <2>2. CASE IsCurrent(c)
      <3>1. row' = operation[c].outcome /\ operation[c].at = "writing"
        BY <1>10, <2>2 DEF Write, At
      <3>2. row'.status # "checking"
        BY <2>1, <3>1 DEF Earned, Honest
      <3> QED BY <3>2 DEF Attended
    <2>3. CASE ~IsCurrent(c)
      <3>1. row' = row /\ (~abandoned' => ~abandoned)
        BY <1>10, <2>3 DEF Write
      <3>2. ~At(c, "waiting")
        BY <1>2, <2>1
      <3>3. \A d \in Callers : d # c /\ operation[d] # Idle /\ ~At(d, "waiting")
                                   => operation'[d] = operation[d]
        BY <2>1, <3>2, SharedSettles
      <3>4. \A d \in Callers : Active(d) /\ operation[d].generation = generation
                                   => operation'[d] = operation[d]
        BY <1>2, <2>3, <3>3 DEF IsCurrent, Active, At
      <3>5. \A d \in Callers : Active(d) /\ operation[d].generation = generation
                                   => Active(d)' /\ operation'[d].generation = generation
        BY <3>4 DEF Active, At
      <3> QED BY <2>1, <3>1, <3>5, AttendedStays
    <2> QED BY <2>2, <2>3
  <1>11. ASSUME NEW c \in Callers, PrepareFails(c)
         PROVE  Attended'
    BY <1>11 DEF PrepareFails, Attended
  <1>12. ASSUME NEW c \in Callers, Refuse(c)
         PROVE  Attended'
    BY <1>12 DEF Refuse, Attended, Running
  <1>13. CASE RequestShutdown \/ Exit \/ Crash
    BY <1>13 DEF RequestShutdown, Exit, Crash, Vanish, Attended, Running
  <1>14. CASE Restart
    <2>1. row'.status # "checking"
      BY <1>1, <1>14 DEF Restart, Repaired, Rows
    <2> QED BY <2>1 DEF Attended
  <1>15. CASE UNCHANGED vars
    BY <1>15 DEF vars, Attended, Active, At, Running
  <1> QED
    BY <1>3, <1>5, <1>6, <1>8, <1>9, <1>10, <1>11, <1>12, <1>13, <1>14, <1>15
       DEF Next, Requests, Steps

\* The conjunction that is inductive.
CheckInv == TypeInv /\ Shared /\ Earned /\ Attended /\ shown <= generation

\* An outcome that is written is the one of the latest operation.
LEMMA ShownStep ==
    ASSUME TypeInv, shown <= generation, [Next]_vars
    PROVE  /\ shown' <= generation'
           /\ Running /\ Running' => shown' >= shown
  <1>1. shown \in Nat /\ generation \in Nat
    BY BoundsOK DEF TypeInv, CapabilityTypeOK
  <1>2. CASE shown' = shown /\ generation' \in {generation, generation + 1}
    BY <1>1, <1>2
  <1>3. ASSUME NEW c \in Callers, Write(c)
        PROVE  shown' \in {shown, generation} /\ generation' = generation
    BY <1>3 DEF Write, IsCurrent
  <1>4. CASE Exit \/ Crash
    BY <1>4 DEF Exit, Crash, Vanish, Running
  <1>5. ASSUME NEW c \in Callers, Requests(c) \/ Steps(c), ~Write(c)
        PROVE  shown' = shown /\ generation' \in {generation, generation + 1}
    BY <1>5 DEF Requests, Steps, BeginCheck, JoinCheck, BeginPrepare, BeginRefresh, Begins,
       Mark, Probe, ProbeThrows, Prepared, PrepareFails, BeginList, EndList, Refuse
  <1>6. CASE RequestShutdown \/ Restart \/ UNCHANGED vars
    BY <1>1, <1>6 DEF RequestShutdown, Restart, vars
  <1> QED BY <1>1, <1>2, <1>3, <1>4, <1>5, <1>6 DEF Next

\* The invariant holds in every state.
LEMMA CheckInvCorrect == Spec => []CheckInv
  <1>1. Init => CheckInv
    <2>1. Init => shown <= generation
      BY DEF Init
    <2> QED BY <2>1, TypeInit, SharedInit, EarnedInit, AttendedInit DEF CheckInv
  <1>2. CheckInv /\ [Next]_vars => CheckInv'
    BY TypeStep, SharedStep, EarnedStep, AttendedStep, ShownStep DEF CheckInv
  <1> QED BY <1>1, <1>2, PTL DEF Spec

\* A row that says "checking" is being checked, or a prepare that made the check out of
\* date has failed (checkCapabilityProvider, prepareCapabilityProvider).
THEOREM ChecksAreAttended == Spec => []CheckingIsAttended
  <1>1. CheckInv => CheckingIsAttended
    BY DEF CheckInv, Attended, CheckingIsAttended, Active
  <1> QED BY <1>1, CheckInvCorrect, PTL

\* A late operation does not overwrite the outcome of a later one
\* (isCurrentCapabilityOperation).
THEOREM LateOutcomesAreDropped == Spec => LatestOutcomeStays
  <1>1. CheckInv /\ [Next]_vars => [Running /\ Running' => shown' >= shown]_vars
    BY ShownStep DEF CheckInv
  <1>2. [Running /\ Running' => shown' >= shown]_vars
            => [service = "running" /\ service' = "running" => shown' >= shown]_vars
    BY DEF Running
  <1> QED BY <1>1, <1>2, CheckInvCorrect, PTL DEF Spec, LatestOutcomeStays
================================================================================
