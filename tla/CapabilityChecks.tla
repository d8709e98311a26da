--------------------------- MODULE CapabilityChecks ---------------------------
(***************************************************************************)
(* The connection checks of a capability provider (Chrome, Composio) in    *)
(* src/src/product/store.ts: a check, a prepare and a refresh run outside  *)
(* the update queue, or hold it while they probe, and write the row of the *)
(* provider through it. Checks asked for at the same time share a promise; *)
(* a generation tells an operation that a later one has begun.             *)
(*                                                                         *)
(* One provider: generations, promises and rows of providers are apart.    *)
(* Of the row, the status and whether lastSuccessAt is set are kept.       *)
(***************************************************************************)
EXTENDS Naturals, Sequences, SequencesExt

CONSTANTS
    Callers,         \* requests to the store
    NoCaller, Idle,
    MaxBegun,        \* bound: checks and prepares begun between two restarts
    MaxStops         \* bound: shutdowns and crashes

ASSUME BoundsOK == MaxBegun \in Nat /\ MaxStops \in Nat

Statuses == {"not_checked", "checking", "ready", "unavailable"}

Rows == [status : Statuses, succeeded : BOOLEAN]

\* Checks and prepares, which have a generation.
Begun == [kind : {"check", "prepare"}, at : {"marking", "probing", "writing"},
          generation : 1 .. MaxBegun, outcome : Rows, thrown : BOOLEAN]

Refreshes == [kind : {"refresh"}, at : {"queued", "listing"}]

Joins == [kind : {"join"}, at : {"waiting"}]

Operations == Begun \cup Refreshes \cup Joins

ASSUME PlaceholdersAreNotValues == NoCaller \notin Callers /\ Idle \notin Operations

VARIABLES
    row,          \* the provider in the product state
    generation,   \* capabilityOperationGeneration
    promise,      \* capabilityCheckPromises: who began the check under way
    operation,    \* caller -> what it is doing, or Idle
    queue,        \* updateQueue: callers whose update waits
    service,      \* "running", "stopping" or "down"
    stops,
    answered,     \* the last answer of a check that was written
    shown,        \* the generation of the operation that was written last
    abandoned     \* a prepare failed after it had put an earlier check out of date

vars == <<row, generation, promise, operation, queue, service, stops, answered,
          shown, abandoned>>

NotChecked == [status |-> "not_checked", succeeded |-> FALSE]

CapabilityTypeOK ==
    /\ row \in Rows
    /\ generation \in 0 .. MaxBegun + 1
    /\ promise \in Callers \cup {NoCaller}
    /\ operation \in [Callers -> Operations \cup {Idle}]
    /\ queue \in Seq(Callers) /\ IsInjective(queue)
    /\ service \in {"running", "stopping", "down"}
    /\ stops \in 0 .. MaxStops
    /\ answered \in Statuses \cup {"none"}
    /\ shown \in 0 .. MaxBegun
    /\ abandoned \in BOOLEAN

Init ==
    /\ row = NotChecked
    /\ generation = 0
    /\ promise = NoCaller
    /\ operation = [c \in Callers |-> Idle]
    /\ queue = <<>>
    /\ service = "running"
    /\ stops = 0
    /\ answered = "none"
    /\ shown = 0
    /\ abandoned = FALSE

Running == service = "running"

At(c, point) == operation[c] # Idle /\ operation[c].at = point

Does(c, op) == operation' = [operation EXCEPT ![c] = op]

\* The caller whose update has its turn.
Turn(c) == queue # <<>> /\ Head(queue) = c

\* beginCapabilityOperation
Begins(c, kind, point) ==
    /\ Running
    /\ operation[c] = Idle
    /\ generation < MaxBegun
    /\ generation' = generation + 1
    /\ Does(c, [kind |-> kind, at |-> point, generation |-> generation + 1,
                outcome |-> NotChecked, thrown |-> FALSE])

\* Mutant: the generation is not asked for.
IsCurrentAlways(c) == TRUE

\* isCurrentCapabilityOperation
IsCurrent(c) == operation[c].generation = generation

----------------------------------------------------------------------------
(* checkCapabilityProvider                                                 *)

\* Mutant: every request begins a check of its own.
IsCheckedNever == FALSE

IsChecked == promise # NoCaller

BeginCheck(c) ==
    /\ ~IsChecked
    /\ Begins(c, "check", "marking")
    /\ promise' = c
    /\ queue' = Append(queue, c)
    /\ UNCHANGED <<row, service, stops, answered, shown, abandoned>>

JoinCheck(c) ==
    /\ Running
    /\ operation[c] = Idle
    /\ IsChecked
    /\ Does(c, [kind |-> "join", at |-> "waiting"])
    /\ UNCHANGED <<row, generation, promise, queue, service, stops, answered, shown,
                   abandoned>>

\* Mutant: the turn is kept while the registry is asked.
MarkHolding(c) ==
    /\ Running
    /\ Turn(c)
    /\ At(c, "marking")
    /\ row' = IF IsCurrent(c) THEN [row EXCEPT !.status = "checking"] ELSE row
    /\ abandoned' = (abandoned /\ ~IsCurrent(c))
    /\ Does(c, [operation[c] EXCEPT !.at = "probing"])
    /\ UNCHANGED <<generation, promise, queue, service, stops, answered, shown>>

Mark(c) ==
    /\ Running
    /\ Turn(c)
    /\ At(c, "marking")
    /\ row' = IF IsCurrent(c) THEN [row EXCEPT !.status = "checking"] ELSE row
    /\ abandoned' = (abandoned /\ ~IsCurrent(c))
    /\ queue' = Tail(queue)
    /\ Does(c, [operation[c] EXCEPT !.at = "probing"])
    /\ UNCHANGED <<generation, promise, service, stops, answered, shown>>

\* The outcome waits for its turn.
Answers(c, outcome, thrown) ==
    /\ queue' = Append(queue, c)
    /\ Does(c, [operation[c] EXCEPT !.at = "writing", !.outcome = outcome, !.thrown = thrown])

Probe(c) ==
    /\ Running
    /\ At(c, "probing")
    /\ operation[c].kind = "check"
    /\ \E ok \in BOOLEAN :
          Answers(c, [status |-> IF ok THEN "ready" ELSE "unavailable", succeeded |-> ok], FALSE)
    /\ UNCHANGED <<row, generation, promise, service, stops, answered, shown, abandoned>>

\* The promise settles: whoever waits for it is answered, and it is forgotten.
Settles(c) ==
    /\ operation' = [d \in Callers |->
                        IF d = c \/ (promise = c /\ At(d, "waiting")) THEN Idle ELSE operation[d]]
    /\ promise' = IF promise = c THEN NoCaller ELSE promise

\* Mutant: what registry.check throws is passed on.
ProbeThrowsOn(c) ==
    /\ Running
    /\ At(c, "probing")
    /\ operation[c].kind = "check"
    /\ Settles(c)
    /\ UNCHANGED <<row, generation, queue, service, stops, answered, shown, abandoned>>

\* What registry.check throws makes the row, as it was then, unavailable.
ProbeThrows(c) ==
    /\ Running
    /\ At(c, "probing")
    /\ operation[c].kind = "check"
    /\ Answers(c, [row EXCEPT !.status = "unavailable"], TRUE)
    /\ UNCHANGED <<row, generation, promise, service, stops, answered, shown, abandoned>>

Write(c) ==
    /\ Running
    /\ Turn(c)
    /\ At(c, "writing")
    /\ row' = IF IsCurrent(c) THEN operation[c].outcome ELSE row
    /\ shown' = IF IsCurrent(c) THEN operation[c].generation ELSE shown
    /\ answered' = IF IsCurrent(c) /\ operation[c].kind = "check" /\ ~operation[c].thrown
                   THEN operation[c].outcome.status ELSE answered
    /\ abandoned' = (abandoned /\ ~IsCurrent(c))
    /\ queue' = Tail(queue)
    /\ Settles(c)
    /\ UNCHANGED <<generation, service, stops>>

----------------------------------------------------------------------------
(* prepareCapabilityProvider and refreshCapabilityProviders                *)

BeginPrepare(c) ==
    /\ Begins(c, "prepare", "probing")
    /\ UNCHANGED <<row, promise, queue, service, stops, answered, shown, abandoned>>

Prepared(c) ==
    /\ Running
    /\ At(c, "probing")
    /\ operation[c].kind = "prepare"
    /\ Answers(c, NotChecked, FALSE)
    /\ UNCHANGED <<row, generation, promise, service, stops, answered, shown, abandoned>>

PrepareFails(c) ==
    /\ Running
    /\ At(c, "probing")
    /\ operation[c].kind = "prepare"
    /\ Does(c, Idle)
    /\ abandoned' = TRUE
    /\ UNCHANGED <<row, generation, promise, queue, service, stops, answered, shown>>

BeginRefresh(c) ==
    /\ Running
    /\ operation[c] = Idle
    /\ Does(c, [kind |-> "refresh", at |-> "queued"])
    /\ queue' = Append(queue, c)
    /\ UNCHANGED <<row, generation, promise, service, stops, answered, shown, abandoned>>

\* The update has its turn and keeps it while the registry is asked.
BeginList(c) ==
    /\ Running
    /\ Turn(c)
    /\ At(c, "queued")
    /\ Does(c, [kind |-> "refresh", at |-> "listing"])
    /\ UNCHANGED <<row, generation, promise, queue, service, stops, answered, shown,
                   abandoned>>

\* Mutant: an update that fails keeps its turn.
EndListKeepingTurn(c) ==
    /\ Running
    /\ Turn(c)
    /\ At(c, "listing")
    /\ \/ /\ row' = IF row.status \in {"ready", "unavailable"} THEN row ELSE NotChecked
          /\ queue' = Tail(queue)
       \/ UNCHANGED <<row, queue>>
    /\ Does(c, Idle)
    /\ UNCHANGED <<generation, promise, service, stops, answered, shown, abandoned>>

\* mergeCapabilityProviderSnapshots: what a check has found out stays; or the
\* registry throws and nothing is written.
EndList(c) ==
    /\ Running
    /\ Turn(c)
    /\ At(c, "listing")
    /\ row' \in {row, IF row.status \in {"ready", "unavailable"} THEN row ELSE NotChecked}
    /\ queue' = Tail(queue)
    /\ Does(c, Idle)
    /\ UNCHANGED <<generation, promise, service, stops, answered, shown, abandoned>>

----------------------------------------------------------------------------
(* Shutdown, crash and repairStaleRuntimeState                             *)

RequestShutdown ==
    /\ Running
    /\ stops < MaxStops
    /\ stops' = stops + 1
    /\ service' = "stopping"
    /\ generation' = generation + 1
    /\ UNCHANGED <<row, promise, operation, queue, answered, shown, abandoned>>

\* assertStoreAcceptingOperations throws wherever an operation goes on, in an
\* update that waits when it has its turn.
Refuse(c) ==
    /\ service = "stopping"
    /\ operation[c] # Idle /\ ~At(c, "waiting")
    /\ IF c \in ToSet(queue) THEN Turn(c) /\ queue' = Tail(queue) ELSE UNCHANGED queue
    /\ Settles(c)
    /\ UNCHANGED <<row, generation, service, stops, answered, shown, abandoned>>

Vanish ==
    /\ service' = "down"
    /\ generation' = 0
    /\ promise' = NoCaller
    /\ operation' = [c \in Callers |-> Idle]
    /\ queue' = <<>>
    /\ shown' = 0
    /\ abandoned' = FALSE
    /\ UNCHANGED <<row, answered>>

Exit == service = "stopping" /\ Vanish /\ UNCHANGED stops

Crash == Running /\ stops < MaxStops /\ stops' = stops + 1 /\ Vanish

\* Mutant: an interrupted check was always ready before.
RepairedReady ==
    IF row.status = "checking" THEN [row EXCEPT !.status = "ready"] ELSE row

Repaired ==
    IF row.status = "checking"
    THEN [row EXCEPT !.status = IF row.succeeded THEN "ready" ELSE "not_checked"]
    ELSE row

Restart ==
    /\ service = "down"
    /\ service' = "running"
    /\ row' = Repaired
    /\ UNCHANGED <<generation, promise, operation, queue, stops, answered, shown, abandoned>>

----------------------------------------------------------------------------

Requests(c) == BeginCheck(c) \/ JoinCheck(c) \/ BeginPrepare(c) \/ BeginRefresh(c)

\* Updates have their turn, the registry answers, an operation is refused.
Steps(c) ==
    \/ Mark(c) \/ Probe(c) \/ ProbeThrows(c) \/ Write(c)
    \/ Prepared(c) \/ PrepareFails(c)
    \/ BeginList(c) \/ EndList(c)
    \/ Refuse(c)

Next ==
    \/ \E c \in Callers : Requests(c) \/ Steps(c)
    \/ RequestShutdown \/ Exit \/ Crash \/ Restart

\* Probes have deadlines and the queue goes on.
Fairness == \A c \in Callers : WF_vars(Steps(c))

Spec == Init /\ [][Next]_vars /\ Fairness

----------------------------------------------------------------------------
(* Correctness                                                             *)

\* The row says "checking" only while a check, or a prepare that replaces it, is
\* under way (a prepare that fails breaks this until the next check).
CheckingIsAttended ==
    Running /\ row.status = "checking" =>
        abandoned \/ \E c \in Callers :
                        At(c, "marking") \/ At(c, "probing") \/ At(c, "writing")

\* Concurrent requests share one probe: Chrome is not opened, or restarted, by two
\* checks at the same time, and who joins a check gets an answer of a probe that
\* was not over when they asked.
ChecksAreShared ==
    /\ \A c, d \in Callers :
          /\ At(c, "probing") /\ At(d, "probing")
          /\ operation[c].kind = "check" /\ operation[d].kind = "check"
          => c = d
    /\ \A c \in Callers : At(c, "waiting") /\ Running =>
          \/ promise # NoCaller /\ operation[promise] # Idle

\* An operation that finishes late does not overwrite the outcome of a later one.
LatestOutcomeStays == [][service = "running" /\ service' = "running" => shown' >= shown]_vars

\* The row says "ready" only if the last check that was answered found it ready:
\* also after refreshes, after prepares, and when a restart repairs the row of a
\* check that was interrupted.
ReadyIsEarned == row.status = "ready" => answered = "ready"

\* Every request comes to its end.
RequestsEnd == \A c \in Callers : operation[c] # Idle ~> operation[c] = Idle
================================================================================
