---------------------------- MODULE WorkerRunsProofs ----------------------------
(***************************************************************************)
(* Theorems about WorkerRuns for any workers, runs, turns and calls: the   *)
(* types, one open run for each worker, runs that are over, the rows, and  *)
(* the shutdown.                                                           *)
(***************************************************************************)
EXTENDS WorkerRuns, FiniteSetTheorems, TLAPS

\* Whoever names a run names one that was created.
NamedRunsExist ==
    /\ \A t \in Turns : turns[t] # NoTurn => runs[turns[t].run] # NoRun
    /\ \A c \in Calls :
          (calls[c] # Idle /\ calls[c].at \in {"starting turn", "awaiting ready", "ready"})
              => /\ calls[c].run \in Runs /\ runs[calls[c].run] # NoRun
                 /\ calls[c].op \in {"start", "command"}
                 /\ calls[c].at = "ready" => calls[c].result # "none"
    /\ \A i \in DOMAIN updates :
          updates[i].what \in {"started", "commanded", "observed"}
              => /\ updates[i].run \in Runs /\ runs[updates[i].run] # NoRun
                 /\ updates[i].what # "observed" => updates[i].result # "none"
    /\ \A i \in DOMAIN updates :
          updates[i].caught => updates[i].what \in {"started", "commanded", "observed"}

\* The types and the references of the state, as one inductive invariant.
TypeInv == TypeOK /\ NamedRunsExist /\ UpdatesHaveCallers

RunMap  == [Runs -> RunRows \cup {NoRun}]
TurnMap == [Turns -> TurnStates \cup {NoTurn}]
CallMap == [Calls -> CallStates \cup {Idle}]

----------------------------------------------------------------------------
(* Helpers. *)

\* A row that shows a run shows one of the statuses of a worker.
LEMMA ShownForType ==
    ASSUME NEW status \in RunStatuses, NEW kind \in Kinds
    PROVE  ShownFor(status, kind) \in ShownStatuses
  BY DEF ShownFor, ShownStatuses, RunStatuses, OpenStatuses, Kinds

\* normalizeProductWorkerState yields one of the statuses of a worker.
LEMMA RowShowsType ==
    ASSUME NEW w \in Workers, NEW status \in ShownStatuses, NEW rows \in RunMap, NEW at
    PROVE  RowShows(w, status, rows, at) \in ShownStatuses
  <1>1. CASE OpenIn(rows, w) # {}
    <2> DEFINE r == CHOOSE r \in OpenIn(rows, w) : TRUE
    <2>1. r \in OpenIn(rows, w)
      BY <1>1
    <2>2. r \in Runs /\ rows[r] # NoRun
      BY <2>1 DEF OpenIn
    <2>3. rows[r].status \in RunStatuses /\ rows[r].kind \in Kinds
      BY <2>2 DEF RunMap, RunRows
    <2> HIDE DEF r
    <2>4. ShownFor(rows[r].status, rows[r].kind) \in ShownStatuses
      BY <2>3, ShownForType
    <2> QED BY <1>1, <2>4 DEF RowShows, r
  <1>2. CASE OpenIn(rows, w) = {}
    BY <1>2 DEF RowShows, ShownStatuses
  <1> QED BY <1>1, <1>2

\* Every update leaves rows that show one of the statuses of a worker.
LEMMA ShowType ==
    ASSUME shown \in [Workers -> ShownStatuses], runs' \in RunMap,
           NEW statuses, \A w \in Workers : statuses[w] \in ShownStatuses, Show(statuses)
    PROVE  shown' \in [Workers -> ShownStatuses]
  BY RowShowsType DEF Show

\* A turn told to stop, or dropped, is still a turn.
LEMMA ToldTurns ==
    ASSUME NEW turn \in TurnStates
    PROVE  /\ [turn EXCEPT !.asked = TRUE] \in TurnStates
           /\ [turn EXCEPT !.handle = "dropped", !.asked = TRUE] \in TurnStates
           /\ [turn EXCEPT !.handle = "lost"] \in TurnStates
           /\ [turn EXCEPT !.ready = TRUE] \in TurnStates
           /\ [turn EXCEPT !.observed = TRUE] \in TurnStates
           /\ \A result \in Results \cup {"none"} : Ended(turn, result) \in TurnStates
  BY DEF TurnStates, Ended

\* The same turn, told to stop.
Told(old, new) ==
    /\ new.run = old.run /\ new.alive = old.alive /\ new.handle = old.handle
    /\ new.last = old.last /\ new.asked

\* What a signal does to a turn.
LEMMA ToldFields ==
    ASSUME NEW old \in TurnStates, NEW new, new = [old EXCEPT !.asked = TRUE]
    PROVE  new \in TurnStates /\ Told(old, new)
  BY DEF TurnStates, Told

\* Signals only tell turns to stop.
LEMMA SignalledTurns ==
    ASSUME NEW ts \in TurnMap, NEW w, NEW x \in Signalled(ts, w)
    PROVE  /\ x \in TurnMap
           /\ \A t \in Turns : \/ x[t] = ts[t]
                               \/ /\ ts[t] # NoTurn /\ x[t] \in TurnStates
                                  /\ Told(ts[t], x[t])
  <1>1. CASE x = ts
    BY <1>1
  <1>2. CASE x # ts
    <2>1. /\ x = [t \in Turns |-> x[t]]
          /\ \A t \in Turns : \/ x[t] = ts[t]
                              \/ /\ ts[t] # NoTurn
                                 /\ x[t] = [ts[t] EXCEPT !.asked = TRUE]
      BY <1>2 DEF Signalled
    <2>2. \A t \in Turns : ts[t] # NoTurn => ts[t] \in TurnStates
      BY DEF TurnMap
    <2>3. \A t \in Turns : \/ x[t] = ts[t]
                           \/ /\ ts[t] # NoTurn
                              /\ x[t] \in TurnStates /\ Told(ts[t], x[t])
      BY <2>1, <2>2, ToldFields
    <2> QED BY <2>1, <2>3 DEF TurnMap
  <1> QED BY <1>1, <1>2

\* A cleanup only tells turns to stop.
LEMMA CleanUpTurns ==
    ASSUME turns \in TurnMap, NEW w, CleanUp(w)
    PROVE  /\ turns' \in TurnMap
           /\ \A t \in Turns : \/ turns'[t] = turns[t]
                               \/ turns[t] # NoTurn /\ Told(turns[t], turns'[t])
  BY SignalledTurns DEF CleanUp

\* Stopping handles drops them and tells their turns to stop.
LEMMA StopHandlesTurns ==
    ASSUME turns \in TurnMap, NEW S, \A t \in S : t \in Turns /\ turns[t] # NoTurn,
           StopHandles(S)
    PROVE  /\ turns' \in TurnMap
           /\ \A t \in S : /\ turns'[t].run = turns[t].run
                           /\ turns'[t].alive = turns[t].alive
                           /\ turns'[t].handle = "dropped" /\ turns'[t].asked
           /\ \A t \in Turns : t \notin S => turns'[t] = turns[t]
  <1>1. ASSUME NEW t \in S
        PROVE  /\ turns'[t] \in TurnStates
               /\ turns'[t].run = turns[t].run
               /\ turns'[t].alive = turns[t].alive
               /\ turns'[t].handle = "dropped" /\ turns'[t].asked
    <2>1. turns[t] \in TurnStates
      BY DEF TurnMap
    <2>2. turns'[t] = [turns[t] EXCEPT !.handle = "dropped", !.asked = TRUE]
      BY DEF StopHandles
    <2> QED BY <2>1, <2>2 DEF TurnStates
  <1>2. \A t \in Turns : t \notin S => turns'[t] = turns[t]
    BY DEF StopHandles
  <1>3. \A t \in Turns : turns'[t] \in TurnStates \cup {NoTurn}
    BY <1>1, <1>2 DEF TurnMap
  <1> QED BY <1>1, <1>2, <1>3 DEF StopHandles, TurnMap

\* A new turn of a run.
LEMMA NewTurnType ==
    ASSUME NEW c \in Calls, calls \in CallMap, calls[c] # Idle,
           calls[c].at = "starting turn", calls[c].op \in {"start", "command"},
           calls[c].run \in Runs, NEW late \in BOOLEAN
    PROVE  NewTurn(c, late) \in TurnStates
  BY DEF NewTurn, TurnStates

\* A report of a turn, queued when its promise settles.
LEMMA ReportType ==
    ASSUME turns \in TurnMap, NEW t \in Turns, turns[t] # NoTurn, NEW result \in Results,
           NEW fallback \in {"running", "paused"}, NEW what \in {"started", "commanded"}
    PROVE  [StartedUpdate(t, result, fallback) EXCEPT !.what = what] \in UpdateStates
  BY DEF StartedUpdate, UpdateStates, TurnMap, TurnStates

\* What a turn reports when it is ready and when it ends.
LEMMA ReportsType ==
    ASSUME turns \in TurnMap, NEW t \in Turns, turns[t] # NoTurn, NEW result \in Results
    PROVE  /\ ReadyUpdates(t, result) \in Seq(UpdateStates)
           /\ FinalUpdates(t, result) \in Seq(UpdateStates)
  <1>1. StartedUpdate(t, result, "running") \in UpdateStates
    BY DEF StartedUpdate, UpdateStates, TurnMap, TurnStates
  <1>2. StartedUpdate(t, result, "paused") \in UpdateStates
    BY DEF StartedUpdate, UpdateStates, TurnMap, TurnStates
  <1>3. [StartedUpdate(t, result, "paused") EXCEPT !.what = "commanded"] \in UpdateStates
    BY ReportType
  <1>4. ReadyUpdates(t, result) \in Seq(UpdateStates)
    BY <1>1 DEF ReadyUpdates
  <1>5. FinalUpdates(t, result) \in Seq(UpdateStates)
    BY <1>1, <1>2, <1>3 DEF FinalUpdates
  <1> QED BY <1>4, <1>5

\* Calls that wait for handle.ready see its result.
LEMMA WakeWaitersCalls ==
    ASSUME calls \in CallMap, NEW t, NEW result \in Results, WakeWaiters(t, result)
    PROVE  /\ calls' \in CallMap
           /\ \A c \in Calls :
                 \/ calls'[c] = calls[c]
                 \/ /\ calls[c] # Idle /\ calls[c].at = "awaiting ready"
                    /\ calls'[c] = [calls[c] EXCEPT !.at = "ready", !.result = result]
  <1>1. /\ calls' = [c \in Calls |-> calls'[c]]
        /\ \A c \in Calls :
                 \/ calls'[c] = calls[c]
                 \/ /\ calls[c] # Idle /\ calls[c].at = "awaiting ready"
                    /\ calls'[c] = [calls[c] EXCEPT !.at = "ready", !.result = result]
    BY DEF WakeWaiters, At
  <1>2. ASSUME NEW c \in Calls, calls[c] # Idle
        PROVE  [calls[c] EXCEPT !.at = "ready", !.result = result] \in CallStates
    BY <1>2 DEF CallMap, CallStates
  <1>3. \A c \in Calls : calls'[c] \in CallStates \cup {Idle}
    BY <1>1, <1>2 DEF CallMap
  <1> QED BY <1>1, <1>3 DEF CallMap

\* A call that returns frees its slot.
LEMMA Returns ==
    ASSUME calls \in CallMap, NEW c \in Calls, Return(c)
    PROVE  /\ calls' \in CallMap
           /\ calls'[c] = Idle
           /\ \A d \in Calls : d # c => calls'[d] = calls[d]
  BY DEF CallMap, Return

\* A call that goes on to wait for its update.
LEMMA GoesToQueue ==
    ASSUME calls \in CallMap, NEW c \in Calls, calls[c] # Idle, Goes(c, "queued")
    PROVE  /\ calls' \in CallMap
           /\ calls'[c] = [calls[c] EXCEPT !.at = "queued"]
           /\ \A d \in Calls : d # c => calls'[d] = calls[d]
  <1>1. [calls[c] EXCEPT !.at = "queued"] \in CallStates
    BY DEF CallMap, CallStates
  <1> QED BY <1>1 DEF CallMap, Goes

\* A call that begins.
LEMMA Begins ==
    ASSUME calls \in CallMap, NEW c \in Calls, NEW x \in CallStates,
           calls' = [calls EXCEPT ![c] = x]
    PROVE  /\ calls' \in CallMap
           /\ calls'[c] = x
           /\ \A d \in Calls : d # c => calls'[d] = calls[d]
  BY DEF CallMap

\* What the update of a call, or of a turn, looks like in the queue.
LEMMA EnqueueType ==
    ASSUME updates \in Seq(UpdateStates),
           NEW what \in {"start", "stop", "delete", "started", "commanded", "observed"},
           NEW c \in Calls \cup {Idle}, NEW r \in Runs \cup {NoRun},
           NEW result \in Results \cup {"failed", "none"},
           NEW fallback \in {"running", "paused"},
           Enqueue(what, c, r, result, fallback)
    PROVE  /\ updates' \in Seq(UpdateStates)
           /\ Len(updates') = Len(updates) + 1
           /\ \A i \in 1 .. Len(updates) : updates'[i] = updates[i]
           /\ updates'[Len(updates) + 1] =
                 [what |-> what, call |-> c, run |-> r, result |-> result,
                  fallback |-> fallback, caught |-> FALSE]
  <1> DEFINE u == [what |-> what, call |-> c, run |-> r, result |-> result,
                   fallback |-> fallback, caught |-> FALSE]
  <1>1. u \in UpdateStates
    BY DEF UpdateStates
  <1>2. updates' = Append(updates, u)
    BY DEF Enqueue
  <1> HIDE DEF u
  <1>3. /\ updates' \in Seq(UpdateStates)
        /\ Len(updates') = Len(updates) + 1
        /\ \A i \in 1 .. Len(updates) : updates'[i] = updates[i]
        /\ updates'[Len(updates) + 1] = u
    BY <1>1, <1>2
  <1> QED BY <1>3 DEF u

----------------------------------------------------------------------------
(* Types. *)

\* The budget of calls.
LEMMA BeginType ==
    ASSUME TypeOK, Begin
    PROVE  begun' \in 0 .. MaxCalls
  BY ConstantsOK DEF TypeOK, Begin

\* A call record of a call that begins.
LEMMA CallType ==
    ASSUME NEW op \in {"start", "command", "stop", "delete"},
           NEW at \in {"provisioning", "starting turn", "stopping processes",
                       "disconnecting"},
           NEW w \in Workers, NEW kind \in Kinds, NEW r \in Runs \cup {NoRun}
    PROVE  Call(op, at, w, kind, r) \in CallStates
  BY DEF Call, CallStates

\* The steps of a start before its run is created keep the types.
LEMMA StartTypes ==
    ASSUME TypeInv, NEW c \in Calls
    PROVE  /\ \A w \in Workers, kind \in Kinds : BeginStart(c, w, kind) => TypeOK'
           /\ Provisioned(c) => TypeOK'
           /\ NotProvisioned(c) => TypeOK'
  <1>1. ASSUME NEW w \in Workers, NEW kind \in Kinds, BeginStart(c, w, kind)
        PROVE  TypeOK'
    <2>1. calls' \in CallMap
      BY <1>1, CallType, Begins DEF BeginStart, TypeInv, TypeOK, CallMap
    <2>2. begun' \in 0 .. MaxCalls
      BY <1>1, BeginType DEF BeginStart, TypeInv
    <2> QED BY <1>1, <2>1, <2>2 DEF BeginStart, TypeInv, TypeOK, CallMap, persisted
  <1>2. ASSUME Provisioned(c)
        PROVE  TypeOK'
    <2>1. updates' \in Seq(UpdateStates)
      BY <1>2, EnqueueType DEF Provisioned, TypeInv, TypeOK
    <2>2. calls' \in CallMap
      BY <1>2, GoesToQueue DEF Provisioned, At, TypeInv, TypeOK, CallMap
    <2> QED BY <1>2, <2>1, <2>2 DEF Provisioned, TypeInv, TypeOK, CallMap, persisted
  <1>3. ASSUME NotProvisioned(c)
        PROVE  TypeOK'
    <2>1. calls' \in CallMap /\ turns' \in TurnMap
      BY <1>3, Returns, CleanUpTurns DEF NotProvisioned, TypeInv, TypeOK, CallMap, TurnMap
    <2> QED BY <1>3, <2>1 DEF NotProvisioned, TypeInv, TypeOK, CallMap, TurnMap, persisted
  <1> QED BY <1>1, <1>2, <1>3

\* The steps of a call that starts a turn keep the types.
LEMMA TurnStartTypes ==
    ASSUME TypeInv, NEW c \in Calls
    PROVE  /\ \A t \in Turns : TurnStarts(c, t) => TypeOK'
           /\ AbandonTurn(c) => TypeOK'
           /\ TurnRefused(c) => TypeOK'
           /\ ApplyReady(c) => TypeOK'
           /\ ReadyTimesOut(c) => TypeOK'
  <1> USE DEF TypeInv
  <1>0. turns \in TurnMap /\ calls \in CallMap /\ updates \in Seq(UpdateStates)
    BY DEF TypeOK, TurnMap, CallMap
  <1>1. ASSUME NEW t \in Turns, TurnStarts(c, t)
        PROVE  TypeOK'
    <2>1. \A late \in BOOLEAN : NewTurn(c, late) \in TurnStates
      BY <1>0, <1>1, NewTurnType DEF TurnStarts, NamedRunsExist
    <2>2. \A late \in BOOLEAN : [turns EXCEPT ![t] = NewTurn(c, late)] \in TurnMap
      BY <1>0, <2>1 DEF TurnMap
    <2>3. turns' \in TurnMap
      <3>1. CASE store = "open"
        BY <1>1, <2>2, <3>1 DEF TurnStarts
      <3>2. CASE store # "open"
        BY <1>1, <2>2, <3>2, SignalledTurns DEF TurnStarts
      <3> QED BY <3>1, <3>2
    <2>4. calls' \in CallMap
      <3>1. CASE store = "open" /\ calls[c].op = "start"
        <4>1. [calls[c] EXCEPT !.at = "awaiting ready", !.turn = t] \in CallStates
          BY <1>0, <1>1 DEF TurnStarts, CallMap, CallStates
        <4> QED BY <1>0, <1>1, <3>1, <4>1 DEF TurnStarts, CallMap
      <3>2. CASE ~(store = "open" /\ calls[c].op = "start")
        BY <1>0, <1>1, <3>2, Returns DEF TurnStarts
      <3> QED BY <3>1, <3>2
    <2> QED BY <1>1, <2>3, <2>4 DEF TurnStarts, TypeOK, TurnMap, CallMap, persisted
  <1>2. ASSUME AbandonTurn(c)
        PROVE  TypeOK'
    <2>1. calls' \in CallMap /\ turns' \in TurnMap
      BY <1>0, <1>2, Returns, CleanUpTurns DEF AbandonTurn
    <2> QED BY <1>2, <2>1 DEF AbandonTurn, TypeOK, TurnMap, CallMap, persisted
  <1>3. ASSUME TurnRefused(c)
        PROVE  TypeOK'
    <2>1. calls' \in CallMap /\ turns' \in TurnMap
      BY <1>0, <1>3, Returns, CleanUpTurns DEF TurnRefused
    <2>2. calls[c].run \in Runs
      BY <1>3 DEF TurnRefused, NamedRunsExist
    <2>3. updates' \in Seq(UpdateStates)
      BY <1>0, <1>3, <2>2, EnqueueType DEF TurnRefused
    <2> QED BY <1>3, <2>1, <2>3 DEF TurnRefused, TypeOK, TurnMap, CallMap, persisted
  <1>4. ASSUME ApplyReady(c)
        PROVE  TypeOK'
    <2>1. calls' \in CallMap /\ turns' \in TurnMap
      BY <1>0, <1>4, Returns, CleanUpTurns DEF ApplyReady
    <2>2. calls[c].run \in Runs /\ calls[c].result \in Results \cup {"none"}
      BY <1>0, <1>4 DEF ApplyReady, At, NamedRunsExist, CallMap, CallStates
    <2>3. updates' \in Seq(UpdateStates)
      BY <1>0, <1>4, <2>2, EnqueueType DEF ApplyReady
    <2> QED BY <1>4, <2>1, <2>3 DEF ApplyReady, TypeOK, TurnMap, CallMap, persisted
  <1>5. ASSUME ReadyTimesOut(c)
        PROVE  TypeOK'
    <2>1. calls' \in CallMap /\ turns' \in TurnMap
      BY <1>0, <1>5, Returns, CleanUpTurns DEF ReadyTimesOut
    <2> QED BY <1>5, <2>1 DEF ReadyTimesOut, TypeOK, TurnMap, CallMap, persisted
  <1> QED BY <1>1, <1>2, <1>3, <1>4, <1>5

\* What turns report keeps the types.
LEMMA ReportTypes ==
    ASSUME TypeInv, NEW t \in Turns
    PROVE  /\ \A result \in Results : Ready(t, result) \/ Exits(t, result) => TypeOK'
           /\ Observed(t) => TypeOK'
           /\ LostTurnExits(t) => TypeOK'
  <1> USE DEF TypeInv
  <1>0. turns \in TurnMap /\ calls \in CallMap /\ updates \in Seq(UpdateStates)
    BY DEF TypeOK, TurnMap, CallMap
  <1>1. ASSUME NEW result \in Results, Ready(t, result)
        PROVE  TypeOK'
    <2>1. turns' \in TurnMap
      BY <1>0, <1>1, ToldTurns DEF Ready, TurnMap
    <2>2. updates' \in Seq(UpdateStates)
      BY <1>0, <1>1, ReportsType DEF Ready
    <2>3. calls' \in CallMap
      BY <1>0, <1>1, WakeWaitersCalls DEF Ready
    <2> QED BY <1>1, <2>1, <2>2, <2>3 DEF Ready, TypeOK, TurnMap, CallMap, persisted
  <1>2. ASSUME NEW result \in Results, Exits(t, result)
        PROVE  TypeOK'
    <2>1. turns' \in TurnMap
      BY <1>0, <1>2, ToldTurns DEF Exits, TurnMap
    <2>2. updates' \in Seq(UpdateStates)
      <3>1. ReadyUpdates(t, result) \in Seq(UpdateStates)
            /\ FinalUpdates(t, result) \in Seq(UpdateStates)
        BY <1>0, <1>2, ReportsType DEF Exits
      <3>2. updates \o FinalUpdates(t, result) \in Seq(UpdateStates)
        BY <1>0, <3>1
      <3>3. (updates \o ReadyUpdates(t, result)) \o FinalUpdates(t, result)
                \in Seq(UpdateStates)
        <4>1. updates \o ReadyUpdates(t, result) \in Seq(UpdateStates)
          BY <1>0, <3>1
        <4> QED BY <3>1, <4>1
      <3> QED BY <1>2, <3>2, <3>3 DEF Exits
    <2>3. calls' \in CallMap
      BY <1>0, <1>2, WakeWaitersCalls DEF Exits
    <2> QED BY <1>2, <2>1, <2>2, <2>3 DEF Exits, TypeOK, TurnMap, CallMap, persisted
  <1>3. ASSUME Observed(t)
        PROVE  TypeOK'
    <2>1. turns' \in TurnMap
      BY <1>0, <1>3, ToldTurns DEF Observed, Tracked, TurnMap
    <2>2. turns[t].run \in Runs
      BY <1>0, <1>3 DEF Observed, Tracked, TurnMap, TurnStates
    <2>3. updates' \in Seq(UpdateStates)
      BY <1>0, <1>3, <2>2, EnqueueType DEF Observed
    <2> QED BY <1>3, <2>1, <2>3 DEF Observed, TypeOK, TurnMap, persisted
  <1>4. ASSUME LostTurnExits(t)
        PROVE  TypeOK'
    <2>1. turns' \in TurnMap
      BY <1>0, <1>4, ToldTurns DEF LostTurnExits, TurnMap
    <2> QED BY <1>4, <2>1 DEF LostTurnExits, TypeOK, TurnMap, persisted
  <1> QED BY <1>1, <1>2, <1>3, <1>4

\* Commands, stops and changes of a worker keep the types.
LEMMA CommandTypes ==
    ASSUME TypeInv, NEW w \in Workers
    PROVE  /\ \A c \in Calls : BeginSend(c, w) \/ BeginStop(c, w) \/ BeginDelete(c, w)
                                => TypeOK'
           /\ \A v \in Workers : AssignDevice(w, v) => TypeOK'
           /\ ChangeInstalled(w) => TypeOK'
  <1> USE DEF TypeInv
  <1>0. /\ turns \in TurnMap /\ calls \in CallMap /\ runs \in RunMap
        /\ shown \in [Workers -> ShownStatuses]
    BY DEF TypeOK, TurnMap, CallMap, RunMap
  <1>1. ASSUME NEW c \in Calls, BeginSend(c, w)
        PROVE  TypeOK'
    <2>1. PICK r \in OpenRunsOf(w) :
              /\ runs' = [runs EXCEPT ![r].status = "running"]
              /\ calls' = [calls EXCEPT ![c] =
                              Call("command", "starting turn", w, runs[r].kind, r)]
      BY <1>1 DEF BeginSend
    <2>2. r \in Runs /\ runs[r] \in RunRows
      BY <1>0 DEF OpenRunsOf, OpenIn, RunMap
    <2>3. [runs[r] EXCEPT !.status = "running"] \in RunRows
      BY <2>2 DEF RunRows, RunStatuses, OpenStatuses
    <2>4. runs' \in RunMap
      BY <1>0, <2>1, <2>3 DEF RunMap
    <2>5. calls' \in CallMap
      <3>1. runs[r].kind \in Kinds
        BY <2>2 DEF RunRows
      <3>2. Call("command", "starting turn", w, runs[r].kind, r) \in CallStates
        BY <2>2, <3>1, CallType
      <3> QED BY <1>0, <2>1, <3>2, Begins
    <2>6. shown' \in [Workers -> ShownStatuses]
      BY <1>0, <1>1, <2>4, ShowType DEF BeginSend
    <2>7. begun' \in 0 .. MaxCalls
      BY <1>1, BeginType DEF BeginSend
    <2> QED BY <1>1, <2>4, <2>5, <2>6, <2>7 DEF BeginSend, TypeOK, CallMap, RunMap
  <1>2. ASSUME NEW c \in Calls, BeginStop(c, w)
        PROVE  TypeOK'
    <2>0. begun' \in 0 .. MaxCalls /\ UNCHANGED <<persisted, updates, store, faults>>
      BY <1>2, BeginType DEF BeginStop
    <2>1. CASE OpenRunsOf(w) = {} /\ UNCHANGED <<turns, stopping>>
               /\ calls' = [calls EXCEPT ![c] =
                              Call("stop", "stopping processes", w, "workflow", NoRun)]
      <3>1. Call("stop", "stopping processes", w, "workflow", NoRun) \in CallStates
        BY CallType DEF Kinds
      <3>2. calls' \in CallMap
        BY <1>0, <2>1, <3>1, Begins
      <3> QED BY <2>0, <2>1, <3>2 DEF TypeOK, CallMap, persisted
    <2>2. ASSUME NEW r \in OpenRunsOf(w),
                 calls' = [calls EXCEPT ![c] =
                              Call("stop", "stopping processes", w, runs[r].kind, r)],
                 stopping' = stopping \cup {r},
                 StopHandles({t \in TurnsOf(r) : Tracked(t)})
          PROVE  TypeOK'
      <3>1. r \in Runs /\ runs[r].kind \in Kinds
        BY <1>0 DEF OpenRunsOf, OpenIn, RunMap, RunRows
      <3>2. Call("stop", "stopping processes", w, runs[r].kind, r) \in CallStates
        BY <3>1, CallType
      <3>3. calls' \in CallMap
        BY <1>0, <2>2, <3>2, Begins
      <3>4. turns' \in TurnMap
        BY <1>0, <2>2, StopHandlesTurns DEF TurnsOf
      <3>5. stopping' \subseteq Runs
        BY <2>2, <3>1 DEF TypeOK
      <3> QED BY <2>0, <3>3, <3>4, <3>5 DEF TypeOK, CallMap, TurnMap, persisted
    <2> QED BY <1>2, <2>1, <2>2 DEF BeginStop
  <1>3. ASSUME NEW c \in Calls, BeginDelete(c, w)
        PROVE  TypeOK'
    <2>1. Call("delete", "disconnecting", w, "workflow", NoRun) \in CallStates
      BY CallType DEF Kinds
    <2>2. calls' \in CallMap
      BY <1>0, <1>3, <2>1, Begins DEF BeginDelete
    <2>3. begun' \in 0 .. MaxCalls
      BY <1>3, BeginType DEF BeginDelete
    <2> QED BY <1>3, <2>2, <2>3 DEF BeginDelete, TypeOK, CallMap, persisted
  <1>4. ASSUME NEW v \in Workers, AssignDevice(w, v)
        PROVE  TypeOK'
    <2> DEFINE st == [u \in Workers |-> CASE u = w -> "No active task"
                                          [] u \in placed \ placed' -> "Needs device"
                                          [] OTHER -> shown[u]]
    <2>1. \A u \in Workers : st[u] \in ShownStatuses
      BY <1>0 DEF ShownStatuses
    <2>2. Show(st)
      BY <1>4 DEF AssignDevice
    <2> HIDE DEF st
    <2>3. shown' \in [Workers -> ShownStatuses]
      BY <1>0, <1>4, <2>1, <2>2, ShowType DEF AssignDevice, RunMap
    <2>4. placed' \subseteq workers'
      BY <1>4 DEF AssignDevice, TypeOK
    <2>5. /\ begun' \in 0 .. MaxCalls
          /\ UNCHANGED <<workers, runs, turns, stopping, calls, updates, store, faults>>
      BY <1>4, BeginType DEF AssignDevice
    <2> QED BY <2>3, <2>4, <2>5 DEF TypeOK
  <1>5. ASSUME ChangeInstalled(w)
        PROVE  TypeOK'
    <2>1. PICK status \in {"No active task", "Needs device"} :
              Show([shown EXCEPT ![w] = status])
      BY <1>5 DEF ChangeInstalled
    <2>2. \A u \in Workers : [shown EXCEPT ![w] = status][u] \in ShownStatuses
      BY <1>0 DEF ShownStatuses
    <2>3. shown' \in [Workers -> ShownStatuses]
      BY <1>0, <1>5, <2>1, <2>2, ShowType DEF ChangeInstalled, RunMap
    <2>4. /\ begun' \in 0 .. MaxCalls
          /\ UNCHANGED <<workers, placed, runs, turns, stopping, calls, updates, store,
                         faults>>
      BY <1>5, BeginType DEF ChangeInstalled
    <2> QED BY <2>3, <2>4 DEF TypeOK
  <1> QED BY <1>1, <1>2, <1>3, <1>4, <1>5

\* The end of a stop and of a deletion, before their updates, keep the types.
LEMMA StopTypes ==
    ASSUME TypeInv, NEW c \in Calls
    PROVE  ProcessesStopped(c) \/ Disconnected(c) => TypeOK'
  <1> USE DEF TypeInv
  <1>0. turns \in TurnMap /\ calls \in CallMap /\ updates \in Seq(UpdateStates)
    BY DEF TypeOK, TurnMap, CallMap
  <1>1. ASSUME ProcessesStopped(c)
        PROVE  TypeOK'
    <2>1. turns' \in TurnMap
      BY <1>0, <1>1, SignalledTurns DEF ProcessesStopped
    <2>2. calls' \in CallMap
      BY <1>0, <1>1, GoesToQueue, Returns DEF ProcessesStopped, At
    <2>3. calls[c].run \in Runs \cup {NoRun}
      BY <1>0, <1>1 DEF ProcessesStopped, At, CallMap, CallStates
    <2>4. updates' \in Seq(UpdateStates)
      BY <1>0, <1>1, <2>3, EnqueueType DEF ProcessesStopped
    <2> QED BY <1>1, <2>1, <2>2, <2>4 DEF ProcessesStopped, TypeOK, TurnMap, CallMap, persisted
  <1>2. ASSUME Disconnected(c)
        PROVE  TypeOK'
    <2>1. calls' \in CallMap
      BY <1>0, <1>2, GoesToQueue, Returns DEF Disconnected, At
    <2>2. updates' \in Seq(UpdateStates)
      BY <1>0, <1>2, EnqueueType DEF Disconnected
    <2> QED BY <1>2, <2>1, <2>2 DEF Disconnected, TypeOK, CallMap, persisted
  <1> QED BY <1>1, <1>2

\* The update at the head of the queue.
LEMMA HeadUpdate ==
    ASSUME TypeInv, updates # << >>
    PROVE  LET u == Head(updates) IN
           /\ u \in UpdateStates
           /\ u = updates[1] /\ 1 \in DOMAIN updates
           /\ Tail(updates) \in Seq(UpdateStates)
           /\ u.what \in {"start", "stop", "delete"} =>
                 /\ u.call \in Calls
                 /\ calls[u.call] \in CallStates
                 /\ At(u.call, u.what, "queued")
           /\ u.what \in {"started", "commanded", "observed"} =>
                 /\ u.run \in Runs
                 /\ runs[u.run] \in RunRows
                 /\ u.what # "observed" => u.result # "none"
  <1> DEFINE u == Head(updates)
  <1>1. /\ u \in UpdateStates
        /\ u = updates[1] /\ 1 \in DOMAIN updates
        /\ Tail(updates) \in Seq(UpdateStates)
    BY DEF TypeInv, TypeOK
  <1>2. u.what \in {"start", "stop", "delete"} =>
            u.call \in Calls /\ At(u.call, u.what, "queued")
    BY <1>1 DEF TypeInv, UpdatesHaveCallers
  <1>3. \A c \in Calls : calls[c] # Idle => calls[c] \in CallStates
    BY DEF TypeInv, TypeOK
  <1>4. u.what \in {"started", "commanded", "observed"} =>
            /\ u.run \in Runs /\ runs[u.run] # NoRun
            /\ u.what # "observed" => u.result # "none"
    BY <1>1 DEF TypeInv, NamedRunsExist
  <1>5. \A r \in Runs : runs[r] # NoRun => runs[r] \in RunRows
    BY DEF TypeInv, TypeOK
  <1> QED BY <1>1, <1>2, <1>3, <1>4, <1>5 DEF At

\* The status a result gives to a run.
LEMMA ResultStatus ==
    ASSUME NEW result \in Results \cup {"failed"},
           NEW fallback \in {"running", "paused"}, NEW kind \in Kinds
    PROVE  /\ StatusOf(result, fallback) \in RunStatuses
           /\ AfterCommand(StatusOf(result, fallback), kind) \in RunStatuses
  BY ConstantsOK DEF StatusOf, AfterCommand, RunStatuses, OpenStatuses, ResultKinds

\* What the update of a result does.
LEMMA ResultApplied ==
    ASSUME TypeInv, NEW u \in UpdateStates, ApplyResult(u),
           u.run \in Runs, runs[u.run] \in RunRows, u.result # "none"
    PROVE  /\ UNCHANGED <<workers, placed, turns, stopping, calls, store, begun, faults>>
           /\ \/ UNCHANGED runs /\ Show(shown)
              \/ \E status \in RunStatuses, session \in BOOLEAN :
                    /\ TakesResults(u.run)
                    /\ runs' = [runs EXCEPT ![u.run] =
                          [runs[u.run] EXCEPT !.status = status, !.session = session]]
                    /\ Show([shown EXCEPT ![runs[u.run].worker] =
                                ShownFor(status, runs[u.run].kind)])
  <1>1. UNCHANGED <<workers, placed, turns, stopping, calls, store, begun, faults>>
    BY DEF ApplyResult
  <1>2. CASE ~TakesResults(u.run)
    BY <1>1, <1>2 DEF ApplyResult
  <1>3. CASE TakesResults(u.run)
    <2> DEFINE run == runs[u.run]
               status == IF u.what = "started" THEN StatusOf(u.result, u.fallback)
                         ELSE AfterCommand(StatusOf(u.result, "paused"), run.kind)
    <2>1. /\ \E session \in {run.session, TRUE} :
                runs' = [runs EXCEPT ![u.run] =
                            [run EXCEPT !.status = status, !.session = session]]
          /\ Show([shown EXCEPT ![run.worker] = ShownFor(status, run.kind)])
      BY <1>3 DEF ApplyResult
    <2>2. /\ u.result \in Results \cup {"failed"}
          /\ u.fallback \in {"running", "paused"}
          /\ run.kind \in Kinds /\ run.session \in BOOLEAN
      BY DEF UpdateStates, RunRows
    <2>3. status \in RunStatuses
      BY <2>2, ResultStatus
    <2> HIDE DEF status
    <2> QED BY <1>1, <1>3, <2>1, <2>2, <2>3
  <1> QED BY <1>2, <1>3

\* What the update of a start does.
LEMMA StartApplied ==
    ASSUME TypeInv, NEW u \in UpdateStates, ApplyStart(u),
           u.call \in Calls, calls[u.call] \in CallStates
    PROVE  \E r \in Runs :
              LET w   == calls[u.call].worker
                  row == [worker |-> w, kind |-> calls[u.call].kind,
                          status |-> "running", session |-> FALSE]
              IN  /\ w \in workers /\ OpenRunsOf(w) = {}
                  /\ runs[r] = NoRun
                  /\ row \in RunRows
                  /\ runs' = [runs EXCEPT ![r] = row]
                  /\ calls' = [calls EXCEPT ![u.call].at = "starting turn",
                                            ![u.call].run = r]
                  /\ Show([shown EXCEPT ![w] = "Working"])
                  /\ UNCHANGED <<workers, placed, turns, stopping, store, begun, faults>>
  <1>1. PICK r \in Runs : CreateRun(u.call, calls[u.call].worker, r)
    BY DEF ApplyStart
  <1>2. calls[u.call].worker \in workers /\ OpenRunsOf(calls[u.call].worker) = {}
    BY DEF ApplyStart, CanCreateRun
  <1>3. [worker |-> calls[u.call].worker, kind |-> calls[u.call].kind,
         status |-> "running", session |-> FALSE] \in RunRows
    BY DEF CallStates, RunRows, RunStatuses, OpenStatuses
  <1> QED BY <1>1, <1>2, <1>3 DEF CreateRun

\* What the update of a stop does.
LEMMA StopApplied ==
    ASSUME TypeInv, NEW u \in UpdateStates, ApplyStop(u),
           u.call \in Calls, calls[u.call] \in CallStates
    PROVE  /\ UNCHANGED <<workers, placed, turns, store, begun, faults>>
           /\ stopping' = stopping \ {u.run}
           /\ Return(u.call)
           /\ calls[u.call].worker \in Workers
           /\ Show([shown EXCEPT ![calls[u.call].worker] = "No active task"])
           /\ \/ OpenRunsOf(calls[u.call].worker) = {} /\ UNCHANGED runs
              \/ \E r \in OpenRunsOf(calls[u.call].worker) :
                    runs' = [runs EXCEPT ![r] = [runs[r] EXCEPT !.status = "paused"]]
  <1>1. calls[u.call].worker \in Workers
    BY DEF CallStates
  <1> QED BY <1>1 DEF ApplyStop

\* A row with another status is still a row.
LEMMA RowStatusType ==
    ASSUME NEW row \in RunRows, NEW status \in RunStatuses, NEW session \in BOOLEAN
    PROVE  /\ [row EXCEPT !.status = status] \in RunRows
           /\ [row EXCEPT !.status = status, !.session = session] \in RunRows
  BY DEF RunRows

\* What a failed transaction leaves behind.
LEMMA RescuedType ==
    ASSUME NEW u \in UpdateStates
    PROVE  /\ Rescued(u) \in Seq(UpdateStates)
           /\ \/ Rescued(u) = << >>
              \/ \E v \in UpdateStates :
                    /\ u.caught /\ Rescued(u) = <<v>> /\ v.what = u.what /\ v.call = u.call
                    /\ v.run = u.run /\ v.result = "failed" /\ ~v.caught
  <1> DEFINE v == [u EXCEPT !.result = "failed", !.caught = FALSE]
  <1>1. /\ v \in UpdateStates /\ v.what = u.what /\ v.call = u.call
        /\ v.run = u.run /\ v.result = "failed" /\ ~v.caught
    BY DEF UpdateStates
  <1>2. Rescued(u) = IF u.caught THEN <<v>> ELSE << >>
    BY DEF Rescued
  <1> HIDE DEF v
  <1> QED BY <1>1, <1>2

\* Every queued update keeps the types.
LEMMA UpdateTypes ==
    ASSUME TypeInv, RunUpdate
    PROVE  TypeOK'
  <1> DEFINE u == Head(updates)
  <1>0. /\ turns \in TurnMap /\ calls \in CallMap /\ runs \in RunMap
        /\ shown \in [Workers -> ShownStatuses]
        /\ workers \subseteq Workers
    BY DEF TypeInv, TypeOK, TurnMap, CallMap, RunMap
  <1>1. /\ updates # << >>
        /\ updates' = Tail(updates) \/ updates' = Tail(updates) \o Rescued(u)
        /\ \/ ApplyStart(u) \/ ApplyResult(u) \/ ApplyObserved(u) \/ ApplyStop(u)
           \/ ApplyDelete(u)
           \/ DropUpdate(u) /\ faults' \in {faults, faults + 1}
                            /\ (faults' # faults => faults < MaxFaults)
    BY DEF RunUpdate
  <1>2. /\ u \in UpdateStates
        /\ updates' \in Seq(UpdateStates)
        /\ u.what \in {"start", "stop", "delete"} =>
              u.call \in Calls /\ calls[u.call] \in CallStates
        /\ u.what \in {"started", "commanded", "observed"} =>
              /\ u.run \in Runs /\ runs[u.run] \in RunRows
              /\ u.what # "observed" => u.result # "none"
    <2>1. u \in UpdateStates /\ Tail(updates) \in Seq(UpdateStates)
      BY <1>1, HeadUpdate
    <2>2. Rescued(u) \in Seq(UpdateStates)
      BY <2>1, RescuedType
    <2>3. updates' \in Seq(UpdateStates)
      <3>1. ASSUME NEW a \in Seq(UpdateStates), NEW b \in Seq(UpdateStates)
            PROVE  a \o b \in Seq(UpdateStates)
        OBVIOUS
      <3> QED BY <1>1, <2>1, <2>2, <3>1
    <2> QED BY <1>1, <2>1, <2>3, HeadUpdate
  <1> HIDE DEF u
  <1>3. CASE ApplyStart(u)
    <2>1. u.call \in Calls /\ calls[u.call] \in CallStates
      BY <1>2, <1>3 DEF ApplyStart
    <2>2. PICK r \in Runs :
              LET w   == calls[u.call].worker
                  row == [worker |-> w, kind |-> calls[u.call].kind,
                          status |-> "running", session |-> FALSE]
              IN  /\ w \in workers
                  /\ row \in RunRows
                  /\ runs' = [runs EXCEPT ![r] = row]
                  /\ calls' = [calls EXCEPT ![u.call].at = "starting turn",
                                            ![u.call].run = r]
                  /\ Show([shown EXCEPT ![w] = "Working"])
                  /\ UNCHANGED <<workers, placed, turns, stopping, store, begun, faults>>
      BY <1>2, <1>3, <2>1, StartApplied
    <2>3. runs' \in RunMap
      BY <1>0, <2>2 DEF RunMap
    <2>4. [calls[u.call] EXCEPT !.at = "starting turn", !.run = r] \in CallStates
      BY <2>1 DEF CallStates
    <2>5. calls' \in CallMap
      BY <1>0, <2>1, <2>2, <2>4 DEF CallMap
    <2>6. \A w \in Workers : [shown EXCEPT ![calls[u.call].worker] = "Working"][w]
                                \in ShownStatuses
      BY <1>0 DEF ShownStatuses
    <2>7. shown' \in [Workers -> ShownStatuses]
      BY <1>0, <2>2, <2>3, <2>6, ShowType
    <2> QED BY <1>1, <1>2, <2>2, <2>3, <2>5, <2>7 DEF TypeInv, TypeOK, RunMap, CallMap
  <1>4. CASE ApplyResult(u)
    <2>1. u.run \in Runs /\ runs[u.run] \in RunRows /\ u.result # "none"
      BY <1>2, <1>4 DEF ApplyResult
    <2>2. UNCHANGED <<workers, placed, turns, stopping, calls, store, begun, faults>>
      BY <1>2, <1>4, <2>1, ResultApplied
    <2>3. CASE UNCHANGED runs /\ Show(shown)
      <3>1. shown' \in [Workers -> ShownStatuses]
        BY <1>0, <2>3, ShowType
      <3> QED BY <1>1, <1>2, <2>2, <2>3, <3>1 DEF TypeInv, TypeOK
    <2>4. ASSUME NEW status \in RunStatuses, NEW session \in BOOLEAN,
                 runs' = [runs EXCEPT ![u.run] =
                           [runs[u.run] EXCEPT !.status = status, !.session = session]],
                 Show([shown EXCEPT ![runs[u.run].worker] =
                           ShownFor(status, runs[u.run].kind)])
          PROVE  TypeOK'
      <3>1. runs' \in RunMap
        BY <1>0, <2>1, <2>4, RowStatusType DEF RunMap
      <3>2. runs[u.run].kind \in Kinds
        BY <2>1 DEF RunRows
      <3>3. ShownFor(status, runs[u.run].kind) \in ShownStatuses
        BY <3>2, ShownForType
      <3>4. shown' \in [Workers -> ShownStatuses]
        BY <1>0, <2>4, <3>1, <3>3, ShowType
      <3> QED BY <1>1, <1>2, <2>2, <3>1, <3>4 DEF TypeInv, TypeOK, RunMap
    <2> QED BY <1>2, <1>4, <2>1, <2>3, <2>4, ResultApplied
  <1>5. CASE ApplyObserved(u)
    <2>1. PICK st \in {[shown EXCEPT ![runs[u.run].worker] = "Working"], shown} : Show(st)
      BY <1>5 DEF ApplyObserved
    <2>2. \A w \in Workers : st[w] \in ShownStatuses
      BY <1>0 DEF ShownStatuses
    <2>3. shown' \in [Workers -> ShownStatuses]
      BY <1>0, <1>5, <2>1, <2>2, ShowType DEF ApplyObserved
    <2>4. UNCHANGED <<workers, placed, runs, turns, stopping, calls, store, begun, faults>>
      BY <1>5 DEF ApplyObserved
    <2> QED BY <1>1, <1>2, <2>3, <2>4 DEF TypeInv, TypeOK
  <1>6. CASE ApplyStop(u)
    <2>1. u.call \in Calls /\ calls[u.call] \in CallStates
      BY <1>2, <1>6 DEF ApplyStop
    <2>2. /\ UNCHANGED <<workers, placed, turns, store, begun, faults>>
          /\ stopping' = stopping \ {u.run}
          /\ Return(u.call)
          /\ Show([shown EXCEPT ![calls[u.call].worker] = "No active task"])
      BY <1>2, <1>6, <2>1, StopApplied
    <2>3. runs' \in RunMap
      <3>1. CASE UNCHANGED runs
        BY <1>0, <3>1
      <3>2. ASSUME NEW r \in OpenRunsOf(calls[u.call].worker),
                   runs' = [runs EXCEPT ![r] = [runs[r] EXCEPT !.status = "paused"]]
            PROVE  runs' \in RunMap
        <4>1. r \in Runs /\ runs[r] \in RunRows
          BY <1>0 DEF OpenRunsOf, OpenIn, RunMap
        <4>2. [runs[r] EXCEPT !.status = "paused"] \in RunRows
          BY <4>1, RowStatusType DEF RunStatuses
        <4> QED BY <1>0, <3>2, <4>2 DEF RunMap
      <3> QED BY <1>2, <1>6, <2>1, <3>1, <3>2, StopApplied
    <2>4. \A w \in Workers : [shown EXCEPT ![calls[u.call].worker] = "No active task"][w]
                                \in ShownStatuses
      BY <1>0 DEF ShownStatuses
    <2>5. shown' \in [Workers -> ShownStatuses]
      BY <1>0, <2>2, <2>3, <2>4, ShowType
    <2>6. calls' \in CallMap
      BY <1>0, <2>1, <2>2, Returns
    <2> QED BY <1>1, <1>2, <2>2, <2>3, <2>5, <2>6 DEF TypeInv, TypeOK, RunMap, CallMap
  <1>7. CASE ApplyDelete(u)
    <2>1. u.call \in Calls /\ calls[u.call] \in CallStates
      BY <1>2, <1>7 DEF ApplyDelete
    <2>2. calls' \in CallMap
      BY <1>0, <1>7, <2>1, Returns DEF ApplyDelete
    <2>3. shown' \in [Workers -> ShownStatuses]
      BY <1>0, <1>7, ShowType DEF ApplyDelete
    <2>4. workers' \subseteq Workers /\ placed' \subseteq workers'
      BY <1>7 DEF ApplyDelete, TypeInv, TypeOK
    <2>5. UNCHANGED <<runs, turns, stopping, store, begun, faults>>
      BY <1>7 DEF ApplyDelete
    <2> QED BY <1>1, <1>2, <2>2, <2>3, <2>4, <2>5 DEF TypeInv, TypeOK, CallMap
  <1>8. CASE DropUpdate(u) /\ faults' \in {faults, faults + 1}
                           /\ (faults' # faults => faults < MaxFaults)
    <2>1. faults' \in 0 .. MaxFaults
      BY <1>8, ConstantsOK DEF TypeInv, TypeOK
    <2>2. stopping' \subseteq stopping /\ UNCHANGED <<persisted, turns, store, begun>>
      BY <1>8 DEF DropUpdate
    <2>3. calls' \in CallMap
      BY <1>0, <1>8 DEF DropUpdate, CallMap
    <2> QED BY <1>1, <1>2, <2>1, <2>2, <2>3 DEF TypeInv, TypeOK, CallMap, persisted
  <1> QED BY <1>1, <1>3, <1>4, <1>5, <1>6, <1>7, <1>8

\* The repair of a row on the first load.
LEMMA RepairedType ==
    ASSUME runs \in RunMap
    PROVE  \A r \in Runs : Repaired(r) \in RunRows \cup {NoRun}
  BY RowStatusType DEF Repaired, RunMap, RunStatuses

\* The shutdown, a crash and a restart keep the types.
LEMMA ShutdownTypes ==
    ASSUME TypeInv, RequestShutdown \/ CloseStore \/ Restart
    PROVE  TypeOK'
  <1>0. /\ turns \in TurnMap /\ calls \in CallMap /\ runs \in RunMap
        /\ shown \in [Workers -> ShownStatuses]
    BY DEF TypeInv, TypeOK, TurnMap, CallMap, RunMap
  <1>1. CASE RequestShutdown
    <2>1. turns' \in TurnMap
      BY <1>0, <1>1, StopHandlesTurns DEF RequestShutdown, Tracked
    <2>2. /\ begun' \in 0 .. MaxCalls
          /\ store' \in {"open", "stopping", "closed"}
          /\ UNCHANGED <<persisted, stopping, calls, updates, faults>>
      BY <1>1, BeginType DEF RequestShutdown, TypeInv
    <2> QED BY <2>1, <2>2 DEF TypeInv, TypeOK, TurnMap, persisted
  <1>2. CASE CloseStore
    <2>1. turns' \in TurnMap
      <3>1. PICK W \in SUBSET Workers :
              turns' = [t \in Turns |->
                        IF turns[t] # NoTurn /\ turns[t].alive
                           /\ runs[turns[t].run].worker \in W
                        THEN [turns[t] EXCEPT !.asked = TRUE] ELSE turns[t]]
        BY <1>2 DEF CloseStore
      <3>2. \A t \in Turns : turns'[t] \in {turns[t], [turns[t] EXCEPT !.asked = TRUE]}
                             /\ (turns[t] = NoTurn => turns'[t] = NoTurn)
        BY <3>1
      <3>3. \A t \in Turns : turns'[t] \in TurnStates \cup {NoTurn}
        BY <1>0, <3>2, ToldTurns DEF TurnMap
      <3> QED BY <3>1, <3>3 DEF TurnMap
    <2> QED BY <1>2, <2>1 DEF CloseStore, TypeInv, TypeOK, TurnMap, persisted
  <1>3. CASE Restart
    <2>1. runs' \in RunMap
      BY <1>0, <1>3, RepairedType DEF Restart, RunMap
    <2>2. \A w \in Workers : RepairedShown(w) \in ShownStatuses
      BY <1>0, RowShowsType DEF RepairedShown, ShownStatuses
    <2>3. shown' \in [Workers -> ShownStatuses]
      BY <1>0, <1>3, <2>2 DEF Restart
    <2>4. turns' \in TurnMap
      <3>1. \A t \in Turns : turns'[t] \in {turns[t], [turns[t] EXCEPT !.handle = "lost"]}
                             /\ (turns[t] = NoTurn => turns'[t] = NoTurn)
        BY <1>3 DEF Restart
      <3>2. \A t \in Turns : turns'[t] \in TurnStates \cup {NoTurn}
        BY <1>0, <3>1, ToldTurns DEF TurnMap
      <3> QED BY <1>3, <3>2 DEF Restart, TurnMap
    <2>5. calls' \in CallMap
      BY <1>3 DEF Restart, CallMap
    <2>6. faults' \in 0 .. MaxFaults
      BY <1>3, ConstantsOK DEF Restart, TypeInv, TypeOK
    <2>7. /\ stopping' \subseteq Runs /\ updates' \in Seq(UpdateStates)
          /\ store' \in {"open", "stopping", "closed"}
          /\ UNCHANGED <<workers, placed, begun>>
      BY <1>3 DEF Restart
    <2> QED BY <2>1, <2>3, <2>4, <2>5, <2>6, <2>7
            DEF TypeInv, TypeOK, RunMap, TurnMap, CallMap
  <1> QED BY <1>1, <1>2, <1>3

\* Every step keeps the types.
LEMMA TypeStep == TypeInv /\ [Next]_vars => TypeOK'
  <1> SUFFICES ASSUME TypeInv, [Next]_vars
               PROVE  TypeOK'
    OBVIOUS
  <1>1. CASE UNCHANGED vars
    BY <1>1 DEF TypeInv, TypeOK, vars, persisted
  <1>2. CASE Next
    BY <1>2, StartTypes, TurnStartTypes, ReportTypes, CommandTypes, StopTypes, UpdateTypes,
       ShutdownTypes DEF Next
  <1> QED BY <1>1, <1>2

----------------------------------------------------------------------------
(* Named runs. *)

\* A run that was created keeps its row.
LEMMA RowsStay ==
    ASSUME TypeInv, [Next]_vars
    PROVE  \A r \in Runs : runs[r] # NoRun =>
               /\ runs'[r] # NoRun
               /\ runs'[r].worker = runs[r].worker
               /\ runs'[r].kind = runs[r].kind
               /\ runs[r].status \notin OpenStatuses => runs'[r] = runs[r]
  <1> USE DEF OpenStatuses
  <1> DEFINE Stays == \A r \in Runs : runs[r] # NoRun =>
                         /\ runs'[r] # NoRun
                         /\ runs'[r].worker = runs[r].worker
                         /\ runs'[r].kind = runs[r].kind
                         /\ runs[r].status \notin OpenStatuses => runs'[r] = runs[r]
  <1>0. runs \in RunMap /\ runs' \in RunMap
    BY TypeStep DEF TypeInv, TypeOK, RunMap
  <1>1. ASSUME NEW r \in Runs, runs[r] \in RunRows, runs[r].status \in OpenStatuses,
               NEW status \in RunStatuses, NEW session \in BOOLEAN,
               \/ runs' = [runs EXCEPT ![r] = [runs[r] EXCEPT !.status = status]]
               \/ runs' = [runs EXCEPT ![r] =
                              [runs[r] EXCEPT !.status = status, !.session = session]]
        PROVE  Stays
    <2>1. runs'[r] \in RunRows /\ runs'[r].worker = runs[r].worker
          /\ runs'[r].kind = runs[r].kind
      <3>1. \/ runs'[r] = [runs[r] EXCEPT !.status = status]
            \/ runs'[r] = [runs[r] EXCEPT !.status = status, !.session = session]
        BY <1>0, <1>1 DEF RunMap
      <3>2. CASE runs'[r] = [runs[r] EXCEPT !.status = status]
        BY <1>1, <3>2 DEF RunRows
      <3>3. CASE runs'[r] = [runs[r] EXCEPT !.status = status, !.session = session]
        BY <1>1, <3>3 DEF RunRows
      <3> QED BY <3>1, <3>2, <3>3
    <2>2. runs'[r] # NoRun
      BY <2>1, PlaceholdersAreNotValues
    <2>3. \A s \in Runs : s # r => runs'[s] = runs[s]
      BY <1>0, <1>1 DEF RunMap
    <2> QED BY <1>1, <2>1, <2>2, <2>3
  <1>2. CASE UNCHANGED runs
    BY <1>2
  <1>3. ASSUME NEW c \in Calls, NEW w \in Workers, BeginSend(c, w)
        PROVE  Stays
    <2>1. PICK r \in OpenRunsOf(w) : runs' = [runs EXCEPT ![r].status = "running"]
      BY <1>3 DEF BeginSend
    <2>2. r \in Runs /\ runs[r] \in RunRows /\ runs[r].status \in OpenStatuses
      BY <1>0 DEF OpenRunsOf, OpenIn, RunMap
    <2>3. "running" \in RunStatuses
      BY DEF RunStatuses
    <2>4. runs' = [runs EXCEPT ![r] = [runs[r] EXCEPT !.status = "running"]]
      BY <2>1
    <2> QED BY <1>1, <2>2, <2>3, <2>4
  <1>4. CASE RunUpdate
    <2> DEFINE u == Head(updates)
    <2>1. /\ u \in UpdateStates
          /\ u.what \in {"start", "stop", "delete"} =>
                u.call \in Calls /\ calls[u.call] \in CallStates
          /\ u.what \in {"started", "commanded", "observed"} =>
                /\ u.run \in Runs /\ runs[u.run] \in RunRows
                /\ u.what # "observed" => u.result # "none"
      BY <1>4, HeadUpdate DEF RunUpdate
    <2>2. \/ ApplyStart(u) \/ ApplyResult(u) \/ ApplyStop(u) \/ UNCHANGED runs
      BY <1>4 DEF RunUpdate, ApplyObserved, ApplyDelete, DropUpdate, persisted
    <2> HIDE DEF u
    <2>3. CASE ApplyStart(u)
      <3>1. u.call \in Calls /\ calls[u.call] \in CallStates
        BY <2>1, <2>3 DEF ApplyStart
      <3>2. PICK r \in Runs, row \in RunRows :
                 runs[r] = NoRun /\ runs' = [runs EXCEPT ![r] = row]
        BY <2>1, <2>3, <3>1, StartApplied
      <3> QED BY <1>0, <3>2 DEF RunMap
    <2>4. CASE ApplyResult(u)
      <3>1. u.run \in Runs /\ runs[u.run] \in RunRows /\ u.result # "none"
        BY <2>1, <2>4 DEF ApplyResult
      <3>2. \/ UNCHANGED runs
            \/ \E status \in RunStatuses, session \in BOOLEAN :
                  /\ TakesResults(u.run)
                  /\ runs' = [runs EXCEPT ![u.run] =
                        [runs[u.run] EXCEPT !.status = status, !.session = session]]
        BY <2>1, <2>4, <3>1, ResultApplied
      <3> QED BY <1>1, <1>2, <3>1, <3>2 DEF TakesResults
    <2>5. CASE ApplyStop(u)
      <3>1. u.call \in Calls /\ calls[u.call] \in CallStates
        BY <2>1, <2>5 DEF ApplyStop
      <3>2. \/ UNCHANGED runs
            \/ \E r \in OpenRunsOf(calls[u.call].worker) :
                  runs' = [runs EXCEPT ![r] = [runs[r] EXCEPT !.status = "paused"]]
        BY <2>1, <2>5, <3>1, StopApplied
      <3>3. "paused" \in RunStatuses
        BY DEF RunStatuses
      <3>4. \A r \in OpenRunsOf(calls[u.call].worker) :
               r \in Runs /\ runs[r] \in RunRows /\ runs[r].status \in OpenStatuses
        BY <1>0 DEF OpenRunsOf, OpenIn, RunMap
      <3> QED BY <1>1, <1>2, <3>2, <3>3, <3>4
    <2> QED BY <1>2, <2>2, <2>3, <2>4, <2>5
  <1>5. CASE Restart
    <2>1. \A r \in Runs : runs'[r] = Repaired(r)
      BY <1>5 DEF Restart
    <2>2. \A r \in Runs : runs[r] # NoRun => runs[r] \in RunRows
      BY <1>0 DEF RunMap
    <2>3. ASSUME NEW r \in Runs, runs[r] # NoRun, runs[r].status = "running"
          PROVE  /\ runs'[r] \in RunRows /\ runs'[r].worker = runs[r].worker
                 /\ runs'[r].kind = runs[r].kind
      <3>1. runs'[r] = [runs[r] EXCEPT !.status = "failed"]
        BY <2>1, <2>3 DEF Repaired
      <3>2. "failed" \in RunStatuses
        BY DEF RunStatuses
      <3>3. runs[r] \in RunRows
        BY <2>2, <2>3
      <3> QED BY <3>1, <3>2, <3>3 DEF RunRows
    <2>4. ASSUME NEW r \in Runs, runs[r] # NoRun, runs[r].status # "running"
          PROVE  runs'[r] = runs[r]
      BY <2>1, <2>4 DEF Repaired
    <2> QED BY <2>3, <2>4, PlaceholdersAreNotValues
  <1>6. CASE Next
    BY <1>2, <1>3, <1>4, <1>5, <1>6
       DEF Next, BeginStart, BeginStop, BeginDelete, Provisioned, NotProvisioned, TurnStarts,
           AbandonTurn, TurnRefused, ApplyReady, ReadyTimesOut, ProcessesStopped,
           Disconnected, Ready, Exits, Observed, LostTurnExits, ChangeInstalled,
           AssignDevice, RequestShutdown, CloseStore, persisted
  <1> QED BY <1>2, <1>6 DEF vars, persisted

\* Turn t of the next state continues one of this state with the same run, or was
\* started by a call for its run.
TurnContinues(t) ==
    turns'[t] # NoTurn =>
        \/ turns[t] # NoTurn /\ turns'[t].run = turns[t].run
        \/ \E c \in Calls : /\ calls[c] # Idle /\ calls[c].at = "starting turn"
                            /\ turns'[t].run = calls[c].run

\* No step changes the run of a turn.
LEMMA TurnsContinue ==
    ASSUME TypeInv, [Next]_vars
    PROVE  \A t \in Turns : TurnContinues(t)
  <1> USE DEF TurnContinues
  <1>0. /\ turns \in TurnMap
        /\ \A t \in Turns : turns[t] # NoTurn => turns[t] \in TurnStates
    BY DEF TypeInv, TypeOK, TurnMap
  <1>2. CASE UNCHANGED turns
    BY <1>2
  <1>3. ASSUME NEW w, CleanUp(w)
        PROVE  \A t \in Turns : TurnContinues(t)
    BY <1>0, <1>3, CleanUpTurns DEF Told
  <1>4. ASSUME NEW c \in Calls, NEW t \in Turns, TurnStarts(c, t)
        PROVE  \A s \in Turns : TurnContinues(s)
    <2>1. calls[c] # Idle /\ calls[c].at = "starting turn"
      BY <1>4 DEF TurnStarts
    <2>2. \A late \in BOOLEAN : /\ NewTurn(c, late) \in TurnStates
                               /\ NewTurn(c, late).run = calls[c].run
      BY <2>1, NewTurnType DEF TypeInv, TypeOK, CallMap, NamedRunsExist, NewTurn
    <2>3. \A late \in BOOLEAN :
            LET ts == [turns EXCEPT ![t] = NewTurn(c, late)] IN
            /\ ts \in TurnMap
            /\ ts[t] = NewTurn(c, late)
            /\ \A s \in Turns : s # t => ts[s] = turns[s]
      BY <1>0, <2>2 DEF TurnMap
    <2>4. CASE store = "open"
      <3>1. turns' = [turns EXCEPT ![t] = NewTurn(c, FALSE)]
        BY <1>4, <2>4 DEF TurnStarts
      <3> QED BY <2>1, <2>2, <2>3, <3>1
    <2>5. CASE store # "open"
      <3> DEFINE ts == [turns EXCEPT ![t] = NewTurn(c, TRUE)]
      <3>1. turns' \in Signalled(ts, calls[c].worker)
        BY <1>4, <2>5 DEF TurnStarts
      <3>2. /\ ts \in TurnMap
            /\ ts[t] = NewTurn(c, TRUE)
            /\ \A s \in Turns : s # t => ts[s] = turns[s]
        BY <2>3
      <3> HIDE DEF ts
      <3>3. \A s \in Turns : turns'[s] # NoTurn =>
                ts[s] # NoTurn /\ turns'[s].run = ts[s].run
        BY <3>1, <3>2, SignalledTurns DEF Told
      <3> QED BY <2>1, <2>2, <3>2, <3>3
    <2> QED BY <2>4, <2>5
  <1>5. ASSUME NEW t \in Turns, turns[t] # NoTurn,
               \/ turns' = [turns EXCEPT ![t].ready = TRUE]
               \/ turns' = [turns EXCEPT ![t].observed = TRUE]
               \/ \E result : turns' = [turns EXCEPT ![t] = Ended(turns[t], result)]
        PROVE  \A s \in Turns : TurnContinues(s)
    <2>1. turns'[t].run = turns[t].run
      <3>1. turns[t] \in TurnStates /\ turns = [s \in Turns |-> turns[s]]
        BY <1>0, <1>5 DEF TurnMap
      <3>2. CASE turns' = [turns EXCEPT ![t].ready = TRUE]
        BY <3>1, <3>2 DEF TurnStates
      <3>3. CASE turns' = [turns EXCEPT ![t].observed = TRUE]
        BY <3>1, <3>3 DEF TurnStates
      <3>4. ASSUME NEW result, turns' = [turns EXCEPT ![t] = Ended(turns[t], result)]
            PROVE  turns'[t].run = turns[t].run
        BY <3>1, <3>4 DEF TurnStates, Ended
      <3> QED BY <1>5, <3>2, <3>3, <3>4
    <2>2. \A s \in Turns : s # t => turns'[s] = turns[s]
      BY <1>0, <1>5 DEF TurnMap
    <2> QED BY <1>5, <2>1, <2>2
  <1>6. ASSUME NEW t \in Turns, NEW result \in Results, Ready(t, result)
        PROVE  \A s \in Turns : TurnContinues(s)
    BY <1>5, <1>6 DEF Ready
  <1>7. ASSUME NEW t \in Turns, NEW result \in Results, Exits(t, result)
        PROVE  \A s \in Turns : TurnContinues(s)
    BY <1>0, <1>5, <1>7 DEF Exits, TurnMap
  <1>8. ASSUME NEW t \in Turns, Observed(t) \/ LostTurnExits(t)
        PROVE  \A s \in Turns : TurnContinues(s)
    BY <1>0, <1>5, <1>8 DEF Observed, LostTurnExits, Tracked, TurnMap
  <1>9. ASSUME NEW S, \A t \in S : t \in Turns /\ turns[t] # NoTurn, StopHandles(S)
        PROVE  \A t \in Turns : TurnContinues(t)
    BY <1>0, <1>9, StopHandlesTurns
  <1>10. ASSUME NEW c \in Calls, NEW w \in Workers, BeginStop(c, w)
         PROVE  \A t \in Turns : TurnContinues(t)
    <2>1. \A r : \A t \in {x \in TurnsOf(r) : Tracked(x)} : t \in Turns /\ turns[t] # NoTurn
      BY DEF TurnsOf
    <2> QED BY <1>2, <1>9, <1>10, <2>1 DEF BeginStop
  <1>11. ASSUME NEW c \in Calls, ProcessesStopped(c)
         PROVE  \A t \in Turns : TurnContinues(t)
    <2>1. turns' \in Signalled(turns, calls[c].worker)
      BY <1>11 DEF ProcessesStopped
    <2>2. \A t \in Turns : turns'[t] = turns[t] \/ (turns[t] # NoTurn /\ Told(turns[t], turns'[t]))
      BY <1>0, <2>1, SignalledTurns
    <2> QED BY <2>2 DEF Told
  <1>12. CASE RequestShutdown
    <2>1. \A t \in {x \in Turns : Tracked(x)} : t \in Turns /\ turns[t] # NoTurn
      BY DEF Tracked
    <2> QED BY <1>9, <1>12, <2>1 DEF RequestShutdown
  <1>13. CASE CloseStore
    <2>1. \A t \in Turns : \/ turns'[t] = turns[t]
                           \/ /\ turns[t] # NoTurn
                              /\ turns'[t] = [turns[t] EXCEPT !.asked = TRUE]
      BY <1>13 DEF CloseStore
    <2> QED BY <1>0, <2>1, ToldFields DEF Told
  <1>14. CASE Restart
    <2>1. \A t \in Turns : \/ turns'[t] = turns[t]
                           \/ /\ turns[t] # NoTurn
                              /\ turns'[t] = [turns[t] EXCEPT !.handle = "lost"]
      BY <1>14 DEF Restart
    <2>2. ASSUME NEW turn \in TurnStates, NEW new, new = [turn EXCEPT !.handle = "lost"]
          PROVE  new.run = turn.run
      BY <2>2 DEF TurnStates
    <2> QED BY <1>0, <2>1, <2>2
  <1>15. CASE RunUpdate
    <2>1. UNCHANGED turns
      BY <1>15 DEF RunUpdate, ApplyStart, CreateRun, ApplyResult, ApplyObserved, ApplyStop,
                   ApplyDelete, DropUpdate
    <2> QED BY <1>2, <2>1
  <1>16. CASE Next
    BY <1>2, <1>3, <1>4, <1>6, <1>7, <1>8, <1>10, <1>11, <1>12, <1>13, <1>14, <1>15, <1>16
       DEF Next, BeginStart, BeginSend, BeginDelete, Provisioned, NotProvisioned,
           AbandonTurn, TurnRefused, ApplyReady, ReadyTimesOut, Disconnected,
           ChangeInstalled, AssignDevice, persisted
  <1> QED BY <1>2, <1>16 DEF vars, persisted

\* A call of the next state that has a run: the run exists.
CallIsNamed(c) ==
    (calls'[c] # Idle /\ calls'[c].at \in {"starting turn", "awaiting ready", "ready"})
        => /\ calls'[c].run \in Runs /\ runs'[calls'[c].run] # NoRun
           /\ calls'[c].op \in {"start", "command"}
           /\ calls'[c].at = "ready" => calls'[c].result # "none"

\* A call that begins, other than a command, is somewhere before the queue.
LEMMA CallBegins ==
    ASSUME TypeInv, NEW c \in Calls, NEW w \in Workers,
           \/ \E kind \in Kinds : BeginStart(c, w, kind)
           \/ BeginStop(c, w) \/ BeginDelete(c, w)
    PROVE  /\ calls'[c].at \in {"provisioning", "stopping processes", "disconnecting"}
           /\ \A d \in Calls : d # c => calls'[d] = calls[d]
  <1>0. calls \in CallMap
    BY DEF TypeInv, TypeOK, CallMap
  <1> DEFINE Begun == /\ calls'[c].at \in
                             {"provisioning", "stopping processes", "disconnecting"}
                     /\ \A d \in Calls : d # c => calls'[d] = calls[d]
  <1>1. ASSUME NEW kind \in Kinds, BeginStart(c, w, kind)
        PROVE  Begun
    <2> DEFINE x == Call("start", "provisioning", w, kind, NoRun)
    <2>1. x.at = "provisioning"
      BY DEF Call
    <2>2. calls' = [calls EXCEPT ![c] = x]
      BY <1>1 DEF BeginStart
    <2> HIDE DEF x
    <2>3. calls'[c] = x /\ \A d \in Calls : d # c => calls'[d] = calls[d]
      BY <1>0, <2>2 DEF CallMap
    <2> QED BY <2>1, <2>3
  <1>2. CASE BeginStop(c, w)
    <2>1. PICK kind, r : calls' = [calls EXCEPT ![c] =
                                      Call("stop", "stopping processes", w, kind, r)]
      BY <1>2 DEF BeginStop
    <2> DEFINE x == Call("stop", "stopping processes", w, kind, r)
    <2>2. x.at = "stopping processes"
      BY DEF Call
    <2>3. calls' = [calls EXCEPT ![c] = x]
      BY <2>1
    <2> HIDE DEF x
    <2>4. calls'[c] = x /\ \A d \in Calls : d # c => calls'[d] = calls[d]
      BY <1>0, <2>3 DEF CallMap
    <2> QED BY <2>2, <2>4
  <1>3. CASE BeginDelete(c, w)
    <2> DEFINE x == Call("delete", "disconnecting", w, "workflow", NoRun)
    <2>1. x.at = "disconnecting"
      BY DEF Call
    <2>2. calls' = [calls EXCEPT ![c] = x]
      BY <1>3 DEF BeginDelete
    <2> HIDE DEF x
    <2>3. calls'[c] = x /\ \A d \in Calls : d # c => calls'[d] = calls[d]
      BY <1>0, <2>2 DEF CallMap
    <2> QED BY <2>1, <2>3
  <1> QED BY <1>1, <1>2, <1>3

\* No step makes a call refer to a run that does not exist.
LEMMA NamedCalls ==
    ASSUME TypeInv, [Next]_vars
    PROVE  \A c \in Calls : CallIsNamed(c)
  <1>0. /\ calls \in CallMap
        /\ \A c \in Calls : calls[c] # Idle => calls[c] \in CallStates
    BY DEF TypeInv, TypeOK, CallMap
  <1>1. ASSUME NEW c \in Calls, calls'[c] = calls[c] \/ calls'[c] = Idle
        PROVE  CallIsNamed(c)
    BY <1>1, RowsStay DEF CallIsNamed, TypeInv, NamedRunsExist
  <1>2. CASE UNCHANGED calls
    BY <1>1, <1>2
  <1>3. ASSUME NEW c \in Calls, Return(c)
        PROVE  \A d \in Calls : CallIsNamed(d)
    BY <1>0, <1>1, <1>3, Returns
  <1>4. ASSUME NEW c \in Calls, calls[c] # Idle, Goes(c, "queued")
        PROVE  \A d \in Calls : CallIsNamed(d)
    <2>1. calls'[c].at = "queued"
      <3>1. calls[c] \in CallStates /\ calls'[c] = [calls[c] EXCEPT !.at = "queued"]
        BY <1>0, <1>4, GoesToQueue
      <3> QED BY <3>1 DEF CallStates
    <2>2. CallIsNamed(c)
      BY <2>1 DEF CallIsNamed
    <2> QED BY <1>0, <1>1, <1>4, <2>2, GoesToQueue
  <1>5. ASSUME NEW c \in Calls,
               calls'[c].at \in {"provisioning", "stopping processes", "disconnecting"},
               \A d \in Calls : d # c => calls'[d] = calls[d]
        PROVE  \A d \in Calls : CallIsNamed(d)
    BY <1>1, <1>5 DEF CallIsNamed
  <1>6. ASSUME NEW c \in Calls, NEW w \in Workers, BeginSend(c, w)
        PROVE  \A d \in Calls : CallIsNamed(d)
    <2>1. PICK r \in OpenRunsOf(w) :
              calls' = [calls EXCEPT ![c] =
                           Call("command", "starting turn", w, runs[r].kind, r)]
      BY <1>6 DEF BeginSend
    <2>2. r \in Runs /\ runs'[r] # NoRun
      BY <1>6, RowsStay DEF OpenRunsOf, OpenIn
    <2> DEFINE x == Call("command", "starting turn", w, runs[r].kind, r)
    <2>3. x.op = "command" /\ x.at = "starting turn" /\ x.run = r
      BY DEF Call
    <2> HIDE DEF x
    <2>4. \A d \in Calls : d # c => calls'[d] = calls[d]
      BY <1>0, <2>1 DEF CallMap
    <2>5. /\ calls'[c].op = "command" /\ calls'[c].at = "starting turn"
          /\ calls'[c].run = r
      <3>1. calls'[c] = x
        BY <1>0, <2>1 DEF CallMap, x
      <3> QED BY <2>3, <3>1
    <2>6. CallIsNamed(c)
      BY <2>2, <2>5 DEF CallIsNamed
    <2> QED BY <1>1, <2>4, <2>6
  <1>7. ASSUME NEW c \in Calls, NEW t \in Turns, TurnStarts(c, t)
        PROVE  \A d \in Calls : CallIsNamed(d)
    <2>1. CASE Return(c)
      BY <1>3, <2>1
    <2>2. CASE calls' = [calls EXCEPT ![c].at = "awaiting ready", ![c].turn = t]
      <3>1. calls[c] \in CallStates /\ calls[c].at = "starting turn" /\ calls[c] # Idle
        BY <1>0, <1>7 DEF TurnStarts
      <3>2. calls'[c] = [calls[c] EXCEPT !.at = "awaiting ready", !.turn = t]
            /\ \A d \in Calls : d # c => calls'[d] = calls[d]
        BY <1>0, <2>2 DEF CallMap
      <3>3. /\ calls'[c].run = calls[c].run /\ calls'[c].op = calls[c].op
            /\ calls'[c].at = "awaiting ready"
        BY <3>1, <3>2 DEF CallStates
      <3>4. CallIsNamed(c)
        BY <3>1, <3>3, RowsStay DEF CallIsNamed, TypeInv, NamedRunsExist
      <3> QED BY <1>1, <3>2, <3>4
    <2> QED BY <1>7, <2>1, <2>2 DEF TurnStarts
  <1>8. ASSUME NEW t, NEW result \in Results, WakeWaiters(t, result)
        PROVE  \A d \in Calls : CallIsNamed(d)
    <2>1. ASSUME NEW c \in Calls, calls[c] # Idle, calls[c].at = "awaiting ready",
                 calls'[c] = [calls[c] EXCEPT !.at = "ready", !.result = result]
          PROVE  CallIsNamed(c)
      <3>1. /\ calls'[c].run = calls[c].run /\ calls'[c].op = calls[c].op
            /\ calls'[c].result = result
        BY <1>0, <2>1 DEF CallStates
      <3>2. result # "none"
        BY ConstantsOK DEF ResultKinds
      <3> QED BY <2>1, <3>1, <3>2, RowsStay DEF CallIsNamed, TypeInv, NamedRunsExist
    <2> QED BY <1>0, <1>1, <1>8, <2>1, WakeWaitersCalls
  <1>9. CASE RunUpdate
    <2> DEFINE u == Head(updates)
    <2>1. /\ u \in UpdateStates
          /\ u.what \in {"start", "stop", "delete"} =>
                u.call \in Calls /\ calls[u.call] \in CallStates
      BY <1>9, HeadUpdate DEF RunUpdate
    <2>2. \/ ApplyStart(u) \/ UNCHANGED calls
          \/ u.what \in {"stop", "delete"} /\ Return(u.call)
          \/ calls' = [c \in Calls |-> IF c = u.call THEN Idle ELSE calls[c]]
      BY <1>9 DEF RunUpdate, ApplyResult, ApplyObserved, ApplyStop, ApplyDelete, DropUpdate
    <2> HIDE DEF u
    <2>3. CASE ApplyStart(u)
      <3>1. u.call \in Calls /\ calls[u.call] \in CallStates
        BY <2>1, <2>3 DEF ApplyStart
      <3>2. PICK r \in Runs, row \in RunRows :
                /\ runs' = [runs EXCEPT ![r] = row]
                /\ calls' = [calls EXCEPT ![u.call].at = "starting turn",
                                          ![u.call].run = r]
        BY <2>1, <2>3, <3>1, StartApplied
      <3>3. runs'[r] # NoRun
        BY <3>2, PlaceholdersAreNotValues DEF TypeInv, TypeOK
      <3>4. calls'[u.call] = [calls[u.call] EXCEPT !.at = "starting turn", !.run = r]
            /\ \A d \in Calls : d # u.call => calls'[d] = calls[d]
        BY <1>0, <3>1, <3>2 DEF CallMap
      <3>5. calls[u.call].op = "start"
        BY <1>9, <2>3, HeadUpdate DEF RunUpdate, ApplyStart, At, u
      <3>6. /\ calls'[u.call].at = "starting turn" /\ calls'[u.call].run = r
            /\ calls'[u.call].op = "start"
        BY <3>1, <3>4, <3>5 DEF CallStates
      <3>7. CallIsNamed(u.call)
        BY <3>2, <3>3, <3>6 DEF CallIsNamed
      <3> QED BY <1>1, <3>4, <3>7
    <2>4. CASE u.what \in {"stop", "delete"} /\ Return(u.call)
      BY <1>3, <2>1, <2>4
    <2>5. CASE calls' = [c \in Calls |-> IF c = u.call THEN Idle ELSE calls[c]]
      BY <1>1, <2>5
    <2> QED BY <1>2, <2>2, <2>3, <2>4, <2>5
  <1>10. CASE Restart
    BY <1>1, <1>10 DEF Restart
  <1>11. ASSUME NEW c \in Calls, NEW w \in Workers,
                \/ \E kind \in Kinds : BeginStart(c, w, kind)
                \/ BeginStop(c, w) \/ BeginDelete(c, w)
         PROVE  \A d \in Calls : CallIsNamed(d)
    BY <1>5, <1>11, CallBegins
  <1>12. ASSUME NEW c \in Calls,
                \/ Provisioned(c) \/ NotProvisioned(c) \/ AbandonTurn(c) \/ TurnRefused(c)
                \/ ApplyReady(c) \/ ReadyTimesOut(c) \/ ProcessesStopped(c)
                \/ Disconnected(c)
         PROVE  \A d \in Calls : CallIsNamed(d)
    BY <1>3, <1>4, <1>12
       DEF Provisioned, NotProvisioned, AbandonTurn, TurnRefused, ApplyReady,
           ReadyTimesOut, ProcessesStopped, Disconnected, At
  <1>13. ASSUME NEW t \in Turns,
                \/ \E result \in Results : Ready(t, result) \/ Exits(t, result)
                \/ Observed(t) \/ LostTurnExits(t)
         PROVE  \A d \in Calls : CallIsNamed(d)
    BY <1>2, <1>8, <1>13 DEF Ready, Exits, Observed, LostTurnExits
  <1>14. CASE Next
    BY <1>2, <1>6, <1>7, <1>9, <1>10, <1>11, <1>12, <1>13, <1>14
       DEF Next, ChangeInstalled, AssignDevice, RequestShutdown, CloseStore
  <1> QED BY <1>2, <1>14 DEF vars

----------------------------------------------------------------------------
(* The update queue. *)

\* What a turn, or a call on its behalf, puts into the queue.
IsReport(u) ==
    /\ u.what \in {"started", "commanded", "observed"}
    /\ u.call = Idle
    /\ u.run \in Runs /\ runs[u.run] # NoRun
    /\ u.what # "observed" => u.result # "none"

\* new is old followed by reports.
Grows(old, new) ==
    /\ new \in Seq(UpdateStates)
    /\ Len(new) >= Len(old)
    /\ \A i \in 1 .. Len(old) : new[i] = old[i]
    /\ \A i \in 1 .. Len(new) : i > Len(old) => IsReport(new[i])

\* A queue grows by appending reports.
LEMMA GrowsBy ==
    ASSUME NEW old \in Seq(UpdateStates), NEW s \in Seq(UpdateStates),
           \A j \in 1 .. Len(s) : IsReport(s[j])
    PROVE  Grows(old, old \o s)
  <1>1. /\ old \o s \in Seq(UpdateStates)
        /\ Len(old \o s) = Len(old) + Len(s)
        /\ \A i \in 1 .. Len(old) : (old \o s)[i] = old[i]
    OBVIOUS
  <1>2. ASSUME NEW i \in 1 .. Len(old \o s), i > Len(old)
        PROVE  IsReport((old \o s)[i])
    <2>1. i - Len(old) \in 1 .. Len(s) /\ (old \o s)[i] = s[i - Len(old)]
      BY <1>1, <1>2
    <2> QED BY <2>1
  <1> QED BY <1>1, <1>2 DEF Grows

\* Reports after reports are reports.
LEMMA GrowsTwice ==
    ASSUME NEW a \in Seq(UpdateStates), NEW b, NEW c, Grows(a, b), Grows(b, c)
    PROVE  Grows(a, c)
  <1>1. /\ b \in Seq(UpdateStates) /\ c \in Seq(UpdateStates)
        /\ Len(c) >= Len(a)
    BY DEF Grows
  <1>2. \A i \in 1 .. Len(a) : c[i] = a[i]
    BY <1>1 DEF Grows
  <1>3. ASSUME NEW i \in 1 .. Len(c), i > Len(a)
        PROVE  IsReport(c[i])
    BY <1>1, <1>3 DEF Grows
  <1> HIDE DEF Grows
  <1> QED BY <1>1, <1>2, <1>3 DEF Grows

\* An unchanged queue.
LEMMA GrowsNot ==
    ASSUME NEW a \in Seq(UpdateStates)
    PROVE  Grows(a, a)
  BY DEF Grows

\* What turns put into the queue are reports.
LEMMA TurnsReport ==
    ASSUME TypeInv, NEW t \in Turns, turns[t] # NoTurn, NEW result \in Results,
           NEW s \in {ReadyUpdates(t, result), FinalUpdates(t, result)}
    PROVE  s \in Seq(UpdateStates) /\ \A j \in 1 .. Len(s) : IsReport(s[j])
  <1>1. s \in Seq(UpdateStates)
    BY ReportsType DEF TypeInv, TypeOK, TurnMap
  <1>2. turns[t].run \in Runs /\ runs[turns[t].run] # NoRun /\ result # "none"
    BY ConstantsOK DEF TypeInv, TypeOK, TurnStates, NamedRunsExist, ResultKinds
  <1>3. ASSUME NEW fallback, NEW what \in {"started", "commanded"},
               NEW u, u = [StartedUpdate(t, result, fallback) EXCEPT !.what = what]
        PROVE  IsReport(u)
    BY <1>2, <1>3 DEF StartedUpdate, IsReport
  <1>4. ASSUME NEW fallback
        PROVE  IsReport(StartedUpdate(t, result, fallback))
    BY <1>2 DEF StartedUpdate, IsReport
  <1>5. \/ s = << >>
        \/ \E fallback : s = <<StartedUpdate(t, result, fallback)>>
        \/ \E fallback : s = <<[StartedUpdate(t, result, fallback) EXCEPT !.what = "commanded"]>>
    BY DEF ReadyUpdates, FinalUpdates
  <1>6. ASSUME NEW u, IsReport(u), s = <<u>>
        PROVE  \A j \in 1 .. Len(s) : IsReport(s[j])
    BY <1>6
  <1> QED BY <1>1, <1>3, <1>4, <1>5, <1>6

\* A call whose update is in the queue.
Queued(c) == calls[c] # Idle /\ calls[c].at = "queued"

\* The call is where it was, or neither was nor is in the queue.
StaysInQueue(c) == calls'[c] = calls[c] \/ (~Queued(c) /\ ~Queued(c)')

\* The ways a step can treat the queue: reports are appended, a call joins it with its
\* update, its head runs and may leave a report, or all is lost.
ReportsJoin == Grows(updates, updates') /\ \A c \in Calls : StaysInQueue(c)

CallJoins(c, u) ==
    /\ updates' = Append(updates, u)
    /\ u.call = c /\ u.what \in {"start", "stop", "delete"}
    /\ ~u.caught
    /\ u.what = "stop" => u.run = calls'[c].run
    /\ ~Queued(c)
    /\ calls'[c] # Idle /\ calls'[c].op = u.what /\ calls'[c].at = "queued"
    /\ \A d \in Calls : d # c => calls'[d] = calls[d]

HeadLeaves ==
    /\ updates # << >> /\ Grows(Tail(updates), updates')
    /\ \A c \in Calls : IF c = Head(updates).call THEN ~Queued(c)' ELSE calls'[c] = calls[c]

QueueLost == updates' = << >> /\ \A c \in Calls : calls'[c] = Idle

\* The steps of calls.
LEMMA CallsQueue ==
    ASSUME TypeInv, NEW c \in Calls,
           \/ Provisioned(c) \/ NotProvisioned(c)
           \/ \E t \in Turns : TurnStarts(c, t)
           \/ AbandonTurn(c) \/ TurnRefused(c)
           \/ ApplyReady(c) \/ ReadyTimesOut(c)
           \/ ProcessesStopped(c) \/ Disconnected(c)
    PROVE  ReportsJoin \/ \E u \in UpdateStates : CallJoins(c, u)
  <1>0. /\ calls \in CallMap /\ turns \in TurnMap /\ updates \in Seq(UpdateStates)
        /\ \A d \in Calls : calls[d] # Idle => calls[d] \in CallStates
    BY DEF TypeInv, TypeOK, CallMap, TurnMap
  <1>1. ASSUME ~Queued(c), Return(c)
        PROVE  \A d \in Calls : StaysInQueue(d)
    BY <1>0, <1>1, Returns DEF StaysInQueue, Queued
  <1>2. ASSUME ~Queued(c), Return(c), UNCHANGED updates
        PROVE  ReportsJoin
    BY <1>0, <1>1, <1>2, GrowsNot DEF ReportsJoin
  <1>3. ASSUME ~Queued(c), Return(c), NEW what \in {"started", "commanded"},
               NEW r \in Runs, runs[r] # NoRun,
               NEW result \in Results \cup {"failed"},
               Enqueue(what, Idle, r, result, "running")
        PROVE  ReportsJoin
    <2> DEFINE u == [what |-> what, call |-> Idle, run |-> r, result |-> result,
                     fallback |-> "running", caught |-> FALSE]
    <2>1. u \in UpdateStates
      BY DEF UpdateStates
    <2>2. IsReport(u)
      BY <1>3, ConstantsOK DEF IsReport, ResultKinds
    <2>3. updates' = Append(updates, u)
      BY <1>3 DEF Enqueue
    <2> HIDE DEF u
    <2>4. Grows(updates, updates')
      BY <1>0, <2>1, <2>2, <2>3 DEF Grows
    <2> QED BY <1>1, <1>3, <2>4 DEF ReportsJoin
  <1>4. ASSUME calls[c] # Idle, ~Queued(c),
               NEW what \in {"start", "stop", "delete"}, calls[c].op = what,
               NEW r \in Runs \cup {NoRun}, what = "stop" => r = calls[c].run,
               NEW fallback \in {"running", "paused"},
               Enqueue(what, c, r, "none", fallback), Goes(c, "queued")
        PROVE  \E u \in UpdateStates : CallJoins(c, u)
    <2> DEFINE u == [what |-> what, call |-> c, run |-> r, result |-> "none",
                     fallback |-> fallback, caught |-> FALSE]
    <2>1. /\ u \in UpdateStates /\ u.call = c /\ u.what = what /\ u.run = r
          /\ ~u.caught
      BY DEF UpdateStates
    <2>2. updates' = Append(updates, u)
      BY <1>4 DEF Enqueue
    <2> HIDE DEF u
    <2>3. calls'[c] = [calls[c] EXCEPT !.at = "queued"]
          /\ \A d \in Calls : d # c => calls'[d] = calls[d]
      BY <1>0, <1>4, GoesToQueue
    <2>4. calls[c] \in CallStates
      BY <1>0, <1>4
    <2>5. /\ calls'[c] \in CallStates /\ calls'[c].op = what /\ calls'[c].at = "queued"
          /\ calls'[c].run = calls[c].run
      BY <1>4, <2>3, <2>4 DEF CallStates
    <2>6. calls'[c] # Idle
      BY <2>5, PlaceholdersAreNotValues
    <2> QED BY <1>4, <2>1, <2>2, <2>3, <2>5, <2>6 DEF CallJoins
  <1>5. CASE Provisioned(c)
    BY <1>4, <1>5 DEF Provisioned, At, Queued
  <1>6. CASE NotProvisioned(c) \/ AbandonTurn(c) \/ ReadyTimesOut(c)
    <2>1. ~Queued(c) /\ Return(c) /\ UNCHANGED updates
      BY <1>6 DEF NotProvisioned, AbandonTurn, ReadyTimesOut, At, Queued
    <2> QED BY <1>2, <2>1
  <1>7. ASSUME NEW t \in Turns, TurnStarts(c, t)
        PROVE  ReportsJoin
    <2>1. ~Queued(c) /\ UNCHANGED updates
      BY <1>7 DEF TurnStarts, Queued
    <2>2. CASE Return(c)
      BY <1>2, <2>1, <2>2
    <2>3. CASE calls' = [calls EXCEPT ![c].at = "awaiting ready", ![c].turn = t]
      <3>1. calls[c] \in CallStates
        BY <1>0, <1>7 DEF TurnStarts
      <3>2. calls'[c] = [calls[c] EXCEPT !.at = "awaiting ready", !.turn = t]
            /\ \A d \in Calls : d # c => calls'[d] = calls[d]
        BY <1>0, <2>3 DEF CallMap
      <3>3. calls'[c].at = "awaiting ready"
        BY <3>1, <3>2 DEF CallStates
      <3>4. \A d \in Calls : StaysInQueue(d)
        BY <2>1, <3>2, <3>3 DEF StaysInQueue, Queued
      <3> QED BY <1>0, <2>1, <3>4, GrowsNot DEF ReportsJoin
    <2> QED BY <1>7, <2>2, <2>3 DEF TurnStarts
  <1>8. CASE TurnRefused(c)
    <2>1. /\ calls[c] # Idle /\ calls[c].at = "starting turn"
          /\ calls[c].run \in Runs /\ runs[calls[c].run] # NoRun
      BY <1>8 DEF TurnRefused, TypeInv, NamedRunsExist
    <2>2. ~Queued(c) /\ Return(c)
      BY <1>8 DEF TurnRefused, Queued
    <2>3. CASE store = "open"
      <3>1. \E what \in {"started", "commanded"} :
                Enqueue(what, Idle, calls[c].run, "failed", "running")
        BY <1>8, <2>3 DEF TurnRefused
      <3> QED BY <1>3, <2>1, <2>2, <3>1
    <2>4. CASE store # "open"
      BY <1>2, <1>8, <2>2, <2>4 DEF TurnRefused
    <2> QED BY <2>3, <2>4
  <1>9. CASE ApplyReady(c)
    <2>1. /\ calls[c] # Idle /\ calls[c].at = "ready"
          /\ calls[c].run \in Runs /\ runs[calls[c].run] # NoRun
          /\ calls[c].result # "none"
      BY <1>9 DEF ApplyReady, At, TypeInv, NamedRunsExist
    <2>2. ~Queued(c) /\ Return(c)
      BY <1>9 DEF ApplyReady, At, Queued
    <2>3. calls[c].result \in Results \cup {"failed"}
      BY <1>0, <2>1 DEF CallStates
    <2>4. CASE store = "open"
      <3>1. Enqueue("started", Idle, calls[c].run, calls[c].result, "running")
        BY <1>9, <2>4 DEF ApplyReady
      <3> QED BY <1>3, <2>1, <2>2, <2>3, <3>1
    <2>5. CASE store # "open"
      BY <1>2, <1>9, <2>2, <2>5 DEF ApplyReady
    <2> QED BY <2>4, <2>5
  <1>10. CASE ProcessesStopped(c)
    <2>1. calls[c] # Idle /\ ~Queued(c) /\ calls[c].op = "stop"
      BY <1>10 DEF ProcessesStopped, At, Queued
    <2>2. calls[c].run \in Runs \cup {NoRun}
      BY <1>0, <2>1 DEF CallStates
    <2> QED BY <1>2, <1>4, <1>10, <2>1, <2>2 DEF ProcessesStopped
  <1>11. CASE Disconnected(c)
    BY <1>2, <1>4, <1>11 DEF Disconnected, At, Queued
  <1> QED BY <1>5, <1>6, <1>7, <1>8, <1>9, <1>10, <1>11

\* The head of the queue runs, and its caller goes on.
LEMMA HeadRuns ==
    ASSUME TypeInv, RunUpdate
    PROVE  HeadLeaves
  <1> DEFINE u == Head(updates)
  <1>0. /\ calls \in CallMap /\ updates \in Seq(UpdateStates)
        /\ updates # << >>
        /\ updates' = Tail(updates) \/ updates' = Tail(updates) \o Rescued(u)
    BY DEF TypeInv, TypeOK, CallMap, RunUpdate
  <1>1. /\ u \in UpdateStates
        /\ u.what \in {"start", "stop", "delete"} =>
              u.call \in Calls /\ calls[u.call] \in CallStates
        /\ u.what \in {"started", "commanded", "observed"} => u.call = Idle
        /\ u.caught => /\ u.what \in {"started", "commanded", "observed"}
                       /\ u.run \in Runs /\ runs[u.run] # NoRun
    <2>1. 1 \in DOMAIN updates /\ u = updates[1]
      BY <1>0, HeadUpdate
    <2>2. u.what \in {"started", "commanded", "observed"} => u.call = Idle
      BY <2>1 DEF TypeInv, UpdatesHaveCallers
    <2>3. u.caught => /\ u.what \in {"started", "commanded", "observed"}
                       /\ u.run \in Runs /\ runs[u.run] # NoRun
      BY <2>1 DEF TypeInv, NamedRunsExist
    <2> QED BY <1>0, <2>2, <2>3, HeadUpdate
  <1>2. \/ ApplyStart(u)
        \/ u.what \in {"started", "commanded", "observed"} /\ UNCHANGED calls
        \/ u.what \in {"stop", "delete"} /\ Return(u.call)
        \/ calls' = [c \in Calls |-> IF c = u.call THEN Idle ELSE calls[c]]
    BY DEF RunUpdate, ApplyResult, ApplyObserved, ApplyStop, ApplyDelete, DropUpdate
  <1> HIDE DEF u
  <1>3. \A c \in Calls : IF c = u.call THEN ~Queued(c)' ELSE calls'[c] = calls[c]
    <2>1. CASE ApplyStart(u)
      <3>1. u.call \in Calls /\ calls[u.call] \in CallStates
        BY <1>1, <2>1 DEF ApplyStart
      <3>2. PICK r \in Runs :
                calls' = [calls EXCEPT ![u.call].at = "starting turn", ![u.call].run = r]
        BY <1>1, <2>1, <3>1, StartApplied
      <3>3. calls'[u.call] = [calls[u.call] EXCEPT !.at = "starting turn", !.run = r]
            /\ \A d \in Calls : d # u.call => calls'[d] = calls[d]
        BY <1>0, <3>1, <3>2 DEF CallMap
      <3>4. calls'[u.call].at = "starting turn"
        BY <3>1, <3>3 DEF CallStates
      <3> QED BY <3>3, <3>4 DEF Queued
    <2>2. CASE u.what \in {"started", "commanded", "observed"} /\ UNCHANGED calls
      BY <1>1, <2>2, PlaceholdersAreNotValues
    <2>3. CASE u.what \in {"stop", "delete"} /\ Return(u.call)
      BY <1>0, <1>1, <2>3, Returns DEF Queued
    <2>4. CASE calls' = [c \in Calls |-> IF c = u.call THEN Idle ELSE calls[c]]
      BY <2>4 DEF Queued
    <2> QED BY <1>2, <2>1, <2>2, <2>3, <2>4
  <1>4. Grows(Tail(updates), updates')
    <2>1. Tail(updates) \in Seq(UpdateStates)
      BY <1>0
    <2>2. \A j \in 1 .. Len(Rescued(u)) : IsReport(Rescued(u)[j])
      <3>1. CASE Rescued(u) = << >>
        BY <3>1
      <3>2. ASSUME NEW v \in UpdateStates, u.caught, Rescued(u) = <<v>>, v.what = u.what,
                   v.call = u.call, v.run = u.run, v.result = "failed"
            PROVE  \A j \in 1 .. Len(Rescued(u)) : IsReport(Rescued(u)[j])
        <4>1. IsReport(v)
          BY <1>1, <3>2 DEF IsReport
        <4> QED BY <3>2, <4>1
      <3> QED BY <1>1, <3>1, <3>2, RescuedType
    <2> QED BY <1>0, <1>1, <2>1, <2>2, GrowsBy, GrowsNot, RescuedType
  <1> QED BY <1>0, <1>3, <1>4 DEF HeadLeaves, u

\* What turns report joins the queue.
LEMMA TurnsQueue ==
    ASSUME TypeInv, NEW t \in Turns,
           \/ \E result \in Results : Ready(t, result) \/ Exits(t, result)
           \/ Observed(t) \/ LostTurnExits(t)
    PROVE  ReportsJoin
  <1>0. /\ calls \in CallMap /\ turns \in TurnMap /\ updates \in Seq(UpdateStates)
        /\ \A d \in Calls : calls[d] # Idle => calls[d] \in CallStates
    BY DEF TypeInv, TypeOK, CallMap, TurnMap
  <1>1. ASSUME NEW result \in Results, WakeWaiters(t, result)
        PROVE  \A c \in Calls : StaysInQueue(c)
    <2>1. ASSUME NEW c \in Calls, calls[c] # Idle, calls[c].at = "awaiting ready",
                 calls'[c] = [calls[c] EXCEPT !.at = "ready", !.result = result]
          PROVE  StaysInQueue(c)
      <3>1. calls[c] \in CallStates
        BY <1>0, <2>1
      <3>2. calls'[c].at = "ready"
        BY <2>1, <3>1 DEF CallStates
      <3> QED BY <2>1, <3>2 DEF StaysInQueue, Queued
    <2> QED BY <1>0, <1>1, <2>1, WakeWaitersCalls DEF StaysInQueue
  <1>2. UNCHANGED calls => \A c \in Calls : StaysInQueue(c)
    BY DEF StaysInQueue
  <1>3. ASSUME NEW result \in Results, Ready(t, result)
        PROVE  ReportsJoin
    <2>1. turns[t] # NoTurn /\ WakeWaiters(t, result)
      BY <1>3 DEF Ready
    <2>2. Grows(updates, updates')
      BY <1>0, <1>3, <2>1, TurnsReport, GrowsBy DEF Ready
    <2> QED BY <1>1, <2>1, <2>2 DEF ReportsJoin
  <1>4. ASSUME NEW result \in Results, Exits(t, result)
        PROVE  ReportsJoin
    <2>1. turns[t] # NoTurn
      BY <1>4 DEF Exits
    <2> DEFINE s == ReadyUpdates(t, result)
               f == FinalUpdates(t, result)
    <2>2. /\ s \in Seq(UpdateStates) /\ \A j \in 1 .. Len(s) : IsReport(s[j])
          /\ f \in Seq(UpdateStates) /\ \A j \in 1 .. Len(f) : IsReport(f[j])
      BY <2>1, TurnsReport
    <2>3. updates' = updates \o f \/ updates' = (updates \o s) \o f
      BY <1>4 DEF Exits
    <2> HIDE DEF s, f
    <2>4. Grows(updates, updates \o s) /\ updates \o s \in Seq(UpdateStates)
      BY <1>0, <2>2, GrowsBy
    <2>5. Grows(updates \o s, (updates \o s) \o f) /\ Grows(updates, updates \o f)
      BY <1>0, <2>2, <2>4, GrowsBy
    <2>6. Grows(updates, (updates \o s) \o f)
      BY <1>0, <2>4, <2>5, GrowsTwice
    <2>7. Grows(updates, updates')
      BY <2>3, <2>5, <2>6
    <2>8. \A c \in Calls : StaysInQueue(c)
      BY <1>1, <1>2, <1>4 DEF Exits
    <2> QED BY <2>7, <2>8 DEF ReportsJoin
  <1>5. CASE Observed(t)
    <2> DEFINE u == [what |-> "observed", call |-> Idle, run |-> turns[t].run,
                     result |-> "none", fallback |-> "running", caught |-> FALSE]
    <2>1. turns[t].run \in Runs /\ runs[turns[t].run] # NoRun
      BY <1>0, <1>5 DEF Observed, Tracked, TurnMap, TurnStates, TypeInv, NamedRunsExist
    <2>2. u \in UpdateStates /\ IsReport(u)
      BY <2>1 DEF UpdateStates, IsReport
    <2>3. updates' = Append(updates, u)
      BY <1>5 DEF Observed, Enqueue
    <2> HIDE DEF u
    <2>4. Grows(updates, updates')
      BY <1>0, <2>2, <2>3 DEF Grows
    <2> QED BY <1>2, <1>5, <2>4 DEF Observed, ReportsJoin
  <1>6. CASE LostTurnExits(t)
    BY <1>0, <1>2, <1>6, GrowsNot DEF LostTurnExits, ReportsJoin
  <1> QED BY <1>3, <1>4, <1>5, <1>6

\* A call that begins is not in the queue.
LEMMA BeginsOutside ==
    ASSUME TypeInv, NEW c \in Calls, NEW w \in Workers,
           \/ \E kind \in Kinds : BeginStart(c, w, kind)
           \/ BeginSend(c, w) \/ BeginStop(c, w) \/ BeginDelete(c, w)
    PROVE  ReportsJoin
  <1>0. calls \in CallMap /\ updates \in Seq(UpdateStates)
    BY DEF TypeInv, TypeOK, CallMap
  <1>1. calls[c] = Idle /\ UNCHANGED updates
    BY DEF BeginStart, BeginSend, BeginStop, BeginDelete
  <1>2. calls'[c].at # "queued" /\ \A d \in Calls : d # c => calls'[d] = calls[d]
    <2>1. CASE BeginSend(c, w)
      <3>1. PICK r \in OpenRunsOf(w) :
                calls' = [calls EXCEPT ![c] =
                             Call("command", "starting turn", w, runs[r].kind, r)]
        BY <2>1 DEF BeginSend
      <3> DEFINE x == Call("command", "starting turn", w, runs[r].kind, r)
      <3>2. x.at = "starting turn"
        BY DEF Call
      <3>3. calls' = [calls EXCEPT ![c] = x]
        BY <3>1
      <3> HIDE DEF x
      <3>4. calls'[c] = x /\ \A d \in Calls : d # c => calls'[d] = calls[d]
        BY <1>0, <3>3 DEF CallMap
      <3> QED BY <3>2, <3>4
    <2> QED BY <2>1, CallBegins
  <1>3. \A d \in Calls : StaysInQueue(d)
    BY <1>1, <1>2 DEF StaysInQueue, Queued
  <1> QED BY <1>0, <1>1, <1>3, GrowsNot DEF ReportsJoin

\* Every step treats the queue in one of these ways.
LEMMA QueueStep ==
    ASSUME TypeInv, [Next]_vars
    PROVE  \/ ReportsJoin \/ HeadLeaves \/ QueueLost
           \/ \E c \in Calls, u \in UpdateStates : CallJoins(c, u)
  <1>1. CASE UNCHANGED <<calls, updates>>
    BY <1>1, GrowsNot DEF ReportsJoin, StaysInQueue, TypeInv, TypeOK
  <1>2. CASE Restart
    BY <1>2 DEF Restart, QueueLost
  <1>3. CASE Next
    BY <1>1, <1>2, <1>3, CallsQueue, HeadRuns, TurnsQueue, BeginsOutside
       DEF Next, ChangeInstalled, AssignDevice, RequestShutdown, CloseStore
  <1> QED BY <1>1, <1>3 DEF vars

\* The queue after its head has left.
LEMMA QueueTail ==
    ASSUME NEW old \in Seq(UpdateStates), old # << >>, NEW new, new = Tail(old)
    PROVE  /\ new \in Seq(UpdateStates)
           /\ \A i \in DOMAIN new : i + 1 \in DOMAIN old /\ i + 1 # 1 /\ new[i] = old[i + 1]
           /\ \A i \in DOMAIN old : i # 1 => i - 1 \in DOMAIN new /\ new[i - 1] = old[i]
           /\ Head(old) = old[1] /\ 1 \in DOMAIN old
  OBVIOUS

\* The queue after a call has joined it.
LEMMA QueueJoined ==
    ASSUME NEW old \in Seq(UpdateStates), NEW u \in UpdateStates, NEW new,
           new = Append(old, u)
    PROVE  /\ new \in Seq(UpdateStates)
           /\ \A i \in DOMAIN new : \/ i \in DOMAIN old /\ new[i] = old[i]
                                    \/ i = Len(old) + 1 /\ new[i] = u
           /\ \A i \in DOMAIN old : i \in DOMAIN new /\ new[i] = old[i]
           /\ Len(old) + 1 \in DOMAIN new /\ new[Len(old) + 1] = u
           /\ Len(old) + 1 \notin DOMAIN old
  OBVIOUS

\* The queue after reports have joined it.
LEMMA QueueGrown ==
    ASSUME NEW old \in Seq(UpdateStates), NEW new, Grows(old, new)
    PROVE  /\ \A i \in DOMAIN new : \/ i \in DOMAIN old /\ new[i] = old[i]
                                    \/ IsReport(new[i])
           /\ \A i \in DOMAIN old : i \in DOMAIN new /\ new[i] = old[i]
  BY DEF Grows

\* The queue after its head has run, and may have left a report.
LEMMA QueueRuns ==
    ASSUME NEW old \in Seq(UpdateStates), old # << >>, NEW new, Grows(Tail(old), new)
    PROVE  /\ new \in Seq(UpdateStates)
           /\ \A i \in DOMAIN new :
                 \/ i + 1 \in DOMAIN old /\ i + 1 # 1 /\ new[i] = old[i + 1]
                 \/ IsReport(new[i])
           /\ \A i \in DOMAIN old : i # 1 => i - 1 \in DOMAIN new /\ new[i - 1] = old[i]
           /\ Head(old) = old[1] /\ 1 \in DOMAIN old
  <1> DEFINE rest == Tail(old)
  <1>1. /\ rest \in Seq(UpdateStates)
        /\ \A i \in DOMAIN rest : i + 1 \in DOMAIN old /\ i + 1 # 1 /\ rest[i] = old[i + 1]
        /\ \A i \in DOMAIN old : i # 1 => i - 1 \in DOMAIN rest /\ rest[i - 1] = old[i]
        /\ Head(old) = old[1] /\ 1 \in DOMAIN old
    BY QueueTail
  <1>2. new \in Seq(UpdateStates)
    BY DEF Grows
  <1> HIDE DEF rest
  <1>3. /\ \A i \in DOMAIN new : \/ i \in DOMAIN rest /\ new[i] = rest[i]
                                \/ IsReport(new[i])
        /\ \A i \in DOMAIN rest : i \in DOMAIN new /\ new[i] = rest[i]
    BY <1>1, QueueGrown DEF rest
  <1>4. ASSUME NEW i \in DOMAIN old, i # 1
        PROVE  i - 1 \in DOMAIN new /\ new[i - 1] = old[i]
    BY <1>1, <1>3, <1>4
  <1> QED BY <1>1, <1>2, <1>3, <1>4

\* Every update of the next state that reports on a run reports on one that exists.
LEMMA NamedUpdates ==
    ASSUME TypeInv, [Next]_vars
    PROVE  /\ \A i \in DOMAIN updates' :
                 updates'[i].what \in {"started", "commanded", "observed"}
                  => /\ updates'[i].run \in Runs /\ runs'[updates'[i].run] # NoRun
                     /\ updates'[i].what # "observed" => updates'[i].result # "none"
           /\ \A i \in DOMAIN updates' :
                 updates'[i].caught
                     => updates'[i].what \in {"started", "commanded", "observed"}
  <1> DEFINE Named(u) == /\ u.what \in {"started", "commanded", "observed"}
                               => /\ u.run \in Runs /\ runs'[u.run] # NoRun
                                  /\ u.what # "observed" => u.result # "none"
                         /\ u.caught => u.what \in {"started", "commanded", "observed"}
  <1>1. updates \in Seq(UpdateStates)
    BY DEF TypeInv, TypeOK
  <1>2. \A i \in DOMAIN updates : Named(updates[i])
    BY RowsStay DEF TypeInv, NamedRunsExist
  <1>3. ASSUME NEW u, IsReport(u)
        PROVE  Named(u)
    BY <1>3, RowsStay DEF IsReport
  <1>4. CASE ReportsJoin
    BY <1>1, <1>2, <1>3, <1>4, QueueGrown DEF ReportsJoin
  <1>5. CASE HeadLeaves
    BY <1>1, <1>2, <1>3, <1>5, QueueRuns DEF HeadLeaves
  <1>6. CASE QueueLost
    BY <1>6 DEF QueueLost
  <1>7. ASSUME NEW c \in Calls, NEW u \in UpdateStates, CallJoins(c, u)
        PROVE  \A i \in DOMAIN updates' : Named(updates'[i])
    <2>1. Named(u)
      BY <1>7 DEF CallJoins
    <2> QED BY <1>1, <1>2, <1>7, <2>1, QueueJoined DEF CallJoins
  <1> QED BY <1>4, <1>5, <1>6, <1>7, QueueStep

\* Every step keeps the named runs.
LEMMA NamedStep == TypeInv /\ [Next]_vars => NamedRunsExist'
  <1> SUFFICES ASSUME TypeInv, [Next]_vars
               PROVE  NamedRunsExist'
    OBVIOUS
  <1>1. ASSUME NEW t \in Turns, turns'[t] # NoTurn
        PROVE  runs'[turns'[t].run] # NoRun
    <2>1. CASE turns[t] # NoTurn /\ turns'[t].run = turns[t].run
      <3>1. turns[t].run \in Runs /\ runs[turns[t].run] # NoRun
        BY <2>1 DEF TypeInv, TypeOK, TurnStates, NamedRunsExist
      <3> QED BY <2>1, <3>1, RowsStay
    <2>2. ASSUME NEW c \in Calls, calls[c] # Idle, calls[c].at = "starting turn",
                 turns'[t].run = calls[c].run
          PROVE  runs'[turns'[t].run] # NoRun
      BY <2>2, RowsStay DEF TypeInv, NamedRunsExist
    <2> QED BY <1>1, <2>1, <2>2, TurnsContinue DEF TurnContinues
  <1> QED BY <1>1, NamedCalls, NamedUpdates DEF NamedRunsExist, CallIsNamed

\* Every step keeps the callers of the updates.
LEMMA CallersStep == TypeInv /\ [Next]_vars => UpdatesHaveCallers'
  <1> SUFFICES ASSUME TypeInv, [Next]_vars
               PROVE  UpdatesHaveCallers'
    OBVIOUS
  <1> DEFINE HasCaller(u) ==
                 IF u.what \in {"start", "stop", "delete"}
                 THEN /\ u.call \in Calls
                      /\ calls'[u.call] # Idle /\ calls'[u.call].op = u.what
                      /\ calls'[u.call].at = "queued"
                 ELSE u.call = Idle
             Alone(i, j) == (/\ updates'[i].call = updates'[j].call
                             /\ updates'[i].call # Idle) => i = j
             Served(c) == Queued(c)' => \E i \in DOMAIN updates' : updates'[i].call = c
  <1>0. /\ updates \in Seq(UpdateStates)
        /\ \A i \in DOMAIN updates : updates[i] \in UpdateStates
    BY DEF TypeInv, TypeOK
  <1>1. /\ \A i \in DOMAIN updates :
              IF updates[i].what \in {"start", "stop", "delete"}
              THEN /\ updates[i].call \in Calls /\ Queued(updates[i].call)
                   /\ calls[updates[i].call].op = updates[i].what
              ELSE updates[i].call = Idle
        /\ \A i, j \in DOMAIN updates :
              updates[i].call = updates[j].call /\ updates[i].call # Idle => i = j
        /\ \A c \in Calls : Queued(c) => \E i \in DOMAIN updates : updates[i].call = c
    BY DEF TypeInv, UpdatesHaveCallers, At, Queued
  <1>2. SUFFICES /\ \A i \in DOMAIN updates' : HasCaller(updates'[i])
                 /\ \A i, j \in DOMAIN updates' : Alone(i, j)
                 /\ \A c \in Calls : Served(c)
    BY DEF UpdatesHaveCallers, At, Queued
  <1>3. CASE ReportsJoin
    <2>1. /\ \A i \in DOMAIN updates' : \/ i \in DOMAIN updates /\ updates'[i] = updates[i]
                                        \/ IsReport(updates'[i])
          /\ \A i \in DOMAIN updates : i \in DOMAIN updates' /\ updates'[i] = updates[i]
      BY <1>0, <1>3, QueueGrown DEF ReportsJoin
    <2>2. \A c \in Calls : /\ Queued(c) => calls'[c] = calls[c]
                           /\ Queued(c)' => Queued(c)
      BY <1>3 DEF ReportsJoin, StaysInQueue, Queued
    <2>3. ASSUME NEW i \in DOMAIN updates
          PROVE  HasCaller(updates[i])
      BY <1>1, <2>2 DEF Queued
    <2>4. ASSUME NEW u, IsReport(u)
          PROVE  HasCaller(u)
      BY <2>4 DEF IsReport
    <2>5. \A i \in DOMAIN updates' : HasCaller(updates'[i])
      BY <2>1, <2>3, <2>4
    <2>6. \A i, j \in DOMAIN updates' : Alone(i, j)
      BY <1>1, <2>1 DEF IsReport
    <2>7. \A c \in Calls : Served(c)
      BY <1>1, <2>1, <2>2
    <2> QED BY <2>5, <2>6, <2>7
  <1>4. ASSUME NEW c \in Calls, NEW u \in UpdateStates, CallJoins(c, u)
        PROVE  /\ \A i \in DOMAIN updates' : HasCaller(updates'[i])
               /\ \A i, j \in DOMAIN updates' : Alone(i, j)
               /\ \A d \in Calls : Served(d)
    <2>1. /\ \A i \in DOMAIN updates' : \/ i \in DOMAIN updates /\ updates'[i] = updates[i]
                                        \/ i = Len(updates) + 1 /\ updates'[i] = u
          /\ \A i \in DOMAIN updates : i \in DOMAIN updates' /\ updates'[i] = updates[i]
          /\ Len(updates) + 1 \in DOMAIN updates' /\ updates'[Len(updates) + 1] = u
      BY <1>0, <1>4, QueueJoined DEF CallJoins
    <2>2. /\ u.call = c /\ u.what \in {"start", "stop", "delete"}
          /\ ~Queued(c)
          /\ calls'[c] # Idle /\ calls'[c].op = u.what /\ calls'[c].at = "queued"
          /\ \A d \in Calls : d # c => calls'[d] = calls[d]
      BY <1>4 DEF CallJoins
    <2>3. \A i \in DOMAIN updates : updates[i].call # c
      BY <1>1, <2>2, PlaceholdersAreNotValues
    <2>4. ASSUME NEW i \in DOMAIN updates
          PROVE  HasCaller(updates[i])
      BY <1>1, <2>2, <2>3 DEF Queued
    <2>5. HasCaller(u)
      BY <2>2
    <2>6. \A i \in DOMAIN updates' : HasCaller(updates'[i])
      BY <2>1, <2>4, <2>5
    <2>7. \A i, j \in DOMAIN updates' : Alone(i, j)
      BY <1>1, <2>1, <2>2, <2>3
    <2>8. \A d \in Calls : Served(d)
      BY <1>1, <2>1, <2>2 DEF Queued
    <2> QED BY <2>6, <2>7, <2>8
  <1>5. CASE HeadLeaves
    <2> DEFINE h == Head(updates)
    <2>1. /\ \A i \in DOMAIN updates' :
                \/ i + 1 \in DOMAIN updates /\ i + 1 # 1 /\ updates'[i] = updates[i + 1]
                \/ IsReport(updates'[i])
          /\ \A i \in DOMAIN updates :
                i # 1 => i - 1 \in DOMAIN updates' /\ updates'[i - 1] = updates[i]
          /\ h = updates[1] /\ 1 \in DOMAIN updates /\ updates' \in Seq(UpdateStates)
      BY <1>0, <1>5, QueueRuns DEF HeadLeaves
    <2>2. \A c \in Calls : IF c = h.call THEN ~Queued(c)' ELSE calls'[c] = calls[c]
      BY <1>5 DEF HeadLeaves
    <2> HIDE DEF h
    <2>3. ASSUME NEW i \in DOMAIN updates, i # 1
          PROVE  HasCaller(updates[i])
      <3>1. updates[i].call \in Calls => updates[i].call # h.call
        BY <1>1, <2>1, <2>3, PlaceholdersAreNotValues
      <3> QED BY <1>1, <2>2, <3>1 DEF Queued
    <2>4. \A i \in DOMAIN updates' : HasCaller(updates'[i])
      <3>1. ASSUME NEW u, IsReport(u)
            PROVE  HasCaller(u)
        BY <3>1 DEF IsReport
      <3> QED BY <2>1, <2>3, <3>1
    <2>5. ASSUME NEW i \in DOMAIN updates', NEW j \in DOMAIN updates', Alone(i, j) = FALSE
          PROVE  FALSE
      <3>1. i \in Nat /\ j \in Nat
        BY <2>1
      <3>2. ~IsReport(updates'[i]) /\ ~IsReport(updates'[j])
        BY <2>5 DEF IsReport
      <3>3. i + 1 = j + 1
        BY <1>1, <2>1, <2>5, <3>2
      <3> QED BY <2>5, <3>1, <3>3
    <2>6. ASSUME NEW c \in Calls, Queued(c)'
          PROVE  \E i \in DOMAIN updates' : updates'[i].call = c
      <3>1. c # h.call /\ Queued(c)
        BY <2>2, <2>6 DEF Queued
      <3>2. PICK i \in DOMAIN updates : updates[i].call = c
        BY <1>1, <3>1
      <3> QED BY <2>1, <3>1, <3>2
    <2> QED BY <2>4, <2>5, <2>6
  <1>6. CASE QueueLost
    BY <1>6 DEF QueueLost, Queued
  <1> QED BY <1>3, <1>4, <1>5, <1>6, QueueStep

----------------------------------------------------------------------------
(* Types and references. *)

\* The initial state has the types and no references.
LEMMA TypeInit == Init => TypeInv
  <1> SUFFICES ASSUME Init
               PROVE  TypeInv
    OBVIOUS
  <1>0. begun = 0 /\ faults = 0 /\ updates = << >>
    BY DEF Init
  <1>1. TypeOK
    <2>1. shown \in [Workers -> ShownStatuses]
      BY DEF Init, ShownStatuses
    <2>2. begun \in 0 .. MaxCalls /\ faults \in 0 .. MaxFaults
      BY <1>0, ConstantsOK
    <2>3. updates \in Seq(UpdateStates)
      BY <1>0
    <2>4. /\ workers \subseteq Workers /\ placed \subseteq workers
          /\ runs \in [Runs -> RunRows \cup {NoRun}]
          /\ turns \in [Turns -> TurnStates \cup {NoTurn}]
          /\ stopping \subseteq Runs
          /\ calls \in [Calls -> CallStates \cup {Idle}]
          /\ store \in {"open", "stopping", "closed"}
      BY DEF Init
    <2> QED BY <2>1, <2>2, <2>3, <2>4 DEF TypeOK
  <1>2. /\ \A r \in Runs : runs[r] = NoRun
        /\ \A t \in Turns : turns[t] = NoTurn
        /\ \A c \in Calls : calls[c] = Idle
    BY DEF Init
  <1>3. DOMAIN updates = {}
    BY <1>0
  <1>4. NamedRunsExist
    BY <1>2, <1>3 DEF NamedRunsExist
  <1>5. UpdatesHaveCallers
    BY <1>2, <1>3 DEF UpdatesHaveCallers
  <1> QED BY <1>1, <1>4, <1>5 DEF TypeInv

\* The types, the runs that are named and the callers of updates are kept together:
\* each needs the others.
LEMMA TypeInvCorrect == Spec => []TypeInv
  <1>1. TypeInv /\ [Next]_vars => TypeInv'
    BY TypeStep, NamedStep, CallersStep DEF TypeInv
  <1> QED BY TypeInit, <1>1, PTL DEF Spec

\* The state has its types (ProductState, activeHermesRuns, updateQueue).
THEOREM TypesCorrect == Spec => []TypeOK
  <1>1. TypeInv => TypeOK
    BY DEF TypeInv
  <1> QED BY <1>1, TypeInvCorrect, PTL

\* Every call that waits for updateState has one update in the queue, and no other
\* update has a caller.
THEOREM EveryCallerIsServed == Spec => []UpdatesHaveCallers
  <1>1. TypeInv => UpdatesHaveCallers
    BY DEF TypeInv
  <1> QED BY <1>1, TypeInvCorrect, PTL

----------------------------------------------------------------------------
(* Runs that are over, and one open run for each worker. *)

\* A run that is over is never touched again (applyHermesStartResult,
\* applyHermesCommandResult, stopWorker, repairStaleRuntimeState).
THEOREM ClosedRunsAreFinal == Spec => ClosedRunsStayClosed
  <1>1. TypeInv /\ [Next]_vars =>
            [\A r \in Runs : (runs[r] # NoRun /\ ~IsOpen(r)) => runs'[r] = runs[r]]_vars
    BY RowsStay DEF IsOpen
  <1> QED BY <1>1, TypeInvCorrect, PTL DEF Spec, ClosedRunsStayClosed

\* A run is created for a worker that has no open run, and no other row changes.
LEMMA RunsCreated ==
    ASSUME TypeInv, [Next]_vars, NEW r \in Runs, runs[r] = NoRun, runs'[r] # NoRun
    PROVE  /\ OpenRunsOf(runs'[r].worker) = {}
           /\ \A s \in Runs : s # r => runs'[s] = runs[s]
  <1>0. runs \in RunMap
    BY DEF TypeInv, TypeOK, RunMap
  <1>1. ASSUME NEW s \in Runs, NEW row, runs[s] # NoRun, runs' = [runs EXCEPT ![s] = row]
        PROVE  FALSE
    BY <1>0, <1>1 DEF RunMap
  <1>2. ASSUME NEW c \in Calls, NEW w \in Workers, BeginSend(c, w)
        PROVE  FALSE
    <2>1. PICK s \in OpenRunsOf(w) :
              runs' = [runs EXCEPT ![s] = [runs[s] EXCEPT !.status = "running"]]
      BY <1>2 DEF BeginSend
    <2> QED BY <1>1, <2>1 DEF OpenRunsOf, OpenIn
  <1>3. CASE RunUpdate
    <2> DEFINE u == Head(updates)
    <2>1. /\ u \in UpdateStates
          /\ u.what \in {"start", "stop", "delete"} =>
                u.call \in Calls /\ calls[u.call] \in CallStates
          /\ u.what \in {"started", "commanded", "observed"} =>
                /\ u.run \in Runs /\ runs[u.run] \in RunRows
                /\ u.what # "observed" => u.result # "none"
      BY <1>3, HeadUpdate DEF RunUpdate
    <2>2. \/ ApplyStart(u) \/ ApplyResult(u) \/ ApplyStop(u) \/ UNCHANGED runs
      BY <1>3 DEF RunUpdate, ApplyObserved, ApplyDelete, DropUpdate, persisted
    <2> HIDE DEF u
    <2>3. CASE ApplyStart(u)
      <3>1. u.call \in Calls /\ calls[u.call] \in CallStates
        BY <2>1, <2>3 DEF ApplyStart
      <3> DEFINE w   == calls[u.call].worker
                 row == [worker |-> w, kind |-> calls[u.call].kind,
                         status |-> "running", session |-> FALSE]
      <3>2. OpenRunsOf(w) = {} /\ \E s \in Runs : runs' = [runs EXCEPT ![s] = row]
        BY <2>1, <2>3, <3>1, StartApplied
      <3>3. row.worker = w
        OBVIOUS
      <3> HIDE DEF row, w
      <3>4. PICK s \in Runs : runs' = [runs EXCEPT ![s] = row]
        BY <3>2
      <3>5. runs'[s] = row /\ \A x \in Runs : x # s => runs'[x] = runs[x]
        BY <1>0, <3>4 DEF RunMap
      <3>6. r = s
        BY <3>5
      <3> QED BY <3>2, <3>3, <3>5, <3>6
    <2>4. CASE ApplyResult(u)
      <3>1. u.run \in Runs /\ runs[u.run] \in RunRows /\ u.result # "none"
        BY <2>1, <2>4 DEF ApplyResult
      <3>2. \/ UNCHANGED runs
            \/ \E row : TakesResults(u.run) /\ runs' = [runs EXCEPT ![u.run] = row]
        BY <2>1, <2>4, <3>1, ResultApplied
      <3> QED BY <1>1, <3>1, <3>2 DEF TakesResults
    <2>5. CASE ApplyStop(u)
      <3>1. u.call \in Calls /\ calls[u.call] \in CallStates
        BY <2>1, <2>5 DEF ApplyStop
      <3>2. \/ UNCHANGED runs
            \/ \E s \in OpenRunsOf(calls[u.call].worker) :
                  \E row : runs' = [runs EXCEPT ![s] = row]
        BY <2>1, <2>5, <3>1, StopApplied
      <3> QED BY <1>1, <3>2 DEF OpenRunsOf, OpenIn
    <2> QED BY <2>2, <2>3, <2>4, <2>5
  <1>4. CASE Restart
    BY <1>4 DEF Restart, Repaired
  <1>5. UNCHANGED runs => FALSE
    OBVIOUS
  <1>6. CASE Next
    BY <1>2, <1>3, <1>4, <1>5, <1>6
       DEF Next, BeginStart, BeginStop, BeginDelete, Provisioned, NotProvisioned, TurnStarts,
           AbandonTurn, TurnRefused, ApplyReady, ReadyTimesOut, ProcessesStopped,
           Disconnected, Ready, Exits, Observed, LostTurnExits, ChangeInstalled,
           AssignDevice, RequestShutdown, CloseStore, persisted
  <1> QED BY <1>5, <1>6 DEF vars, persisted

\* At most one open run, without counting.
AtMostOneOpenRun == \A w \in Workers : \A r, s \in OpenRunsOf(w) : r = s

\* Every step keeps at most one open run.
LEMMA OneOpenRunStep == TypeInv /\ AtMostOneOpenRun /\ [Next]_vars => AtMostOneOpenRun'
  <1> SUFFICES ASSUME TypeInv, AtMostOneOpenRun, [Next]_vars,
                      NEW w \in Workers, NEW r \in OpenRunsOf(w)', NEW s \in OpenRunsOf(w)',
                      r # s
               PROVE  FALSE
    BY DEF AtMostOneOpenRun
  <1>0. /\ r \in Runs /\ runs'[r] # NoRun /\ runs'[r].worker = w
        /\ runs'[r].status \in OpenStatuses
        /\ s \in Runs /\ runs'[s] # NoRun /\ runs'[s].worker = w
        /\ runs'[s].status \in OpenStatuses
    BY DEF OpenRunsOf, OpenIn
  <1>1. ASSUME NEW x \in Runs, runs[x] # NoRun, runs'[x].worker = w,
               runs'[x].status \in OpenStatuses
        PROVE  x \in OpenRunsOf(w)
    BY <1>1, RowsStay DEF OpenRunsOf, OpenIn
  <1>2. ASSUME NEW x \in Runs, NEW y \in Runs, x # y, runs[x] = NoRun, runs'[x] # NoRun,
               runs'[x].worker = w, runs'[y] # NoRun, runs'[y].worker = w,
               runs'[y].status \in OpenStatuses
        PROVE  FALSE
    <2>1. OpenRunsOf(w) = {} /\ runs'[y] = runs[y]
      BY <1>2, RunsCreated
    <2>2. y \in OpenRunsOf(w)
      BY <1>1, <1>2, <2>1
    <2> QED BY <2>1, <2>2
  <1> QED BY <1>0, <1>1, <1>2 DEF AtMostOneOpenRun

\* At most one open run, as an invariant of the specification.
LEMMA OneOpenRunInv == Spec => []AtMostOneOpenRun
  <1>1. Init => AtMostOneOpenRun
    BY DEF Init, AtMostOneOpenRun, OpenRunsOf, OpenIn
  <1> QED BY <1>1, OneOpenRunStep, TypeInvCorrect, PTL DEF Spec

\* requireNoActiveRun: a worker never has two open runs.
THEOREM WorkersHaveOneOpenRun == Spec => []OneOpenRun
  <1>1. AtMostOneOpenRun => OneOpenRun
    <2> SUFFICES ASSUME AtMostOneOpenRun, NEW w \in Workers
                 PROVE  Cardinality(OpenRunsOf(w)) <= 1
      BY DEF OneOpenRun
    <2>1. CASE OpenRunsOf(w) = {}
      BY <2>1, FS_EmptySet
    <2>2. ASSUME NEW r \in OpenRunsOf(w)
          PROVE  Cardinality(OpenRunsOf(w)) <= 1
      <3>1. OpenRunsOf(w) = {r}
        BY DEF AtMostOneOpenRun
      <3>2. Cardinality({r}) = 1
        BY FS_Singleton
      <3> QED BY <3>1, <3>2
    <2> QED BY <2>1, <2>2
  <1> QED BY <1>1, OneOpenRunInv, PTL

----------------------------------------------------------------------------
(* The shutdown. *)

\* A step from a store that is not open to one that is not writes nothing.
LEMMA NoWriteStep ==
    ASSUME [Next]_vars, store # "open", store' # "open"
    PROVE  UNCHANGED persisted
  <1>1. CASE UNCHANGED vars
    BY <1>1 DEF vars
  <1>2. CASE RunUpdate
    <2>1. DropUpdate(Head(updates))
      BY <1>2 DEF RunUpdate
    <2> QED BY <2>1 DEF DropUpdate
  <1>3. ~Restart
    BY DEF Restart
  <1>4. CASE Next
    BY <1>2, <1>3, <1>4
       DEF Next, BeginStart, BeginSend, BeginStop, BeginDelete, Provisioned, NotProvisioned,
           TurnStarts, AbandonTurn, TurnRefused, ApplyReady, ReadyTimesOut,
           ProcessesStopped, Disconnected, Ready, Exits, Observed, LostTurnExits,
           ChangeInstalled, AssignDevice, RequestShutdown, CloseStore
  <1> QED BY <1>1, <1>4

\* After the shutdown was requested nothing is written (shutdownRequested is looked at
\* by every update and by every write without a queue).
THEOREM ShutdownWritesNothing == Spec => NoWriteAfterShutdown
  <1>1. [Next]_vars => [(store # "open" /\ store' # "open") => UNCHANGED persisted]_vars
    BY NoWriteStep
  <1> QED BY <1>1, PTL DEF Spec, NoWriteAfterShutdown

\* A dropped handle was told to stop, and none is tracked once a shutdown was requested.
HandlesAreTold ==
    \A t \in Turns : (turns[t] # NoTurn /\ turns[t].alive) =>
        /\ turns[t].handle = "dropped" => turns[t].asked
        /\ store # "open" => turns[t].handle # "tracked"

\* What a step can do to the process and the handle of turn t.
Fate(t) ==
    (turns'[t] # NoTurn /\ turns'[t].alive) =>
        \/ /\ turns[t] # NoTurn /\ turns[t].alive
           /\ turns'[t].handle = turns[t].handle
           /\ turns[t].asked => turns'[t].asked
        \/ turns'[t].handle = "dropped" /\ turns'[t].asked
        \/ turns'[t].handle = "lost"
        \/ turns'[t].handle = "tracked" /\ store = "open"

\* Every step treats every turn in one of these ways.
LEMMA Fates ==
    ASSUME TypeInv, [Next]_vars
    PROVE  \A t \in Turns : Fate(t)
  <1>0. /\ turns \in TurnMap
        /\ \A t \in Turns : turns[t] # NoTurn => turns[t] \in TurnStates
    BY DEF TypeInv, TypeOK, TurnMap
  <1>1. ASSUME NEW t \in Turns, turns'[t] = turns[t]
        PROVE  Fate(t)
    BY <1>1 DEF Fate
  <1>2. ASSUME NEW t \in Turns, turns[t] # NoTurn, Told(turns[t], turns'[t])
        PROVE  Fate(t)
    BY <1>2 DEF Fate, Told
  <1>3. ASSUME NEW w, CleanUp(w)
        PROVE  \A t \in Turns : Fate(t)
    BY <1>0, <1>1, <1>2, <1>3, CleanUpTurns
  <1>4. ASSUME NEW c \in Calls, NEW t \in Turns, TurnStarts(c, t)
        PROVE  \A s \in Turns : Fate(s)
    <2>1. \A late \in BOOLEAN :
              /\ NewTurn(c, late) \in TurnStates
              /\ NewTurn(c, late).handle = IF late THEN "dropped" ELSE "tracked"
              /\ NewTurn(c, late).asked = late
      BY <1>4, NewTurnType DEF TurnStarts, TypeInv, TypeOK, CallMap, NamedRunsExist, NewTurn
    <2>2. \A late \in BOOLEAN :
            LET ts == [turns EXCEPT ![t] = NewTurn(c, late)] IN
            /\ ts \in TurnMap
            /\ ts[t] = NewTurn(c, late)
            /\ \A s \in Turns : s # t => ts[s] = turns[s]
      BY <1>0, <2>1 DEF TurnMap
    <2>3. CASE store = "open"
      <3>1. turns' = [turns EXCEPT ![t] = NewTurn(c, FALSE)]
        BY <1>4, <2>3 DEF TurnStarts
      <3>2. turns'[t].handle = "tracked" /\ \A s \in Turns : s # t => turns'[s] = turns[s]
        BY <2>1, <2>2, <3>1
      <3>3. Fate(t)
        BY <2>3, <3>2 DEF Fate
      <3> QED BY <1>1, <3>2, <3>3
    <2>4. CASE store # "open"
      <3> DEFINE ts == [turns EXCEPT ![t] = NewTurn(c, TRUE)]
      <3>1. turns' \in Signalled(ts, calls[c].worker)
        BY <1>4, <2>4 DEF TurnStarts
      <3>2. /\ ts \in TurnMap
            /\ ts[t] = NewTurn(c, TRUE)
            /\ \A s \in Turns : s # t => ts[s] = turns[s]
        BY <2>2
      <3> HIDE DEF ts
      <3>3. \A s \in Turns : turns'[s] = ts[s] \/ (ts[s] # NoTurn /\ Told(ts[s], turns'[s]))
        BY <3>1, <3>2, SignalledTurns
      <3>4. ASSUME NEW s \in Turns, s # t
            PROVE  Fate(s)
        BY <1>1, <1>2, <3>2, <3>3, <3>4
      <3>5. ts[t].handle = "dropped" /\ ts[t].asked
        BY <2>1, <3>2
      <3>6. Fate(t)
        BY <3>3, <3>5 DEF Fate, Told
      <3> QED BY <3>4, <3>6
    <2> QED BY <2>3, <2>4
  <1>5. ASSUME NEW t \in Turns, turns[t] # NoTurn,
               \/ turns' = [turns EXCEPT ![t].ready = TRUE]
               \/ turns' = [turns EXCEPT ![t].observed = TRUE]
               \/ \E result : turns' = [turns EXCEPT ![t] = Ended(@, result)]
        PROVE  \A s \in Turns : Fate(s)
    <2>1. \A s \in Turns : s # t => turns'[s] = turns[s]
      BY <1>0, <1>5 DEF TurnMap
    <2>2. turns[t] \in TurnStates
      BY <1>0, <1>5
    <2>3. \/ turns'[t] = [turns[t] EXCEPT !.ready = TRUE]
          \/ turns'[t] = [turns[t] EXCEPT !.observed = TRUE]
          \/ \E result : turns'[t] = Ended(turns[t], result)
      BY <1>0, <1>5 DEF TurnMap
    <2>4. Fate(t)
      <3>1. CASE turns'[t] = [turns[t] EXCEPT !.ready = TRUE]
        BY <1>5, <2>2, <3>1 DEF Fate, TurnStates
      <3>2. CASE turns'[t] = [turns[t] EXCEPT !.observed = TRUE]
        BY <1>5, <2>2, <3>2 DEF Fate, TurnStates
      <3>3. CASE \E result : turns'[t] = Ended(turns[t], result)
        BY <2>2, <3>3 DEF Fate, TurnStates, Ended
      <3> QED BY <2>3, <3>1, <3>2, <3>3
    <2> QED BY <1>1, <2>1, <2>4
  <1>6. ASSUME NEW t \in Turns,
               \/ \E result \in Results : Ready(t, result) \/ Exits(t, result)
               \/ Observed(t) \/ LostTurnExits(t)
        PROVE  \A s \in Turns : Fate(s)
    BY <1>5, <1>6 DEF Ready, Exits, Observed, LostTurnExits, Tracked
  <1>7. ASSUME NEW S, \A t \in S : t \in Turns /\ turns[t] # NoTurn, StopHandles(S)
        PROVE  \A t \in Turns : Fate(t)
    BY <1>0, <1>1, <1>7, StopHandlesTurns DEF Fate
  <1>8. ASSUME UNCHANGED turns
        PROVE  \A t \in Turns : Fate(t)
    BY <1>1, <1>8
  <1>9. ASSUME NEW c \in Calls, NEW w \in Workers, BeginStop(c, w)
         PROVE  \A t \in Turns : Fate(t)
    <2>1. \A r : \A t \in {x \in TurnsOf(r) : Tracked(x)} : t \in Turns /\ turns[t] # NoTurn
      BY DEF TurnsOf
    <2> QED BY <1>7, <1>8, <1>9, <2>1 DEF BeginStop
  <1>10. ASSUME NEW c \in Calls, ProcessesStopped(c)
         PROVE  \A t \in Turns : Fate(t)
    <2>1. turns' \in Signalled(turns, calls[c].worker)
      BY <1>10 DEF ProcessesStopped
    <2>2. \A t \in Turns : turns'[t] = turns[t] \/ (turns[t] # NoTurn /\ Told(turns[t], turns'[t]))
      BY <1>0, <2>1, SignalledTurns
    <2> QED BY <1>1, <1>2, <2>2
  <1>11. CASE RequestShutdown
    <2>1. \A t \in {x \in Turns : Tracked(x)} : t \in Turns /\ turns[t] # NoTurn
      BY DEF Tracked
    <2> QED BY <1>7, <1>11, <2>1 DEF RequestShutdown
  <1>12. CASE CloseStore
    <2>1. \A t \in Turns : \/ turns'[t] = turns[t]
                           \/ /\ turns[t] # NoTurn
                              /\ turns'[t] = [turns[t] EXCEPT !.asked = TRUE]
      BY <1>12 DEF CloseStore
    <2> QED BY <1>0, <1>1, <1>2, <2>1, ToldFields
  <1>13. CASE Restart
    <2>1. \A t \in Turns : \/ turns'[t] = turns[t]
                           \/ /\ turns[t] # NoTurn
                              /\ turns'[t] = [turns[t] EXCEPT !.handle = "lost"]
      BY <1>13 DEF Restart
    <2>2. ASSUME NEW turn \in TurnStates, NEW new, new = [turn EXCEPT !.handle = "lost"]
          PROVE  new.handle = "lost"
      BY <2>2 DEF TurnStates
    <2> QED BY <1>0, <1>1, <2>1, <2>2 DEF Fate
  <1>14. CASE RunUpdate
    <2>1. UNCHANGED turns
      BY <1>14 DEF RunUpdate, ApplyStart, CreateRun, ApplyResult, ApplyObserved, ApplyStop,
                   ApplyDelete, DropUpdate
    <2> QED BY <1>8, <2>1
  <1>15. CASE Next
    BY <1>3, <1>4, <1>6, <1>8, <1>9, <1>10, <1>11, <1>12, <1>13, <1>14, <1>15
       DEF Next, BeginStart, BeginSend, BeginDelete, Provisioned, NotProvisioned,
           AbandonTurn, TurnRefused, ApplyReady, ReadyTimesOut, Disconnected,
           ChangeInstalled, AssignDevice, persisted
  <1> QED BY <1>8, <1>15 DEF vars

\* Only the shutdown takes a store that is open to one that is not.
LEMMA OnlyShutdownStops ==
    ASSUME [Next]_vars, store = "open", store' # "open"
    PROVE  RequestShutdown
  <1>1. ~RunUpdate
    BY DEF RunUpdate, ApplyStart, CreateRun, ApplyResult, ApplyObserved, ApplyStop,
           ApplyDelete, DropUpdate
  <1> QED BY <1>1 DEF Next, vars, BeginStart, BeginSend, BeginStop, BeginDelete, Provisioned,
           NotProvisioned, TurnStarts, AbandonTurn, TurnRefused, ApplyReady, ReadyTimesOut,
           ProcessesStopped, Disconnected, Ready, Exits, Observed, LostTurnExits,
           ChangeInstalled, AssignDevice, CloseStore, Restart

\* Every step keeps what handles were told.
LEMMA HandlesStep == TypeInv /\ HandlesAreTold /\ [Next]_vars => HandlesAreTold'
  <1> SUFFICES ASSUME TypeInv, HandlesAreTold, [Next]_vars,
                      NEW t \in Turns, turns'[t] # NoTurn, turns'[t].alive
               PROVE  /\ turns'[t].handle = "dropped" => turns'[t].asked
                      /\ store' # "open" => turns'[t].handle # "tracked"
    BY DEF HandlesAreTold
  <1>1. turns \in TurnMap
    BY DEF TypeInv, TypeOK, TurnMap
  <1>2. Fate(t)
    BY Fates
  <1>3. turns'[t].handle = "dropped" => turns'[t].asked
    BY <1>2 DEF Fate, HandlesAreTold
  <1>4. CASE store' # "open" /\ store # "open"
    BY <1>2, <1>3, <1>4 DEF Fate, HandlesAreTold
  <1>5. CASE store' # "open" /\ store = "open"
    <2> DEFINE S == {x \in Turns : Tracked(x)}
    <2>1. StopHandles(S)
      BY <1>5, OnlyShutdownStops DEF RequestShutdown
    <2>2. \A x \in S : x \in Turns /\ turns[x] # NoTurn
      BY DEF Tracked
    <2>3. t \in S => turns'[t].handle = "dropped"
      BY <1>1, <2>1, <2>2, StopHandlesTurns
    <2>4. t \notin S => turns'[t] = turns[t]
      BY <1>1, <2>1, <2>2, StopHandlesTurns
    <2>5. t \notin S => ~Tracked(t)
      OBVIOUS
    <2> HIDE DEF S
    <2>6. turns'[t].handle # "tracked"
      BY <2>3, <2>4, <2>5 DEF Tracked
    <2> QED BY <1>3, <2>6
  <1> QED BY <1>3, <1>4, <1>5

\* Once the database is closed every turn this process started was told to stop
\* (stopActiveHermesHandles, rejectLateHermesHandle).
THEOREM ShutdownReachesTurns == Spec => []ShutdownStopsTurns
  <1>1. Init => HandlesAreTold
    BY DEF Init, HandlesAreTold
  <1>2. TypeInv /\ HandlesAreTold => ShutdownStopsTurns
    <2>1. \A t \in Turns : turns[t] # NoTurn => turns[t] \in TurnStates \/ ~TypeInv
      BY DEF TypeInv, TypeOK
    <2>2. TypeInv /\ HandlesAreTold =>
              \A t \in Turns : turns[t] # NoTurn =>
                  turns[t].handle \in {"tracked", "dropped", "lost"}
      BY <2>1 DEF TurnStates
    <2> QED BY <2>2 DEF HandlesAreTold, ShutdownStopsTurns
  <1> QED BY <1>1, <1>2, HandlesStep, TypeInvCorrect, PTL DEF Spec

----------------------------------------------------------------------------
(* What the rows show. *)

BusyStatuses == {"Working", "Available", "Waiting for user", "Blocked"}

\* A write shows what the runs say if it leaves no worker without an open run at work.
LEMMA ShowMatches ==
    ASSUME workers' \subseteq Workers, NEW statuses, Show(statuses),
           \A w \in workers' : OpenIn(runs', w) = {} => statuses[w] \notin BusyStatuses
    PROVE  ShownMatchesRuns'
  <1> SUFFICES ASSUME NEW w \in workers'
               PROVE  IF OpenIn(runs', w) # {}
                      THEN \E r \in OpenIn(runs', w) :
                              shown'[w] = ShownFor(runs'[r].status, runs'[r].kind)
                      ELSE shown'[w] \notin BusyStatuses
    BY DEF ShownMatchesRuns, OpenRunsOf, BusyStatuses
  <1>1. w \in Workers /\ shown'[w] = RowShows(w, statuses[w], runs', placed')
    BY DEF Show
  <1>2. CASE OpenIn(runs', w) # {}
    <2> DEFINE r == CHOOSE r \in OpenIn(runs', w) : TRUE
    <2>1. r \in OpenIn(runs', w)
      BY <1>2
    <2>2. shown'[w] = ShownFor(runs'[r].status, runs'[r].kind)
      BY <1>1, <1>2 DEF RowShows
    <2> HIDE DEF r
    <2> QED BY <1>2, <2>1, <2>2
  <1>3. CASE OpenIn(runs', w) = {}
    <2>1. shown'[w] \in {"No active task", statuses[w]}
      BY <1>1, <1>3 DEF RowShows
    <2> QED BY <1>3, <2>1 DEF BusyStatuses
  <1> QED BY <1>2, <1>3

\* A row of a worker whose run is over.
LEMMA ShownForOver ==
    ASSUME NEW status \in RunStatuses \ OpenStatuses, NEW kind
    PROVE  ShownFor(status, kind) \notin BusyStatuses
  BY DEF ShownFor, RunStatuses, OpenStatuses, BusyStatuses

\* The updates of the queue show what the runs say.
LEMMA UpdateShows ==
    ASSUME TypeInv, ShownMatchesRuns, RunUpdate, TypeOK'
    PROVE  ShownMatchesRuns'
  <1> DEFINE u == Head(updates)
             Calm(statuses) == \A v \in workers' :
                 OpenIn(runs', v) = {} => statuses[v] \notin BusyStatuses
  <1>0. /\ runs \in RunMap /\ shown \in [Workers -> ShownStatuses]
        /\ workers \subseteq Workers /\ workers' \subseteq Workers
    BY DEF TypeInv, TypeOK, RunMap
  <1>1. /\ u \in UpdateStates
        /\ u.what \in {"start", "stop", "delete"} =>
              u.call \in Calls /\ calls[u.call] \in CallStates
        /\ u.what \in {"started", "commanded", "observed"} =>
              /\ u.run \in Runs /\ runs[u.run] \in RunRows
              /\ u.what # "observed" => u.result # "none"
    BY HeadUpdate DEF RunUpdate
  <1>2. \A v \in workers : OpenRunsOf(v) = {} => shown[v] \notin BusyStatuses
    BY DEF ShownMatchesRuns, BusyStatuses
  <1>3. \/ ApplyStart(u) \/ ApplyResult(u) \/ ApplyObserved(u) \/ ApplyStop(u)
        \/ ApplyDelete(u) \/ UNCHANGED persisted
    BY DEF RunUpdate, DropUpdate
  <1> HIDE DEF u
  <1>4. CASE UNCHANGED persisted
    BY <1>4 DEF persisted, ShownMatchesRuns, OpenRunsOf, OpenIn
  <1>5. ASSUME workers' \subseteq workers, UNCHANGED runs, Show(shown)
        PROVE  ShownMatchesRuns'
    <2>1. Calm(shown)
      BY <1>2, <1>5 DEF OpenRunsOf
    <2> QED BY <1>0, <1>5, <2>1, ShowMatches
  <1>6. CASE ApplyStart(u)
    <2> DEFINE w   == calls[u.call].worker
               row == [worker |-> w, kind |-> calls[u.call].kind,
                       status |-> "running", session |-> FALSE]
               new == [shown EXCEPT ![w] = "Working"]
    <2>1. u.call \in Calls /\ calls[u.call] \in CallStates
      BY <1>1, <1>6 DEF ApplyStart
    <2>2. \E r \in Runs : /\ w \in workers /\ runs[r] = NoRun /\ row \in RunRows
                          /\ runs' = [runs EXCEPT ![r] = row]
                          /\ Show(new) /\ UNCHANGED workers
      BY <1>1, <1>6, <2>1, StartApplied
    <2>3. row.status \in OpenStatuses /\ row.worker = w
      BY DEF OpenStatuses
    <2>4. \A v \in Workers : v # w => new[v] = shown[v]
      BY <1>0
    <2> HIDE DEF row, w, new
    <2>5. PICK r \in Runs : /\ runs[r] = NoRun /\ row \in RunRows
                            /\ runs' = [runs EXCEPT ![r] = row]
      BY <2>2
    <2>6. /\ OpenIn(runs', w) # {}
          /\ \A v : OpenRunsOf(v) \subseteq OpenIn(runs', v)
      <3>1. runs'[r] = row /\ \A s \in Runs : s # r => runs'[s] = runs[s]
        BY <1>0, <2>5 DEF RunMap
      <3>2. runs'[r] # NoRun
        BY <2>5, <3>1, PlaceholdersAreNotValues
      <3>3. r \in OpenIn(runs', w)
        BY <2>3, <3>1, <3>2 DEF OpenIn
      <3> QED BY <2>5, <3>1, <3>3 DEF OpenIn, OpenRunsOf
    <2>7. Calm(new)
      BY <1>0, <1>2, <2>2, <2>4, <2>6
    <2> QED BY <1>0, <2>2, <2>7, ShowMatches
  <1>7. CASE ApplyResult(u)
    <2>1. u.run \in Runs /\ runs[u.run] \in RunRows /\ u.result # "none" /\ UNCHANGED workers
      BY <1>1, <1>7 DEF ApplyResult
    <2>2. CASE UNCHANGED runs /\ Show(shown)
      BY <1>5, <2>1, <2>2
    <2>3. ASSUME NEW status \in RunStatuses, NEW session \in BOOLEAN,
                 runs' = [runs EXCEPT ![u.run] =
                       [runs[u.run] EXCEPT !.status = status, !.session = session]],
                 Show([shown EXCEPT ![runs[u.run].worker] =
                             ShownFor(status, runs[u.run].kind)])
          PROVE  ShownMatchesRuns'
      <3> DEFINE w   == runs[u.run].worker
                 row == [runs[u.run] EXCEPT !.status = status, !.session = session]
                 new == [shown EXCEPT ![w] = ShownFor(status, runs[u.run].kind)]
      <3>1. row \in RunRows /\ row.status = status /\ row.worker = w /\ w \in Workers
        BY <2>1 DEF RunRows
      <3>2. /\ new[w] = ShownFor(status, runs[u.run].kind)
            /\ \A v \in Workers : v # w => new[v] = shown[v]
        BY <1>0, <3>1
      <3>3. runs' = [runs EXCEPT ![u.run] = row] /\ Show(new)
        BY <2>3
      <3> HIDE DEF row, new
      <3>4. /\ status \in OpenStatuses => OpenIn(runs', w) # {}
            /\ \A v : v # w => OpenRunsOf(v) \subseteq OpenIn(runs', v)
        <4>1. runs'[u.run] = row /\ \A s \in Runs : s # u.run => runs'[s] = runs[s]
          BY <1>0, <2>1, <3>3 DEF RunMap
        <4>2. runs'[u.run] # NoRun
          BY <3>1, <4>1, PlaceholdersAreNotValues
        <4>3. status \in OpenStatuses => u.run \in OpenIn(runs', w)
          BY <2>1, <3>1, <4>1, <4>2 DEF OpenIn
        <4> QED BY <4>1, <4>3 DEF OpenIn, OpenRunsOf
      <3>5. OpenIn(runs', w) = {} => new[w] \notin BusyStatuses
        BY <3>2, <3>4, ShownForOver
      <3>6. Calm(new)
        BY <1>0, <1>2, <2>1, <3>2, <3>4, <3>5
      <3> QED BY <1>0, <3>3, <3>6, ShowMatches
    <2> QED BY <1>1, <1>7, <2>1, <2>2, <2>3, ResultApplied
  <1>8. CASE ApplyObserved(u)
    <2>1. u.run \in Runs /\ runs[u.run] \in RunRows /\ UNCHANGED <<runs, workers>>
      BY <1>1, <1>8 DEF ApplyObserved
    <2>2. CASE runs[u.run].status # "running"
      BY <1>5, <1>8, <2>1, <2>2 DEF ApplyObserved
    <2>3. CASE runs[u.run].status = "running"
      <3> DEFINE w == runs[u.run].worker
                 new == [shown EXCEPT ![w] = "Working"]
      <3>1. Show(new)
        BY <1>8, <2>3 DEF ApplyObserved
      <3>2. u.run \in OpenRunsOf(w)
        BY <2>1, <2>3, PlaceholdersAreNotValues DEF OpenRunsOf, OpenIn, OpenStatuses
      <3>3. \A v \in Workers : v # w => new[v] = shown[v]
        BY <1>0
      <3> HIDE DEF new
      <3>4. Calm(new)
        BY <1>0, <1>2, <2>1, <3>2, <3>3 DEF OpenRunsOf
      <3> QED BY <1>0, <3>1, <3>4, ShowMatches
    <2> QED BY <2>2, <2>3
  <1>9. CASE ApplyStop(u)
    <2>1. u.call \in Calls /\ calls[u.call] \in CallStates
      BY <1>1, <1>9 DEF ApplyStop
    <2> DEFINE w == calls[u.call].worker
               new == [shown EXCEPT ![w] = "No active task"]
    <2>2. /\ UNCHANGED workers /\ w \in Workers /\ Show(new)
          /\ \/ UNCHANGED runs
             \/ \E r \in OpenRunsOf(w) :
                   runs' = [runs EXCEPT ![r] = [runs[r] EXCEPT !.status = "paused"]]
      BY <1>1, <1>9, <2>1, StopApplied
    <2>3. new[w] \notin BusyStatuses /\ \A v \in Workers : v # w => new[v] = shown[v]
      BY <1>0, <2>2 DEF BusyStatuses
    <2> HIDE DEF new, w
    <2>4. \A v \in Workers : v # w => OpenRunsOf(v) \subseteq OpenIn(runs', v)
      <3>1. CASE UNCHANGED runs
        BY <3>1 DEF OpenRunsOf
      <3>2. ASSUME NEW r \in OpenRunsOf(w),
                   runs' = [runs EXCEPT ![r] = [runs[r] EXCEPT !.status = "paused"]]
            PROVE  \A v \in Workers : v # w => OpenRunsOf(v) \subseteq OpenIn(runs', v)
        <4>1. r \in Runs /\ runs[r] \in RunRows /\ runs[r].worker = w
          BY <1>0 DEF OpenRunsOf, OpenIn, RunMap
        <4> DEFINE row == [runs[r] EXCEPT !.status = "paused"]
        <4>2. runs' = [runs EXCEPT ![r] = row]
          BY <3>2
        <4> HIDE DEF row
        <4>3. runs'[r] = row /\ \A s \in Runs : s # r => runs'[s] = runs[s]
          BY <1>0, <4>1, <4>2 DEF RunMap
        <4> QED BY <4>1, <4>3 DEF OpenIn, OpenRunsOf
      <3> QED BY <2>2, <3>1, <3>2
    <2>5. Calm(new)
      BY <1>0, <1>2, <2>2, <2>3, <2>4
    <2> QED BY <1>0, <2>2, <2>5, ShowMatches
  <1>10. CASE ApplyDelete(u)
    BY <1>5, <1>10 DEF ApplyDelete
  <1> QED BY <1>3, <1>4, <1>6, <1>7, <1>8, <1>9, <1>10

\* The writes without a queue show what the runs say.
LEMMA DirectWritesShow ==
    ASSUME TypeInv, ShownMatchesRuns, TypeOK', NEW w \in Workers,
           \/ \E c \in Calls : BeginSend(c, w)
           \/ ChangeInstalled(w) \/ \E v \in Workers : AssignDevice(w, v)
    PROVE  ShownMatchesRuns'
  <1> DEFINE Calm(statuses) == \A v \in workers' :
                 OpenIn(runs', v) = {} => statuses[v] \notin BusyStatuses
  <1>0. /\ runs \in RunMap /\ shown \in [Workers -> ShownStatuses]
        /\ workers \subseteq Workers /\ workers' \subseteq Workers
    BY DEF TypeInv, TypeOK, RunMap
  <1>1. \A v \in workers : OpenRunsOf(v) = {} => shown[v] \notin BusyStatuses
    BY DEF ShownMatchesRuns, BusyStatuses
  <1>2. ASSUME NEW c \in Calls, BeginSend(c, w)
        PROVE  ShownMatchesRuns'
    <2>1. /\ UNCHANGED workers /\ Show(shown)
          /\ \E r \in OpenRunsOf(w) :
                runs' = [runs EXCEPT ![r] = [runs[r] EXCEPT !.status = "running"]]
      BY <1>2 DEF BeginSend
    <2>2. PICK r \in OpenRunsOf(w) :
              runs' = [runs EXCEPT ![r] = [runs[r] EXCEPT !.status = "running"]]
      BY <2>1
    <2>3. r \in Runs /\ runs[r] \in RunRows
      BY <1>0 DEF OpenRunsOf, OpenIn, RunMap
    <2>4. /\ runs'[r] = [runs[r] EXCEPT !.status = "running"]
          /\ \A s \in Runs : s # r => runs'[s] = runs[s]
      BY <1>0, <2>2, <2>3 DEF RunMap
    <2>5. /\ runs'[r] \in RunRows /\ runs'[r].status = "running"
          /\ runs'[r].worker = runs[r].worker
      BY <2>3, <2>4 DEF RunRows, RunStatuses, OpenStatuses
    <2>6. runs'[r] # NoRun
      BY <2>5, PlaceholdersAreNotValues
    <2>7. \A v : OpenRunsOf(v) \subseteq OpenIn(runs', v)
      BY <2>3, <2>4, <2>5, <2>6 DEF OpenIn, OpenRunsOf, OpenStatuses
    <2>8. Calm(shown)
      BY <1>1, <2>1, <2>7
    <2> QED BY <1>0, <2>1, <2>8, ShowMatches
  <1>3. ASSUME UNCHANGED <<workers, runs>>, NEW statuses, Show(statuses),
               \A v \in Workers : statuses[v] = shown[v] \/ statuses[v] \notin BusyStatuses
        PROVE  ShownMatchesRuns'
    <2>1. Calm(statuses)
      BY <1>0, <1>1, <1>3 DEF OpenRunsOf
    <2> QED BY <1>0, <1>3, <2>1, ShowMatches
  <1>4. CASE ChangeInstalled(w)
    <2>1. PICK status \in {"No active task", "Needs device"} :
              Show([shown EXCEPT ![w] = status])
      BY <1>4 DEF ChangeInstalled
    <2>2. UNCHANGED <<workers, runs>>
      BY <1>4 DEF ChangeInstalled
    <2> DEFINE new == [shown EXCEPT ![w] = status]
    <2>3. \A v \in Workers : new[v] = shown[v] \/ new[v] \notin BusyStatuses
      BY <1>0 DEF BusyStatuses
    <2>4. Show(new)
      BY <2>1
    <2> HIDE DEF new
    <2> QED BY <1>3, <2>2, <2>3, <2>4
  <1>5. ASSUME NEW v \in Workers, AssignDevice(w, v)
        PROVE  ShownMatchesRuns'
    <2> DEFINE new == [x \in Workers |-> CASE x = w -> "No active task"
                                           [] x \in placed \ placed' -> "Needs device"
                                           [] OTHER -> shown[x]]
    <2>1. UNCHANGED <<workers, runs>> /\ Show(new)
      BY <1>5 DEF AssignDevice
    <2>2. \A x \in Workers : new[x] = shown[x] \/ new[x] \notin BusyStatuses
      BY DEF BusyStatuses
    <2> HIDE DEF new
    <2> QED BY <1>3, <2>1, <2>2
  <1> QED BY <1>2, <1>4, <1>5

\* The repair after a restart shows what the runs say.
LEMMA RepairShows ==
    ASSUME TypeInv, AtMostOneOpenRun, ShownMatchesRuns, Restart
    PROVE  ShownMatchesRuns'
  <1>0. /\ runs \in RunMap /\ workers \subseteq Workers /\ UNCHANGED workers
        /\ \A r \in Runs : runs[r] # NoRun => runs[r] \in RunRows
        /\ \A r \in Runs : runs'[r] = Repaired(r)
    BY DEF TypeInv, TypeOK, RunMap, Restart
  <1> SUFFICES ASSUME NEW w \in workers
               PROVE  IF OpenIn(runs', w) # {}
                      THEN \E r \in OpenIn(runs', w) :
                              shown'[w] = ShownFor(runs'[r].status, runs'[r].kind)
                      ELSE shown'[w] \notin BusyStatuses
    BY <1>0 DEF ShownMatchesRuns, OpenRunsOf, BusyStatuses
  <1>1. w \in Workers /\ shown'[w] = RepairedShown(w)
    BY <1>0 DEF Restart
  <1>2. ASSUME NEW r \in Runs, runs[r] # NoRun, runs[r].status = "running"
        PROVE  r \notin OpenIn(runs', w)
    <2>1. runs'[r] = [runs[r] EXCEPT !.status = "failed"] /\ runs[r] \in RunRows
      BY <1>0, <1>2 DEF Repaired
    <2>2. runs'[r].status = "failed"
      BY <2>1 DEF RunRows
    <2> QED BY <2>2 DEF OpenIn, OpenStatuses
  <1>3. ASSUME NEW r \in Runs, ~(runs[r] # NoRun /\ runs[r].status = "running")
        PROVE  runs'[r] = runs[r]
    BY <1>0, <1>3 DEF Repaired
  <1>4. OpenIn(runs', w) = {r \in OpenRunsOf(w) : runs[r].status # "running"}
    BY <1>2, <1>3 DEF OpenIn, OpenRunsOf
  <1>5. OpenRunsOf(w) = {} => shown[w] \notin BusyStatuses
    BY DEF ShownMatchesRuns, BusyStatuses
  <1>6. CASE \E r \in OpenRunsOf(w) : runs[r].status = "running"
    <2>1. shown'[w] = "No active task"
      BY <1>1, <1>6 DEF RepairedShown
    <2>2. OpenIn(runs', w) = {}
      BY <1>1, <1>4, <1>6 DEF AtMostOneOpenRun
    <2> QED BY <2>1, <2>2 DEF BusyStatuses
  <1>7. CASE OpenRunsOf(w) = {}
    <2>1. RowShows(w, shown[w], runs, placed) \in {"No active task", shown[w]}
      BY <1>7 DEF RowShows, OpenRunsOf
    <2>2. shown'[w] \in {"No active task", shown[w]}
      BY <1>1, <2>1 DEF RepairedShown
    <2> QED BY <1>4, <1>5, <1>7, <2>2 DEF BusyStatuses
  <1>8. CASE OpenRunsOf(w) # {} /\ \A r \in OpenRunsOf(w) : runs[r].status # "running"
    <2> DEFINE r == CHOOSE r \in OpenIn(runs, w) : TRUE
    <2>1. r \in OpenRunsOf(w)
      BY <1>8 DEF OpenRunsOf
    <2>2. RowShows(w, shown[w], runs, placed) = ShownFor(runs[r].status, runs[r].kind)
      BY <1>8 DEF RowShows, OpenRunsOf
    <2> HIDE DEF r
    <2>3. shown'[w] = ShownFor(runs[r].status, runs[r].kind)
      BY <1>1, <1>8, <2>2 DEF RepairedShown
    <2>4. r \in Runs /\ runs'[r] = runs[r] /\ r \in OpenIn(runs', w)
      BY <1>3, <1>4, <1>8, <2>1 DEF OpenRunsOf, OpenIn
    <2> QED BY <2>3, <2>4
  <1> QED BY <1>6, <1>7, <1>8

\* Every step leaves rows that show what the runs say.
LEMMA ShowsStep ==
    TypeInv /\ AtMostOneOpenRun /\ ShownMatchesRuns /\ [Next]_vars => ShownMatchesRuns'
  <1> SUFFICES ASSUME TypeInv, AtMostOneOpenRun, ShownMatchesRuns, [Next]_vars
               PROVE  ShownMatchesRuns'
    OBVIOUS
  <1>1. TypeOK'
    BY TypeStep
  <1>2. CASE UNCHANGED persisted
    BY <1>2 DEF persisted, ShownMatchesRuns, OpenRunsOf, OpenIn
  <1>3. CASE Next
    BY <1>1, <1>2, <1>3, UpdateShows, DirectWritesShow, RepairShows
       DEF Next, BeginStart, BeginStop, BeginDelete, Provisioned, NotProvisioned, TurnStarts,
           AbandonTurn, TurnRefused, ApplyReady, ReadyTimesOut, ProcessesStopped,
           Disconnected, Ready, Exits, Observed, LostTurnExits, RequestShutdown, CloseStore
  <1> QED BY <1>2, <1>3 DEF vars

\* Every row shows what its worker's open run says (normalizeProductWorkerState and
\* everything that writes a row).
THEOREM RowsShowTheRuns == Spec => []ShownMatchesRuns
  <1>1. Init => ShownMatchesRuns
    <2> SUFFICES ASSUME Init, NEW w \in workers
                 PROVE  OpenRunsOf(w) = {} /\ shown[w] \notin BusyStatuses
      BY DEF ShownMatchesRuns, BusyStatuses
    <2>1. OpenRunsOf(w) = {}
      BY DEF Init, OpenRunsOf, OpenIn
    <2>2. shown[w] \notin BusyStatuses
      BY DEF Init, BusyStatuses
    <2> QED BY <2>1, <2>2
  <1> QED BY <1>1, ShowsStep, TypeInvCorrect, OneOpenRunInv, PTL DEF Spec
================================================================================
