-------------------------- MODULE WorkerAttendanceProofs --------------------------
(***************************************************************************)
(* That a workflow run shown as running has someone behind it, for any     *)
(* workers, runs, turns and calls (RunningWorkIsAttended).                 *)
(***************************************************************************)
EXTENDS WorkerRunsProofs

\* A result on its way that will take the run r out of "running".
Settles(u, r) ==
    /\ u.what \in {"started", "commanded"} /\ u.run = r
    /\ StatusOf(u.result, IF u.what = "started" THEN u.fallback ELSE "paused") # "running"

\* A turn that stands behind the run r, or whose result left it running.
StandsBehind(turn, r) ==
    /\ turn # NoTurn /\ turn.run = r
    /\ \/ turn.handle = "tracked" /\ turn.alive
       \/ turn.last = "running" /\ ~turn.alive

StartsTurn(c, r) == calls[c] # Idle /\ calls[c].run = r /\ calls[c].at = "starting turn"

IsComing(r) == \E i \in DOMAIN updates : Settles(updates[i], r)

Attended(r) ==
    \/ \E c \in Calls : StartsTurn(c, r)
    \/ \E t \in Turns : StandsBehind(turns[t], r)
    \/ IsComing(r)
    \/ r \in stopping

IsWorking(r) == runs[r] # NoRun /\ runs[r].kind = "workflow" /\ runs[r].status = "running"

\* While nothing has failed, every running workflow run is attended.
WorkIsAttended == store = "open" /\ faults = 0 => \A r \in Runs : IsWorking(r) => Attended(r)

\* A stop is one of a run of its worker.
StopOK(call) ==
    call # Idle /\ call.op = "stop" /\ call.run \in Runs =>
        runs[call.run] # NoRun /\ runs[call.run].worker = call.worker

StopsAreKnown ==
    /\ \A c \in Calls : StopOK(calls[c])
    /\ \A i \in DOMAIN updates : updates[i].what = "stop" =>
          updates[i].run = calls[updates[i].call].run

----------------------------------------------------------------------------
(* Stops. *)

\* A call that goes on is the same stop.
LEMMA SameStop ==
    ASSUME TypeInv, [Next]_vars, NEW c \in Calls, StopOK(calls[c]), calls[c] # Idle,
           calls'[c] # Idle => /\ calls'[c].op = calls[c].op
                               /\ calls'[c].worker = calls[c].worker
                               /\ calls[c].op = "stop" => calls'[c].run = calls[c].run
    PROVE  StopOK(calls[c])'
  BY RowsStay DEF StopOK

\* Every step makes only stops that are known.
LEMMA StopCallsStep ==
    ASSUME TypeInv, [Next]_vars, \A c \in Calls : StopOK(calls[c])
    PROVE  \A c \in Calls : StopOK(calls[c])'
  <1>0. /\ calls \in CallMap
        /\ \A c \in Calls : calls[c] # Idle => calls[c] \in CallStates
    BY DEF TypeInv, TypeOK, CallMap
  <1>1. ASSUME NEW c \in Calls, calls'[c] = calls[c] \/ calls'[c] = Idle
        PROVE  StopOK(calls[c])'
    BY <1>1, RowsStay DEF StopOK
  <1>2. CASE UNCHANGED calls
    BY <1>1, <1>2
  <1>3. ASSUME NEW c \in Calls, Return(c)
        PROVE  \A d \in Calls : StopOK(calls[d])'
    BY <1>0, <1>1, <1>3, Returns
  <1>4. ASSUME NEW c \in Calls, calls[c] # Idle, Goes(c, "queued")
        PROVE  \A d \in Calls : StopOK(calls[d])'
    <2>1. /\ calls'[c].op = calls[c].op /\ calls'[c].worker = calls[c].worker
          /\ calls'[c].run = calls[c].run
      <3>1. calls[c] \in CallStates /\ calls'[c] = [calls[c] EXCEPT !.at = "queued"]
        BY <1>0, <1>4, GoesToQueue
      <3> QED BY <3>1 DEF CallStates
    <2>2. StopOK(calls[c])'
      BY <1>4, <2>1, SameStop
    <2> QED BY <1>0, <1>1, <1>4, <2>2, GoesToQueue
  <1>5. ASSUME NEW c \in Calls, NEW w \in Workers, NEW op, NEW at, NEW kind, NEW r,
               calls' = [calls EXCEPT ![c] = Call(op, at, w, kind, r)],
               op = "stop" => r \in OpenRunsOf(w) \cup {NoRun}
        PROVE  \A d \in Calls : StopOK(calls[d])'
    <2> DEFINE x == Call(op, at, w, kind, r)
    <2>1. x.op = op /\ x.worker = w /\ x.run = r
      BY DEF Call
    <2>2. calls' = [calls EXCEPT ![c] = x]
      BY <1>5
    <2> HIDE DEF x
    <2>3. calls'[c] = x /\ \A d \in Calls : d # c => calls'[d] = calls[d]
      BY <1>0, <2>2 DEF CallMap
    <2>4. StopOK(calls[c])'
      BY <1>5, <2>1, <2>3, RowsStay, PlaceholdersAreNotValues DEF StopOK, OpenRunsOf, OpenIn
    <2> QED BY <1>1, <2>3, <2>4
  <1>13. ASSUME NEW c \in Calls, NEW w \in Workers,
                \/ \E kind \in Kinds : BeginStart(c, w, kind)
                \/ BeginSend(c, w) \/ BeginStop(c, w) \/ BeginDelete(c, w)
         PROVE  \A d \in Calls : StopOK(calls[d])'
    <2>1. ASSUME NEW kind \in Kinds, BeginStart(c, w, kind)
          PROVE  \A d \in Calls : StopOK(calls[d])'
      <3>1. calls' = [calls EXCEPT ![c] = Call("start", "provisioning", w, kind, NoRun)]
        BY <2>1 DEF BeginStart
      <3> QED BY <1>5, <3>1
    <2>2. CASE BeginSend(c, w)
      <3>1. PICK r : calls' = [calls EXCEPT ![c] =
                          Call("command", "starting turn", w, runs[r].kind, r)]
        BY <2>2 DEF BeginSend
      <3> QED BY <1>5, <3>1
    <2>3. CASE BeginStop(c, w)
      <3>1. PICK kind, r : /\ r \in OpenRunsOf(w) \cup {NoRun}
                           /\ calls' = [calls EXCEPT ![c] =
                                  Call("stop", "stopping processes", w, kind, r)]
        BY <2>3 DEF BeginStop
      <3> QED BY <1>5, <3>1
    <2>4. CASE BeginDelete(c, w)
      <3>1. calls' = [calls EXCEPT ![c] =
                         Call("delete", "disconnecting", w, "workflow", NoRun)]
        BY <2>4 DEF BeginDelete
      <3> QED BY <1>5, <3>1
    <2> QED BY <1>13, <2>1, <2>2, <2>3, <2>4
  <1>6. ASSUME NEW c \in Calls, NEW t \in Turns, TurnStarts(c, t)
        PROVE  \A d \in Calls : StopOK(calls[d])'
    <2>1. CASE Return(c)
      BY <1>3, <2>1
    <2>2. CASE calls' = [calls EXCEPT ![c].at = "awaiting ready", ![c].turn = t]
      <3>1. calls[c] \in CallStates /\ calls[c] # Idle
        BY <1>0, <1>6 DEF TurnStarts
      <3>2. calls'[c] = [calls[c] EXCEPT !.at = "awaiting ready", !.turn = t]
            /\ \A d \in Calls : d # c => calls'[d] = calls[d]
        BY <1>0, <2>2 DEF CallMap
      <3>3. /\ calls'[c].run = calls[c].run /\ calls'[c].op = calls[c].op
            /\ calls'[c].worker = calls[c].worker
        BY <3>1, <3>2 DEF CallStates
      <3>4. StopOK(calls[c])'
        BY <3>1, <3>3, SameStop
      <3> QED BY <1>1, <3>2, <3>4
    <2> QED BY <1>6, <2>1, <2>2 DEF TurnStarts
  <1>7. ASSUME NEW t, NEW result \in Results, WakeWaiters(t, result)
        PROVE  \A d \in Calls : StopOK(calls[d])'
    <2>1. ASSUME NEW c \in Calls, calls[c] # Idle,
                 calls'[c] = [calls[c] EXCEPT !.at = "ready", !.result = result]
          PROVE  StopOK(calls[c])'
      <3>1. /\ calls'[c].run = calls[c].run /\ calls'[c].op = calls[c].op
            /\ calls'[c].worker = calls[c].worker
        BY <1>0, <2>1 DEF CallStates
      <3> QED BY <2>1, <3>1, SameStop
    <2> QED BY <1>0, <1>1, <1>7, <2>1, WakeWaitersCalls
  <1>8. CASE RunUpdate
    <2> DEFINE u == Head(updates)
    <2>1. /\ u \in UpdateStates
          /\ u.what \in {"start", "stop", "delete"} =>
                u.call \in Calls /\ calls[u.call] \in CallStates
      BY <1>8, HeadUpdate DEF RunUpdate
    <2>2. \/ ApplyStart(u) \/ UNCHANGED calls
          \/ u.what \in {"stop", "delete"} /\ Return(u.call)
          \/ calls' = [c \in Calls |-> IF c = u.call THEN Idle ELSE calls[c]]
      BY <1>8 DEF RunUpdate, ApplyResult, ApplyObserved, ApplyStop, ApplyDelete, DropUpdate
    <2>3. CASE ApplyStart(u)
      <3>1. u.call \in Calls /\ calls[u.call] \in CallStates /\ calls[u.call].op = "start"
        BY <1>8, <2>1, <2>3, HeadUpdate DEF RunUpdate, ApplyStart, At
      <3> HIDE DEF u
      <3>2. PICK r \in Runs :
                calls' = [calls EXCEPT ![u.call].at = "starting turn", ![u.call].run = r]
        BY <2>1, <2>3, <3>1, StartApplied
      <3>3. calls'[u.call] = [calls[u.call] EXCEPT !.at = "starting turn", !.run = r]
            /\ \A d \in Calls : d # u.call => calls'[d] = calls[d]
        BY <1>0, <3>1, <3>2 DEF CallMap
      <3>4. calls'[u.call].op = "start"
        BY <3>1, <3>3 DEF CallStates
      <3> QED BY <1>1, <3>3, <3>4 DEF StopOK
    <2> HIDE DEF u
    <2>4. CASE u.what \in {"stop", "delete"} /\ Return(u.call)
      BY <1>3, <2>1, <2>4
    <2>5. CASE calls' = [c \in Calls |-> IF c = u.call THEN Idle ELSE calls[c]]
      BY <1>1, <2>5
    <2> QED BY <1>2, <2>2, <2>3, <2>4, <2>5
  <1>9. CASE Restart
    BY <1>1, <1>9 DEF Restart
  <1>10. ASSUME NEW c \in Calls,
                \/ Provisioned(c) \/ NotProvisioned(c) \/ AbandonTurn(c) \/ TurnRefused(c)
                \/ ApplyReady(c) \/ ReadyTimesOut(c) \/ ProcessesStopped(c)
                \/ Disconnected(c)
         PROVE  \A d \in Calls : StopOK(calls[d])'
    BY <1>3, <1>4, <1>10
       DEF Provisioned, NotProvisioned, AbandonTurn, TurnRefused, ApplyReady,
           ReadyTimesOut, ProcessesStopped, Disconnected, At
  <1>11. ASSUME NEW t \in Turns,
                \/ \E result \in Results : Ready(t, result) \/ Exits(t, result)
                \/ Observed(t) \/ LostTurnExits(t)
         PROVE  \A d \in Calls : StopOK(calls[d])'
    BY <1>2, <1>7, <1>11 DEF Ready, Exits, Observed, LostTurnExits
  <1>12. CASE Next
    BY <1>2, <1>6, <1>8, <1>9, <1>10, <1>11, <1>12, <1>13
       DEF Next, ChangeInstalled, AssignDevice, RequestShutdown, CloseStore
  <1> QED BY <1>2, <1>12 DEF vars

\* Every step keeps the update of a stop with its call.
LEMMA StopsStep == TypeInv /\ StopsAreKnown /\ [Next]_vars => StopsAreKnown'
  <1> SUFFICES ASSUME TypeInv, StopsAreKnown, [Next]_vars
               PROVE  StopsAreKnown'
    OBVIOUS
  <1>1. \A c \in Calls : StopOK(calls[c])'
    BY StopCallsStep DEF StopsAreKnown
  <1>2. updates \in Seq(UpdateStates)
    BY DEF TypeInv, TypeOK
  <1>3. \A i \in DOMAIN updates : updates[i].what = "stop" =>
            /\ updates[i].call \in Calls /\ Queued(updates[i].call)
            /\ updates[i].run = calls[updates[i].call].run
    BY DEF TypeInv, UpdatesHaveCallers, At, Queued, StopsAreKnown
  <1>4. ASSUME NEW i \in DOMAIN updates'
        PROVE  updates'[i].what = "stop" =>
                   updates'[i].run = calls'[updates'[i].call].run
    <2>1. CASE ReportsJoin
      BY <1>2, <1>3, <2>1, QueueGrown DEF ReportsJoin, IsReport, StaysInQueue
    <2>2. CASE HeadLeaves
      <3>1. /\ \/ i + 1 \in DOMAIN updates /\ i + 1 # 1 /\ updates'[i] = updates[i + 1]
               \/ IsReport(updates'[i])
            /\ Head(updates) = updates[1] /\ 1 \in DOMAIN updates
        BY <1>2, <2>2, QueueRuns DEF HeadLeaves
      <3>2. CASE IsReport(updates'[i])
        BY <3>2 DEF IsReport
      <3>3. CASE i + 1 \in DOMAIN updates /\ i + 1 # 1 /\ updates'[i] = updates[i + 1]
        <4>1. updates[i + 1].call = updates[1].call => updates[i + 1].call = Idle
          BY <3>1, <3>3 DEF TypeInv, UpdatesHaveCallers
        <4> QED BY <1>3, <2>2, <3>1, <3>3, <4>1, PlaceholdersAreNotValues DEF HeadLeaves
      <3> QED BY <3>1, <3>2, <3>3
    <2>3. CASE QueueLost
      BY <2>3 DEF QueueLost
    <2>4. ASSUME NEW c \in Calls, NEW u \in UpdateStates, CallJoins(c, u)
          PROVE  updates'[i].what = "stop" =>
                     updates'[i].run = calls'[updates'[i].call].run
      BY <1>2, <1>3, <2>4, QueueJoined DEF CallJoins
    <2> QED BY <2>1, <2>2, <2>3, <2>4, QueueStep
  <1> QED BY <1>1, <1>4 DEF StopsAreKnown

----------------------------------------------------------------------------
(* What stands behind a run stays, or something else takes its place. *)

TurnsStay(r)   == \A t \in Turns : StandsBehind(turns[t], r) => StandsBehind(turns[t], r)'
CallsStay(r)   == \A c \in Calls : StartsTurn(c, r) => StartsTurn(c, r)'
ComingStays(r) == IsComing(r) => IsComing(r)'

\* A run stays attended.
LEMMA StaysAttended ==
    ASSUME NEW r \in Runs, Attended(r), TurnsStay(r), CallsStay(r), ComingStays(r),
           stopping \subseteq stopping'
    PROVE  Attended(r)'
  BY DEF Attended, TurnsStay, CallsStay, ComingStays

\* A call that starts no turn may do what it likes.
LEMMA OtherCallsStay ==
    ASSUME NEW r \in Runs, NEW c \in Calls,
           calls[c] # Idle => calls[c].at # "starting turn" \/ calls[c].run # r,
           \A d \in Calls : d # c => calls'[d] = calls[d]
    PROVE  CallsStay(r)
  BY DEF CallsStay, StartsTurn

\* What is in the queue stays there when reports or a call join it.
LEMMA QueueStays ==
    ASSUME TypeInv, NEW r \in Runs,
           ReportsJoin \/ \E c \in Calls, u \in UpdateStates : CallJoins(c, u)
    PROVE  ComingStays(r)
  <1>1. updates \in Seq(UpdateStates)
    BY DEF TypeInv, TypeOK
  <1>2. \A i \in DOMAIN updates : i \in DOMAIN updates' /\ updates'[i] = updates[i]
    BY <1>1, QueueGrown, QueueJoined DEF ReportsJoin, CallJoins
  <1> QED BY <1>2 DEF ComingStays, IsComing

\* A report that settles the run joins the queue.
LEMMA SettlingReport ==
    ASSUME NEW old \in Seq(UpdateStates), NEW u \in UpdateStates, NEW r \in Runs,
           Settles(u, r), updates' = Append(old, u)
    PROVE  IsComing(r)'
  BY DEF IsComing

\* The head of the queue leaves it.
LEMMA RestStays ==
    ASSUME updates \in Seq(UpdateStates), updates # << >>, updates' = Tail(updates),
           NEW r \in Runs, ~Settles(Head(updates), r)
    PROVE  ComingStays(r)
  <1>1. \A i \in DOMAIN updates : i # 1 =>
            i - 1 \in DOMAIN updates' /\ updates'[i - 1] = updates[i]
    BY QueueTail
  <1>2. Head(updates) = updates[1]
    BY QueueTail
  <1>3. ASSUME NEW i \in DOMAIN updates, Settles(updates[i], r)
        PROVE  IsComing(r)'
    <2>1. i # 1
      BY <1>2, <1>3
    <2>2. Settles(updates'[i - 1], r) /\ i - 1 \in DOMAIN updates'
      BY <1>1, <1>3, <2>1
    <2> QED BY <2>2 DEF IsComing
  <1> QED BY <1>3 DEF ComingStays, IsComing

\* A turn that is only told to stop stands where it stood.
LEMMA ToldTurnsStay ==
    ASSUME NEW r \in Runs,
           \A t \in Turns : \/ turns'[t] = turns[t]
                            \/ turns[t] # NoTurn /\ turns'[t] # NoTurn
                               /\ Told(turns[t], turns'[t])
    PROVE  TurnsStay(r)
  BY DEF TurnsStay, StandsBehind, Told

\* The steps of calls keep every running run attended while the store is open.
LEMMA CallsAttend ==
    ASSUME TypeInv, store = "open", NEW r \in Runs, Attended(r), NEW c \in Calls,
           \/ Provisioned(c) \/ NotProvisioned(c)
           \/ \E t \in Turns : TurnStarts(c, t)
           \/ AbandonTurn(c) \/ TurnRefused(c)
           \/ ApplyReady(c) \/ ReadyTimesOut(c)
           \/ ProcessesStopped(c) \/ Disconnected(c)
    PROVE  Attended(r)'
  <1>0. /\ calls \in CallMap /\ turns \in TurnMap /\ updates \in Seq(UpdateStates)
        /\ \A d \in Calls : calls[d] # Idle => calls[d] \in CallStates
    BY DEF TypeInv, TypeOK, CallMap, TurnMap
  <1>1. ComingStays(r)
    BY CallsQueue, QueueStays
  <1>2. UNCHANGED turns => TurnsStay(r)
    BY DEF TurnsStay
  <1>3. ~AbandonTurn(c)
    BY DEF AbandonTurn
  <1>4. CASE \/ Provisioned(c) \/ NotProvisioned(c) \/ ApplyReady(c) \/ ReadyTimesOut(c)
             \/ Disconnected(c)
    <2>1. UNCHANGED <<turns, stopping>>
      BY <1>4 DEF Provisioned, NotProvisioned, ApplyReady, ReadyTimesOut, Disconnected, CleanUp
    <2>2. calls[c] # Idle /\ calls[c].at # "starting turn"
      BY <1>4 DEF Provisioned, NotProvisioned, ApplyReady, ReadyTimesOut, Disconnected, At
    <2>3. Return(c) \/ Goes(c, "queued")
      BY <1>4 DEF Provisioned, NotProvisioned, ApplyReady, ReadyTimesOut, Disconnected
    <2>4. CallsStay(r)
      BY <1>0, <2>2, <2>3, Returns, GoesToQueue, OtherCallsStay
    <2> QED BY <1>1, <1>2, <2>1, <2>4, StaysAttended
  <1>5. CASE ProcessesStopped(c)
    <2>1. /\ turns' \in Signalled(turns, calls[c].worker) /\ UNCHANGED stopping
          /\ calls[c] # Idle /\ calls[c].at # "starting turn" /\ Goes(c, "queued")
      BY <1>5 DEF ProcessesStopped, At
    <2>2. TurnsStay(r)
      <3>1. /\ turns' \in TurnMap
            /\ \A t \in Turns : \/ turns'[t] = turns[t]
                                \/ /\ turns[t] # NoTurn /\ turns'[t] \in TurnStates
                                   /\ Told(turns[t], turns'[t])
        BY <1>0, <2>1, SignalledTurns
      <3> QED BY <3>1, ToldTurnsStay, PlaceholdersAreNotValues
    <2>3. CallsStay(r)
      BY <1>0, <2>1, GoesToQueue, OtherCallsStay
    <2> QED BY <1>1, <2>1, <2>2, <2>3, StaysAttended
  <1>6. ASSUME NEW t \in Turns, TurnStarts(c, t)
        PROVE  Attended(r)'
    <2>1. /\ calls[c] # Idle /\ calls[c].at = "starting turn" /\ turns[t] = NoTurn
          /\ turns' = [turns EXCEPT ![t] = NewTurn(c, FALSE)] /\ UNCHANGED stopping
      BY <1>6 DEF TurnStarts
    <2>2. /\ turns'[t] = NewTurn(c, FALSE)
          /\ \A s \in Turns : s # t => turns'[s] = turns[s]
      BY <1>0, <2>1 DEF TurnMap
    <2>3. CASE calls[c].run = r
      <3>1. NewTurn(c, FALSE) \in TurnStates
        BY <1>0, <2>1, NewTurnType DEF TypeInv, NamedRunsExist
      <3>2. NewTurn(c, FALSE) # NoTurn
        BY <3>1, PlaceholdersAreNotValues
      <3>3. StandsBehind(NewTurn(c, FALSE), r)
        BY <2>3, <3>2 DEF StandsBehind, NewTurn
      <3> QED BY <2>2, <3>3 DEF Attended
    <2>4. CASE calls[c].run # r
      <3>1. TurnsStay(r)
        BY <2>1, <2>2 DEF TurnsStay, StandsBehind
      <3>2. \A d \in Calls : d # c => calls'[d] = calls[d]
        BY <1>0, <1>6 DEF TurnStarts, Return, CallMap
      <3>3. CallsStay(r)
        BY <2>4, <3>2, OtherCallsStay
      <3> QED BY <1>1, <2>1, <3>1, <3>3, StaysAttended
    <2> QED BY <2>3, <2>4
  <1>7. CASE TurnRefused(c)
    <2>1. /\ calls[c] # Idle /\ calls[c].at = "starting turn"
          /\ UNCHANGED <<turns, stopping>> /\ Return(c)
      BY <1>7 DEF TurnRefused, CleanUp
    <2>2. CASE calls[c].run = r
      <3>1. PICK what \in {"started", "commanded"} :
                updates' = Append(updates, [what |-> what, call |-> Idle, run |-> r,
                                            result |-> "failed", fallback |-> "running",
                                            caught |-> FALSE])
        BY <1>7, <2>2 DEF TurnRefused, Enqueue
      <3> DEFINE u == [what |-> what, call |-> Idle, run |-> r, result |-> "failed",
                       fallback |-> "running", caught |-> FALSE]
      <3>2. u \in UpdateStates
        BY DEF UpdateStates
      <3>3. Settles(u, r)
        BY DEF Settles, StatusOf
      <3>4. updates' = Append(updates, u)
        BY <3>1
      <3> HIDE DEF u
      <3>5. IsComing(r)'
        BY <1>0, <3>2, <3>3, <3>4, SettlingReport
      <3> QED BY <3>5 DEF Attended
    <2>3. CASE calls[c].run # r
      <3>1. CallsStay(r)
        BY <1>0, <2>1, <2>3, Returns, OtherCallsStay
      <3> QED BY <1>1, <1>2, <2>1, <3>1, StaysAttended
    <2> QED BY <2>2, <2>3
  <1> QED BY <1>3, <1>4, <1>5, <1>6, <1>7

\* The completion of a turn of a workflow run settles it, or leaves a turn that ended by
\* reporting "running".
LEMMA CompletionAttends ==
    ASSUME TypeInv, store = "open", NEW r \in Runs, IsWorking(r), NEW t \in Turns,
           NEW result \in Results, Exits(t, result), turns[t].run = r
    PROVE  Attended(r)'
  <1>0. /\ turns \in TurnMap /\ updates \in Seq(UpdateStates) /\ turns[t] \in TurnStates
        /\ runs[r].kind = "workflow"
    BY DEF TypeInv, TypeOK, TurnMap, Exits, IsWorking
  <1>1. turns'[t] = Ended(turns[t], result)
    BY <1>0 DEF Exits, TurnMap
  <1>2. CASE result = "running"
    <2>1. Ended(turns[t], result) \in TurnStates
      BY <1>0, ToldTurns
    <2>2. StandsBehind(Ended(turns[t], result), r)
      BY <1>0, <1>2, <2>1, PlaceholdersAreNotValues DEF StandsBehind, Ended, TurnStates
    <2> QED BY <1>1, <2>2 DEF Attended
  <1>3. CASE result # "running"
    <2> DEFINE u == IF turns[t].kind = "command"
                    THEN [StartedUpdate(t, result, "paused") EXCEPT !.what = "commanded"]
                    ELSE StartedUpdate(t, result, "paused")
    <2>1. FinalUpdates(t, result) = <<u>>
      BY <1>0 DEF FinalUpdates
    <2>2. u \in UpdateStates
      BY <1>0, ReportType, PlaceholdersAreNotValues DEF StartedUpdate, UpdateStates, TurnStates
    <2>3. Settles(u, r)
      BY <1>3 DEF Settles, StartedUpdate, StatusOf
    <2> HIDE DEF u
    <2>4. ReadyUpdates(t, result) \in Seq(UpdateStates)
      BY <1>0, ReportsType, PlaceholdersAreNotValues
    <2>5. PICK old \in Seq(UpdateStates) : updates' = old \o <<u>>
      <3>1. \/ updates' = updates \o <<u>>
            \/ updates' = (updates \o ReadyUpdates(t, result)) \o <<u>>
        BY <2>1 DEF Exits
      <3>2. updates \o ReadyUpdates(t, result) \in Seq(UpdateStates)
        BY <1>0, <2>4
      <3> QED BY <1>0, <3>1, <3>2
    <2>6. updates' = Append(old, u)
      BY <2>2, <2>5
    <2>7. IsComing(r)'
      BY <2>2, <2>3, <2>6, SettlingReport
    <2> QED BY <2>7 DEF Attended
  <1> QED BY <1>2, <1>3

\* What turns report keeps every running workflow run attended.
LEMMA TurnsAttend ==
    ASSUME TypeInv, store = "open", NEW r \in Runs, IsWorking(r), Attended(r), NEW t \in Turns,
           \/ \E result \in Results : Ready(t, result) \/ Exits(t, result)
           \/ Observed(t) \/ LostTurnExits(t)
    PROVE  Attended(r)'
  <1>0. /\ calls \in CallMap /\ turns \in TurnMap
        /\ turns[t] # NoTurn /\ turns[t] \in TurnStates /\ UNCHANGED stopping
    BY DEF TypeInv, TypeOK, CallMap, TurnMap, Ready, Exits, Observed, Tracked, LostTurnExits
  <1>1. ComingStays(r)
    BY TurnsQueue, QueueStays
  <1>2. CallsStay(r)
    <2>1. ASSUME NEW result \in Results, WakeWaiters(t, result)
          PROVE  CallsStay(r)
      BY <1>0, <2>1, WakeWaitersCalls DEF CallsStay, StartsTurn
    <2>2. UNCHANGED calls => CallsStay(r)
      BY DEF CallsStay, StartsTurn
    <2> QED BY <2>1, <2>2 DEF Ready, Exits, Observed, LostTurnExits
  <1>3. \A s \in Turns : s # t => turns'[s] = turns[s]
    BY <1>0 DEF Ready, Exits, Observed, LostTurnExits, TurnMap
  <1>4. ASSUME StandsBehind(turns[t], r) => StandsBehind(turns[t], r)'
        PROVE  Attended(r)'
    <2>1. TurnsStay(r)
      BY <1>3, <1>4 DEF TurnsStay, StandsBehind
    <2> QED BY <1>0, <1>1, <1>2, <2>1, StaysAttended
  <1>5. ASSUME NEW result \in Results, Exits(t, result)
        PROVE  Attended(r)'
    <2>1. CASE turns[t].run = r
      BY <1>5, <2>1, CompletionAttends
    <2>2. CASE turns[t].run # r
      BY <1>4, <2>2 DEF StandsBehind
    <2> QED BY <2>1, <2>2
  <1>6. CASE LostTurnExits(t)
    BY <1>4, <1>6 DEF StandsBehind, LostTurnExits
  <1>7. CASE \/ \E result \in Results : Ready(t, result)
             \/ Observed(t)
    <2>1. \/ turns'[t] = [turns[t] EXCEPT !.ready = TRUE]
          \/ turns'[t] = [turns[t] EXCEPT !.observed = TRUE]
      BY <1>0, <1>7 DEF Ready, Observed, TurnMap
    <2>2. /\ turns'[t] \in TurnStates /\ turns'[t].run = turns[t].run
          /\ turns'[t].handle = turns[t].handle /\ turns'[t].alive = turns[t].alive
          /\ turns'[t].last = turns[t].last
      BY <1>0, <2>1 DEF TurnStates
    <2> QED BY <1>4, <2>2, PlaceholdersAreNotValues DEF StandsBehind
  <1> QED BY <1>5, <1>6, <1>7

\* A request of a user keeps every running workflow run attended: a command starts a turn
\* of the run that it sets to running, a stop marks the run whose turns it drops.
LEMMA RequestsAttend ==
    ASSUME TypeInv, NEW r \in Runs, IsWorking(r) => Attended(r), IsWorking(r)',
           NEW c \in Calls, NEW w \in Workers,
           \/ \E kind \in Kinds : BeginStart(c, w, kind)
           \/ BeginSend(c, w) \/ BeginStop(c, w) \/ BeginDelete(c, w)
    PROVE  Attended(r)'
  <1>0. /\ calls \in CallMap /\ turns \in TurnMap /\ runs \in RunMap
        /\ calls[c] = Idle /\ UNCHANGED updates
    BY DEF TypeInv, TypeOK, CallMap, TurnMap, RunMap, BeginStart, BeginSend, BeginStop,
           BeginDelete
  <1>1. ComingStays(r)
    BY BeginsOutside, QueueStays
  <1>2. CallsStay(r)
    <2>1. \A d \in Calls : d # c => calls'[d] = calls[d]
      BY <1>0 DEF BeginStart, BeginSend, BeginStop, BeginDelete, CallMap
    <2> QED BY <1>0, <2>1, OtherCallsStay
  <1>3. UNCHANGED turns => TurnsStay(r)
    BY DEF TurnsStay, StandsBehind
  <1>4. UNCHANGED runs => IsWorking(r)
    BY DEF IsWorking
  <1>5. CASE (\E kind \in Kinds : BeginStart(c, w, kind)) \/ BeginDelete(c, w)
    <2>1. UNCHANGED <<runs, turns, stopping>>
      BY <1>5 DEF BeginStart, BeginDelete, persisted
    <2> QED BY <1>1, <1>2, <1>3, <1>4, <2>1, StaysAttended
  <1>6. CASE BeginSend(c, w)
    <2>1. PICK s \in OpenRunsOf(w) :
              /\ runs' = [runs EXCEPT ![s] = [runs[s] EXCEPT !.status = "running"]]
              /\ calls' = [calls EXCEPT ![c] =
                              Call("command", "starting turn", w, runs[s].kind, s)]
      BY <1>6 DEF BeginSend
    <2>2. UNCHANGED <<turns, stopping>>
      BY <1>6 DEF BeginSend
    <2>3. CASE s = r
      <3> DEFINE x == Call("command", "starting turn", w, runs[s].kind, s)
      <3>1. x \in CallStates /\ x.at = "starting turn" /\ x.run = r
        BY <1>0, <2>3 DEF Call, CallStates, RunMap, RunRows, OpenRunsOf, OpenIn
      <3>2. calls' = [calls EXCEPT ![c] = x]
        BY <2>1
      <3> HIDE DEF x
      <3>3. calls'[c] = x
        BY <1>0, <3>2 DEF CallMap
      <3>4. StartsTurn(c, r)'
        BY <3>1, <3>3, PlaceholdersAreNotValues DEF StartsTurn
      <3> QED BY <3>4 DEF Attended
    <2>4. CASE s # r
      <3>1. runs'[r] = runs[r]
        BY <1>0, <2>1, <2>4 DEF RunMap
      <3>2. Attended(r)
        BY <3>1 DEF IsWorking
      <3> QED BY <1>1, <1>2, <1>3, <2>2, <3>2, StaysAttended
    <2> QED BY <2>3, <2>4
  <1>7. CASE BeginStop(c, w)
    <2>1. Attended(r)
      BY <1>4, <1>7 DEF BeginStop, persisted
    <2>2. CASE UNCHANGED <<turns, stopping>>
      BY <1>1, <1>2, <1>3, <2>1, <2>2, StaysAttended
    <2>3. ASSUME NEW s \in OpenRunsOf(w), stopping' = stopping \cup {s},
                 StopHandles({t \in TurnsOf(s) : Tracked(t)})
          PROVE  Attended(r)'
      <3>1. CASE s = r
        BY <2>3, <3>1 DEF Attended
      <3>2. CASE s # r
        <4>1. \A t \in Turns : turns[t] # NoTurn /\ turns[t].run = r => turns'[t] = turns[t]
          BY <2>3, <3>2 DEF StopHandles, TurnsOf
        <4>2. TurnsStay(r)
          BY <4>1 DEF TurnsStay, StandsBehind
        <4> QED BY <1>1, <1>2, <2>1, <2>3, <4>2, StaysAttended
      <3> QED BY <3>1, <3>2
    <2> QED BY <1>7, <2>2, <2>3 DEF BeginStop
  <1> QED BY <1>5, <1>6, <1>7

\* Every queued update keeps every running workflow run attended: a result that was on
\* its way takes effect or meets a stop, and a stop ends the run that it had marked.
LEMMA UpdatesAttend ==
    ASSUME TypeInv, AtMostOneOpenRun, StopsAreKnown, RunUpdate, [Next]_vars,
           store = "open", faults' = faults,
           NEW r \in Runs, IsWorking(r) => Attended(r), IsWorking(r)'
    PROVE  Attended(r)'
  <1> DEFINE u == Head(updates)
  <1>0. /\ calls \in CallMap /\ turns \in TurnMap /\ runs \in RunMap
        /\ updates \in Seq(UpdateStates) /\ updates # << >> /\ updates' = Tail(updates)
        /\ faults \in Nat
    BY ConstantsOK DEF TypeInv, TypeOK, CallMap, TurnMap, RunMap, RunUpdate
  <1>1. /\ u \in UpdateStates /\ u = updates[1] /\ 1 \in DOMAIN updates
        /\ u.what \in {"start", "stop", "delete"} =>
              /\ u.call \in Calls /\ calls[u.call] \in CallStates
              /\ At(u.call, u.what, "queued")
        /\ u.what \in {"started", "commanded", "observed"} =>
              /\ u.run \in Runs /\ runs[u.run] \in RunRows
              /\ u.what # "observed" => u.result # "none"
    BY <1>0, HeadUpdate
  <1>2. \/ ApplyStart(u) \/ ApplyResult(u) \/ ApplyObserved(u) \/ ApplyStop(u)
        \/ ApplyDelete(u)
        \/ (u.what = "start" /\ DropUpdate(u))
    <2>1. store = "open" /\ ~(faults' = faults + 1)
      BY <1>0
    <2> QED BY <2>1 DEF RunUpdate, MayThrow
  <1>3. u.what = "stop" => u.run = calls[u.call].run /\ StopOK(calls[u.call])
    BY <1>1 DEF StopsAreKnown
  <1>4. ~Settles(u, r) => ComingStays(r)
    BY <1>0, RestStays
  <1> HIDE DEF u
  <1>5. UNCHANGED turns => TurnsStay(r)
    BY DEF TurnsStay, StandsBehind
  <1>6. UNCHANGED calls => CallsStay(r)
    BY DEF CallsStay, StartsTurn
  <1>7. ASSUME runs'[r] = runs[r]
        PROVE  Attended(r)
    BY <1>7 DEF IsWorking
  <1>8. ASSUME u.what \in {"start", "stop", "delete"},
               \A d \in Calls : d # u.call => calls'[d] = calls[d]
        PROVE  CallsStay(r) /\ ComingStays(r)
    <2>1. u.call \in Calls /\ calls[u.call].at = "queued"
      BY <1>1, <1>8 DEF At
    <2>2. CallsStay(r)
      BY <1>8, <2>1, OtherCallsStay
    <2> QED BY <1>4, <1>8, <2>2 DEF Settles
  <1>9. CASE ApplyStart(u)
    <2>1. u.call \in Calls /\ calls[u.call] \in CallStates /\ u.what = "start"
      BY <1>1, <1>9 DEF ApplyStart
    <2>2. PICK s \in Runs :
              /\ \E row : runs' = [runs EXCEPT ![s] = row]
              /\ calls' = [calls EXCEPT ![u.call].at = "starting turn", ![u.call].run = s]
              /\ UNCHANGED <<turns, stopping>>
      <3>1. PICK s \in Runs : CreateRun(u.call, calls[u.call].worker, s)
        BY <1>9 DEF ApplyStart
      <3> QED BY <3>1 DEF CreateRun
    <2>3. calls'[u.call] = [calls[u.call] EXCEPT !.at = "starting turn", !.run = s]
          /\ \A d \in Calls : d # u.call => calls'[d] = calls[d]
      BY <1>0, <2>1, <2>2 DEF CallMap
    <2>4. /\ calls'[u.call] \in CallStates /\ calls'[u.call].at = "starting turn"
          /\ calls'[u.call].run = s
      BY <2>1, <2>3 DEF CallStates
    <2>5. CASE s = r
      BY <2>1, <2>4, <2>5, PlaceholdersAreNotValues DEF Attended, StartsTurn
    <2>6. CASE s # r
      <3>1. Attended(r)
        BY <1>0, <1>7, <2>2, <2>6 DEF RunMap
      <3> QED BY <1>5, <1>8, <2>1, <2>2, <2>3, <3>1, StaysAttended
    <2> QED BY <2>5, <2>6
  <1>10. CASE ApplyResult(u)
    <2>1. /\ u.what \in {"started", "commanded"} /\ u.run \in Runs /\ runs[u.run] \in RunRows
          /\ u.result # "none" /\ UNCHANGED <<turns, stopping, calls>>
      BY <1>1, <1>10 DEF ApplyResult
    <2>2. CASE ~TakesResults(u.run)
      <3>1. UNCHANGED runs
        BY <1>10, <2>2 DEF ApplyResult
      <3>2. CASE Settles(u, r)
        <4>1. r \in stopping
          BY <2>2, <3>1, <3>2 DEF Settles, TakesResults, IsWorking
        <4> QED BY <2>1, <4>1 DEF Attended
      <3>3. CASE ~Settles(u, r)
        BY <1>4, <1>5, <1>6, <1>7, <2>1, <3>1, <3>3, StaysAttended
      <3> QED BY <3>2, <3>3
    <2>3. CASE TakesResults(u.run)
      <3> DEFINE status == IF u.what = "started" THEN StatusOf(u.result, u.fallback)
                           ELSE AfterCommand(StatusOf(u.result, "paused"), runs[u.run].kind)
      <3>1. PICK session \in {runs[u.run].session, TRUE} :
                runs' = [runs EXCEPT ![u.run] =
                            [runs[u.run] EXCEPT !.status = status, !.session = session]]
        BY <1>10, <2>3 DEF ApplyResult
      <3> DEFINE row == [runs[u.run] EXCEPT !.status = status, !.session = session]
      <3>2. row.status = status /\ row.kind = runs[u.run].kind
        BY <2>1 DEF RunRows
      <3>3. runs'[u.run] = row /\ \A s \in Runs : s # u.run => runs'[s] = runs[s]
        BY <1>0, <2>1, <3>1 DEF RunMap
      <3> HIDE DEF row
      <3>4. ~Settles(u, r)
        <4>1. ASSUME Settles(u, r)
              PROVE  FALSE
          <5>1. u.run = r /\ runs[r].kind = "workflow"
            BY <3>2, <3>3, <4>1 DEF Settles, IsWorking
          <5>2. status # "running"
            BY <4>1, <5>1 DEF Settles, AfterCommand
          <5> QED BY <3>2, <3>3, <5>1, <5>2 DEF IsWorking
        <4> QED BY <4>1
      <3>5. IsWorking(r)
        <4>1. CASE u.run = r
          BY <2>3, <3>2, <3>3, <4>1 DEF IsWorking, TakesResults
        <4>2. CASE u.run # r
          BY <3>3, <4>2 DEF IsWorking
        <4> QED BY <4>1, <4>2
      <3> QED BY <1>4, <1>5, <1>6, <2>1, <3>4, <3>5, StaysAttended
    <2> QED BY <2>2, <2>3
  <1>11. CASE ApplyObserved(u)
    <2>1. UNCHANGED <<runs, turns, stopping, calls>> /\ u.what = "observed"
      BY <1>11 DEF ApplyObserved
    <2>2. ~Settles(u, r)
      BY <2>1 DEF Settles
    <2> QED BY <1>4, <1>5, <1>6, <1>7, <2>1, <2>2, StaysAttended
  <1>12. CASE ApplyStop(u)
    <2>1. u.call \in Calls /\ calls[u.call] \in CallStates /\ u.what = "stop"
      BY <1>1, <1>12 DEF ApplyStop
    <2> DEFINE w == calls[u.call].worker
    <2>2. /\ UNCHANGED turns /\ stopping' = stopping \ {u.run} /\ Return(u.call)
          /\ w \in Workers
          /\ \/ OpenRunsOf(w) = {} /\ UNCHANGED runs
             \/ \E s \in OpenRunsOf(w) :
                   runs' = [runs EXCEPT ![s] = [runs[s] EXCEPT !.status = "paused"]]
      BY <1>1, <1>12, <2>1, StopApplied
    <2>3. \A d \in Calls : d # u.call => calls'[d] = calls[d]
      BY <1>0, <2>1, <2>2, Returns
    <2>4. ASSUME NEW s \in OpenRunsOf(w),
                 runs' = [runs EXCEPT ![s] = [runs[s] EXCEPT !.status = "paused"]]
          PROVE  s # r /\ runs'[r] = runs[r]
      <3>1. s \in Runs /\ runs[s] \in RunRows
        BY <1>0 DEF OpenRunsOf, OpenIn, RunMap
      <3>2. /\ runs'[s] = [runs[s] EXCEPT !.status = "paused"]
            /\ s # r => runs'[r] = runs[r]
        BY <1>0, <2>4, <3>1 DEF RunMap
      <3>3. runs'[s].status = "paused"
        BY <3>1, <3>2 DEF RunRows
      <3> QED BY <3>2, <3>3 DEF IsWorking
    <2>5. runs'[r] = runs[r]
      BY <2>2, <2>4
    <2>6. IsWorking(r) /\ Attended(r)
      BY <1>7, <2>5 DEF IsWorking
    <2>7. u.run # r
      <3>1. ASSUME u.run = r
            PROVE  FALSE
        <4>1. runs[r].worker = w
          <5>1. calls[u.call] # Idle /\ calls[u.call].op = "stop" /\ calls[u.call].run = r
            BY <1>1, <1>3, <2>1, <3>1 DEF At
          <5> QED BY <1>3, <2>1, <5>1 DEF StopOK
        <4>2. r \in OpenRunsOf(w)
          BY <2>6, <4>1 DEF OpenRunsOf, OpenIn, IsWorking, OpenStatuses
        <4>3. \A s \in OpenRunsOf(w) : s = r
          BY <2>2, <4>2 DEF AtMostOneOpenRun
        <4> QED BY <2>2, <2>4, <4>2, <4>3
      <3> QED BY <3>1
    <2>8. r \in stopping => r \in stopping'
      BY <2>2, <2>7
    <2> QED BY <1>5, <1>8, <2>1, <2>2, <2>3, <2>6, <2>8
            DEF Attended, TurnsStay, CallsStay, ComingStays
  <1>13. CASE ApplyDelete(u)
    <2>1. u.what = "delete" /\ UNCHANGED <<runs, turns, stopping>> /\ Return(u.call)
      BY <1>13 DEF ApplyDelete
    <2>2. \A d \in Calls : d # u.call => calls'[d] = calls[d]
      BY <1>0, <1>1, <2>1, Returns
    <2> QED BY <1>5, <1>7, <1>8, <2>1, <2>2, StaysAttended
  <1>14. CASE (u.what = "start" /\ DropUpdate(u))
    <2>1. /\ UNCHANGED <<runs, turns, stopping>>
          /\ \A d \in Calls : d # u.call => calls'[d] = calls[d]
      BY <1>14 DEF DropUpdate, persisted
    <2> QED BY <1>5, <1>7, <1>8, <1>14, <2>1, StaysAttended
  <1> QED BY <1>2, <1>9, <1>10, <1>11, <1>12, <1>13, <1>14

\* A step into an open store in which nothing has failed, other than a restart, is one
\* of such a store.
LEMMA OpenBefore ==
    ASSUME TypeInv, [Next]_vars, ~Restart, store' = "open", faults' = 0
    PROVE  store = "open" /\ faults = 0
  <1>0. faults \in Nat
    BY ConstantsOK DEF TypeInv, TypeOK
  <1>1. CASE RunUpdate
    <2> DEFINE u == Head(updates)
    <2>1. ASSUME \/ ApplyStart(u) \/ ApplyResult(u) \/ ApplyObserved(u)
                 \/ ApplyStop(u) \/ ApplyDelete(u)
          PROVE  UNCHANGED <<store, faults>>
      <3> HIDE DEF u
      <3>1. ApplyStart(u) => UNCHANGED <<store, faults>>
        BY DEF ApplyStart, CreateRun
      <3>2. ApplyResult(u) => UNCHANGED <<store, faults>>
        BY DEF ApplyResult
      <3>3. ApplyObserved(u) => UNCHANGED <<store, faults>>
        BY DEF ApplyObserved
      <3>4. ApplyStop(u) => UNCHANGED <<store, faults>>
        BY DEF ApplyStop
      <3>5. ApplyDelete(u) => UNCHANGED <<store, faults>>
        BY DEF ApplyDelete
      <3> QED BY <2>1, <3>1, <3>2, <3>3, <3>4, <3>5
    <2>2. DropUpdate(u) => UNCHANGED store
      BY DEF DropUpdate
    <2>3. \/ UNCHANGED <<store, faults>>
          \/ UNCHANGED store /\ faults' = faults + 1
      BY <1>1, <2>1, <2>2 DEF RunUpdate
    <2> QED BY <1>0, <2>3
  <1> QED BY <1>1 DEF Next, vars, BeginStart, BeginSend, BeginStop, BeginDelete, Provisioned,
           NotProvisioned, TurnStarts, AbandonTurn, TurnRefused, ApplyReady, ReadyTimesOut,
           ProcessesStopped, Disconnected, Ready, Exits, Observed, LostTurnExits,
           ChangeInstalled, AssignDevice, RequestShutdown, CloseStore

\* Every step keeps the running workflow runs attended.
LEMMA AttendanceStep ==
    TypeInv /\ AtMostOneOpenRun /\ StopsAreKnown /\ WorkIsAttended /\ [Next]_vars
        => WorkIsAttended'
  <1> SUFFICES ASSUME TypeInv, AtMostOneOpenRun, StopsAreKnown, WorkIsAttended, [Next]_vars,
                      store' = "open", faults' = 0, NEW r \in Runs, IsWorking(r)'
               PROVE  Attended(r)'
    BY DEF WorkIsAttended
  <1>1. ~Restart
    <2>1. ASSUME Restart
          PROVE  FALSE
      <3>1. runs'[r] = Repaired(r) /\ (runs[r] # NoRun => runs[r] \in RunRows)
        BY <2>1 DEF Restart, TypeInv, TypeOK
      <3> QED BY <3>1 DEF Repaired, IsWorking, RunRows
    <2> QED BY <2>1
  <1>2. store = "open" /\ faults = 0
    BY <1>1, OpenBefore
  <1>3. IsWorking(r) => Attended(r)
    BY <1>2 DEF WorkIsAttended
  <1>4. ASSUME UNCHANGED runs
        PROVE  IsWorking(r) /\ Attended(r)
    BY <1>3, <1>4 DEF IsWorking
  <1>5. CASE UNCHANGED <<runs, turns, calls, updates, stopping>>
    BY <1>4, <1>5 DEF Attended, StartsTurn, IsComing
  <1>6. ASSUME NEW c \in Calls, NEW w \in Workers,
               \/ \E kind \in Kinds : BeginStart(c, w, kind)
               \/ BeginSend(c, w) \/ BeginStop(c, w) \/ BeginDelete(c, w)
        PROVE  Attended(r)'
    BY <1>3, <1>6, RequestsAttend
  <1>7. ASSUME NEW c \in Calls,
               \/ Provisioned(c) \/ NotProvisioned(c)
               \/ \E t \in Turns : TurnStarts(c, t)
               \/ AbandonTurn(c) \/ TurnRefused(c)
               \/ ApplyReady(c) \/ ReadyTimesOut(c)
               \/ ProcessesStopped(c) \/ Disconnected(c)
        PROVE  Attended(r)'
    <2>1. UNCHANGED runs
      BY <1>7 DEF Provisioned, NotProvisioned, TurnStarts, AbandonTurn, TurnRefused,
                  ApplyReady, ReadyTimesOut, ProcessesStopped, Disconnected, persisted
    <2> QED BY <1>2, <1>4, <1>7, <2>1, CallsAttend
  <1>8. ASSUME NEW t \in Turns,
               \/ \E result \in Results : Ready(t, result) \/ Exits(t, result)
               \/ Observed(t) \/ LostTurnExits(t)
        PROVE  Attended(r)'
    <2>1. UNCHANGED runs
      BY <1>8 DEF Ready, Exits, Observed, LostTurnExits, persisted
    <2> QED BY <1>2, <1>4, <1>8, <2>1, TurnsAttend
  <1>9. CASE RunUpdate
    BY <1>2, <1>3, <1>9, UpdatesAttend
  <1>10. ASSUME NEW w \in Workers, ChangeInstalled(w) \/ \E v \in Workers : AssignDevice(w, v)
         PROVE  Attended(r)'
    BY <1>5, <1>10 DEF ChangeInstalled, AssignDevice
  <1>11. ~RequestShutdown /\ ~CloseStore
    BY DEF RequestShutdown, CloseStore
  <1>12. CASE Next
    BY <1>1, <1>6, <1>7, <1>8, <1>9, <1>10, <1>11, <1>12 DEF Next
  <1> QED BY <1>5, <1>12 DEF vars, persisted

\* While nothing fails, a workflow run shown as running has someone behind it: a turn that
\* is being started or runs, a result on its way, a stop, or a result that left it running
\* (startWorker, sendCommand, stopWorker, trackHermesRun and the updates they queue).
THEOREM RunningWorkStaysAttended == Spec => []RunningWorkIsAttended
  <1>1. Init => StopsAreKnown /\ WorkIsAttended
    <2>1. Init => WorkIsAttended
      BY DEF Init, WorkIsAttended, IsWorking
    <2>2. Init => StopsAreKnown
      <3>1. Init => \A c \in Calls : calls[c] = Idle
        BY DEF Init
      <3>2. Init => \A i \in DOMAIN updates : FALSE
        <4>1. \A i \in DOMAIN << >> : FALSE
          OBVIOUS
        <4> QED BY <4>1 DEF Init
      <3> QED BY <3>1, <3>2 DEF StopsAreKnown, StopOK
    <2> QED BY <2>1, <2>2
  <1>2. ASSUME TypeInv, WorkIsAttended, store = "open", faults = 0, NEW r \in Runs, IsWorking(r)
        PROVE  \/ \E c \in Calls :
                     calls[c] # Idle /\ calls[c].run = r /\ calls[c].at = "starting turn"
               \/ \E t \in TurnsOf(r) :
                     (Tracked(t) /\ turns[t].alive) \/ turns[t].last = "running"
               \/ PendingFor(r)
               \/ r \in stopping
    <2>1. Attended(r)
      BY <1>2 DEF WorkIsAttended
    <2>2. ASSUME NEW t \in Turns, StandsBehind(turns[t], r)
          PROVE  /\ t \in TurnsOf(r)
                 /\ (Tracked(t) /\ turns[t].alive) \/ turns[t].last = "running"
      BY <2>2 DEF StandsBehind, TurnsOf, Tracked
    <2> QED BY <2>1, <2>2 DEF Attended, StartsTurn, IsComing, Settles, PendingFor
  <1>3. TypeInv /\ WorkIsAttended => RunningWorkIsAttended
    BY <1>2 DEF RunningWorkIsAttended, IsWorking
  <1> QED BY <1>1, <1>3, AttendanceStep, StopsStep, TypeInvCorrect, OneOpenRunInv, PTL
          DEF Spec
================================================================================
