--------------------------- MODULE BatchingEngine ---------------------------
(***************************************************************************)
(* tools/quench-server/batching_engine.{h,cpp}: the worker thread that     *)
(* steps the engine, the HTTP handlers that submit, cancel and wait for    *)
(* requests, and the handlers that need the engine for themselves (model   *)
(* swap, suspend, embeddings) and pause or stop the worker under           *)
(* state.mtx.                                                              *)
(*                                                                         *)
(* worker is the point the worker thread has reached:                      *)
(*   top      loop head            park     about to take pause_mutex_     *)
(*   checked  waiting condition evaluated, pause_mutex_ still held         *)
(*   blocked  waiting on pause_cv_ intake   about to drain the queue       *)
(*   look     first cancel loop    free     second cancel loop             *)
(*   step     Engine::step()       cleanup  end of the catch block         *)
(*   deliver  hand out the tokens  exited   thread function returned       *)
(* admin is the same for the one handler that holds state.mtx:             *)
(*   idle, pausing, exclusive (pause() returned true), joining (in stop()),*)
(*   stopped (no worker; state.mtx is free again)                          *)
(***************************************************************************)
EXTENDS EngineStep

CONSTANTS Cancellable,  \* requests whose client may go away
          Undecodable,  \* requests whose image fails to encode
          AdminOps,     \* subset of {"pause", "timeout", "stop"}
          Faults,       \* what step() may throw: subset of {"host", "cuda"}
          MaxPauses     \* bound on the calls of pause()

ASSUME ServerAssumption ==
  /\ Cancellable \subseteq Req /\ Undecodable \subseteq Req
  /\ AdminOps \subseteq {"pause", "timeout", "stop"}
  /\ Faults \subseteq {"host", "cuda"}
  /\ MaxPauses \in Nat

VARIABLES worker, admin,
          flags,     \* the atomics running_, stop_requested_, pause_requested_, paused_
          woken,     \* pause_cv_ was notified while the worker was blocked on it
          queue,     \* pending_queue_
          active,    \* active_requests_
          submitted, \* requests that submit() accepted
          cancelled, \* requests whose handler called cancel()
          notified,  \* Req -> notified_count, the tokens pushed so far
          finish,    \* Req -> the finish events pushed
          eng,       \* the engine
          pauses     \* calls of pause() so far, for the bound

client == <<submitted, cancelled, notified, finish>>
vars == <<worker, admin, flags, woken, queue, active, client, eng, pauses>>

Init ==
  /\ worker = "top" /\ admin = "idle" /\ woken = FALSE
  /\ flags = [running |-> TRUE, stop |-> FALSE, pause |-> FALSE, paused |-> FALSE]
  /\ queue = {} /\ active = {}
  /\ submitted = {} /\ cancelled = {}
  /\ notified = [r \in Req |-> 0] /\ finish = [r \in Req |-> <<>>]
  /\ eng = InitEngine /\ pauses = 0

\* push_finish, or the last push_token, for the requests S.
Answer(S, reason) ==
  /\ finish' = [r \in Req |-> IF r \in S THEN Append(finish[r], reason[r]) ELSE finish[r]]
  /\ UNCHANGED <<submitted, cancelled>>

\* cancel() was called for r and r is not over.
ToCancel(r) == r \in cancelled /\ eng.status[r] \notin Over

-----------------------------------------------------------------------------
\* HTTP handlers.  submit() runs under state.mtx, for a running engine.
Submit(r) ==
  /\ admin \in {"idle", "stopped"} /\ flags.running
  /\ r \notin submitted
  /\ queue' = queue \cup {r}
  /\ submitted' = submitted \cup {r}
  /\ UNCHANGED <<worker, admin, flags, woken, active, cancelled, notified, finish, eng, pauses>>

\* The client disconnects, or its request times out, before the answer.
Cancel(r) ==
  /\ r \in (Cancellable \cap submitted) \ cancelled /\ finish[r] = <<>>
  /\ cancelled' = cancelled \cup {r}
  /\ UNCHANGED <<worker, admin, flags, woken, queue, active, submitted, notified, finish, eng, pauses>>

-----------------------------------------------------------------------------
\* worker_loop, step 0.
LoopHead ==
  /\ worker = "top"
  /\ worker' = IF flags.stop THEN "exited"
               ELSE IF flags.pause /\ active = {} THEN "park" ELSE "intake"
  /\ UNCHANGED <<admin, flags, woken, queue, active, client, eng, pauses>>

\* The parked worker goes on when the pause is over.
PauseOver == ~flags.pause \/ flags.stop

\* Take pause_mutex_, report paused_, evaluate the wait predicate; or wake up
\* from the wait and evaluate it again.
ParkSilently ==
  /\ worker = "park" \/ (worker = "blocked" /\ woken)
  /\ worker' = IF PauseOver THEN "top" ELSE "checked"
  /\ woken' = FALSE
  /\ UNCHANGED <<admin, flags, queue, active, client, eng, pauses>>
ParkOrWake ==
  /\ worker = "park" \/ (worker = "blocked" /\ woken)
  /\ worker' = IF PauseOver THEN "top" ELSE "checked"
  /\ flags' = [flags EXCEPT !.paused = ~PauseOver]
  /\ woken' = FALSE
  /\ UNCHANGED <<admin, queue, active, client, eng, pauses>>

\* The wait releases pause_mutex_ and sleeps.
Sleep ==
  /\ worker = "checked" /\ worker' = "blocked"
  /\ UNCHANGED <<admin, flags, woken, queue, active, client, eng, pauses>>

\* Step 1, under queue_mutex_.  The wait for work times out after 10 ms.
Intake ==
  /\ worker = "intake"
  /\ IF flags.pause \/ (active = {} /\ queue = {})
     THEN /\ worker' = IF active # {} THEN "look"
                       ELSE IF queue = {} /\ flags.stop THEN "exited" ELSE "top"
          /\ UNCHANGED <<queue, active, client, eng>>
     ELSE LET bad == queue \cap Undecodable
              e1  == AddRequest(SetStatus(eng, bad, "CANCELLED"), queue \ bad)
          IN  /\ queue' = {}
              /\ active' = active \cup (queue \ bad)
              /\ eng' = e1
              /\ Answer(bad, [r \in bad |-> "image_encode_failed"]) /\ UNCHANGED notified
              /\ worker' = IF active' = {} THEN "top" ELSE "look"
  /\ UNCHANGED <<admin, flags, woken, pauses>>

\* Step 2.  A cancelled request makes the worker collect the step in flight ...
Look ==
  /\ worker = "look" /\ worker' = "free"
  /\ IF \E r \in active : ToCancel(r) THEN eng' \in Drained(eng) ELSE UNCHANGED eng
  /\ UNCHANGED <<admin, flags, woken, queue, active, client, pauses>>

\* ... and then frees the blocks of those that are not over.
KeepBlocks(S)  == eng' = SetStatus(eng, S, "CANCELLED")
FreeBlocks(S)  == eng' = Free(SetStatus(eng, S, "CANCELLED"), S)

FreeCancelled ==
  /\ worker = "free" /\ worker' = "step"
  /\ FreeBlocks({r \in active : ToCancel(r)})
  /\ UNCHANGED <<admin, flags, woken, queue, active, client, pauses>>

\* Step 3.
StepEngine ==
  /\ worker = "step" /\ worker' = "deliver"
  /\ eng' \in StepResults(eng)
  /\ UNCHANGED <<admin, flags, woken, queue, active, client, pauses>>

\* step() throws: every active request is cancelled and answered, and a poisoned
\* CUDA context stops the worker.
StepThrows ==
  /\ worker = "step" /\ worker' = "cleanup"
  /\ \E fault \in Faults, e \in ThrowStates(eng) :
       LET live == {r \in active : e.status[r] \notin Over}
       IN  /\ eng' = Free(SetStatus(e, live, "CANCELLED"), live)
           /\ flags' = [flags EXCEPT !.stop = @ \/ fault = "cuda"]
  /\ Answer(active, [r \in active |-> "internal_error"])
  /\ UNCHANGED <<admin, woken, queue, active, notified, pauses>>

Cleanup ==
  /\ worker = "cleanup" /\ worker' = "top"
  /\ eng' = Abandoned(eng)
  /\ active' = {}
  /\ UNCHANGED <<admin, flags, woken, queue, client, pauses>>

\* Step 4: new tokens, then the finish event of the requests that are over.
DeliverLive ==
  LET done == {r \in active : eng.status[r] \in Over}
  IN  /\ notified' = [r \in Req |-> IF r \in active \ done THEN eng.out[r] ELSE notified[r]]
      /\ Answer(done, eng.status)
      /\ active' = active \ done
DeliverAll ==
  LET done == {r \in active : eng.status[r] \in Over}
  IN  /\ notified' = [r \in Req |-> IF r \in active THEN eng.out[r] ELSE notified[r]]
      /\ Answer(done, eng.status)
      /\ active' = active \ done

Deliver ==
  /\ worker = "deliver" /\ worker' = "top"
  /\ DeliverAll
  /\ UNCHANGED <<admin, flags, woken, queue, eng, pauses>>

-----------------------------------------------------------------------------
\* pause(): returns at once when nothing runs.
Pause ==
  /\ "pause" \in AdminOps /\ admin = "idle" /\ pauses < MaxPauses
  /\ admin' = "pausing" /\ pauses' = pauses + 1
  /\ flags' = [flags EXCEPT !.pause = TRUE]
  /\ UNCHANGED <<worker, woken, queue, active, client, eng>>

\* The predicate pause() waits for, evaluated under pause_mutex_.
NoWait == TRUE
Parked == flags.paused \/ ~flags.running \/ flags.stop

PauseReturns ==
  /\ admin = "pausing" /\ worker # "checked"
  /\ Parked
  /\ admin' = "exclusive"
  /\ UNCHANGED <<worker, flags, woken, queue, active, client, eng, pauses>>

PauseTimesOut ==
  /\ "timeout" \in AdminOps
  /\ admin = "pausing" /\ worker # "checked"
  /\ ~Parked
  /\ admin' = "idle"
  /\ flags' = [flags EXCEPT !.pause = FALSE]
  /\ UNCHANGED <<worker, woken, queue, active, client, eng, pauses>>

\* resume()
Resume ==
  /\ admin = "exclusive" /\ admin' = "idle"
  /\ flags' = [flags EXCEPT !.pause = FALSE]
  /\ woken' = (worker = "blocked")
  /\ UNCHANGED <<worker, queue, active, client, eng, pauses>>

\* stop(), up to the join: a model swap or shutdown, or a suspend that holds the
\* engine.
Stop ==
  /\ "stop" \in AdminOps /\ admin \in {"idle", "exclusive"} /\ flags.running
  /\ admin' = "joining"
  /\ flags' = [flags EXCEPT !.stop = TRUE]
  /\ woken' = (worker = "blocked")
  /\ UNCHANGED <<worker, queue, active, client, eng, pauses>>

\* Requests that stop() answers after the join.
QueuedOnly == queue
Unanswered == queue \cup active

Joined ==
  /\ admin = "joining" /\ worker = "exited"
  /\ admin' = "stopped"
  /\ flags' = [flags EXCEPT !.running = FALSE]
  /\ Answer(Unanswered, [r \in Unanswered |-> "cancelled"])
  /\ queue' = {} /\ active' = {}
  /\ UNCHANGED <<worker, woken, notified, eng, pauses>>

\* start() with the engine of the next model.
Start ==
  /\ admin = "stopped"
  /\ admin' = "idle" /\ worker' = "top" /\ woken' = FALSE
  /\ flags' = [running |-> TRUE, stop |-> FALSE, pause |-> FALSE, paused |-> FALSE]
  /\ eng' = [InitEngine EXCEPT !.status = eng.status, !.out = eng.out]
  /\ UNCHANGED <<queue, active, client, pauses>>

-----------------------------------------------------------------------------
Worker == LoopHead \/ ParkOrWake \/ Sleep \/ Intake \/ Look \/ FreeCancelled
          \/ StepEngine \/ StepThrows \/ Cleanup \/ Deliver
Admin  == PauseReturns \/ PauseTimesOut \/ Resume \/ Joined \/ Start
Next   == Worker \/ Admin \/ Pause \/ Stop \/ \E r \in Req : Submit(r) \/ Cancel(r)

Spec == Init /\ [][Next]_vars

\* The OS schedules the worker thread, and the handler that holds state.mtx ends
\* its work; nothing says that clients or administrators act.
FairSpec == Spec /\ WF_vars(Worker) /\ WF_vars(Admin)

-----------------------------------------------------------------------------
Reasons == Over \cup {"image_encode_failed", "internal_error", "cancelled"}

TypeOK ==
  /\ worker \in {"top", "park", "checked", "blocked", "intake", "look", "free", "step",
                 "cleanup", "deliver", "exited"}
  /\ admin \in {"idle", "pausing", "exclusive", "joining", "stopped"}
  /\ flags \in [running : BOOLEAN, stop : BOOLEAN, pause : BOOLEAN, paused : BOOLEAN]
  /\ woken \in BOOLEAN /\ pauses \in 0 .. MaxPauses
  /\ queue \in SUBSET Req /\ active \in SUBSET Req
  /\ submitted \in SUBSET Req /\ cancelled \in SUBSET submitted
  /\ \A r \in Req : /\ notified[r] \in 0 .. MaxTokens
                    /\ finish[r] \in Seq(Reasons)
                    /\ eng.status[r] \in {"NEW", "PENDING", "PREFILLING", "DECODING"} \cup Over
                    /\ eng.out[r] \in 0 .. MaxTokens
                    /\ eng.kv[r] \in 0 .. TotalBlocks

\* Every accepted request is answered once: until its finish event is pushed it
\* is queued or active, afterwards it is neither, and no second event follows.
\* All paths that end a request (delivery, cancellation, a failed image, a throw,
\* stop()) share this duty.
AnsweredOnce ==
  \A r \in Req :
    /\ Len(finish[r]) <= 1
    /\ worker # "cleanup" => ((r \in submitted /\ finish[r] = <<>>) <=> r \in queue \cup active)

\* The finish event of a completed request comes after all of its tokens.
NothingUndelivered ==
  \A r \in Req : finish[r] = <<"FINISHED">> => notified[r] = eng.out[r]

\* schedule() chooses r again.
Rescheduled(r) ==
  /\ r \in eng.active
  /\ eng.status[r] = "DECODING" \/ (eng.status[r] = "PREFILLING" /\ eng.offset[r] > 0)

\* A promoted request that lost its step to a throw before its first chunk, which
\* schedule() passes over from then on.
Stranded(r) == eng.status[r] = "PREFILLING" /\ eng.offset[r] = 0

\* Whichever way a request ends (delivery, cancellation, a throw anywhere in a
\* step), its blocks go back to the pool, which is never overcommitted: blocks
\* are held for a request that somebody waits for and the next step goes on
\* with, or for one whose release waits for the step in flight.  The exception is
\* a request that was cancelled and answered while the scheduler had it pending:
\* it is promoted all the same and runs with no owner, or is stranded if that step
\* throws, because the catch block cancels active_requests_ only.  A stopped
\* engine is discarded with its pool.
BlocksAccounted ==
  /\ Used(eng) <= TotalBlocks
  /\ admin # "stopped" => \A r \in Req : eng.kv[r] > 0 =>
       \/ r \in active /\ Rescheduled(r)
       \/ r \in eng.deferred /\ (eng.rows # {} \/ worker = "cleanup")
       \/ r \in cancelled \ active /\ (Rescheduled(r) \/ Stranded(r))

\* "the in-flight forward never writes freed blocks": a row of the step in flight
\* has its block table.
InFlightHoldsBlocks == \A r \in eng.rows : eng.kv[r] > 0

\* "without racing the worker": while pause() gives its caller the engine, the
\* worker is parked or gone.
ExclusiveAccess == admin = "exclusive" => worker \in {"checked", "blocked", "exited"}

\* "Drain so nothing leaks while the engine idles": when the worker parks because
\* it has nothing left to do, no step is in flight and no release is deferred.
ParkedIsDrained == worker = "blocked" => eng.rows = {} /\ eng.deferred = {}

\* step_decode cancels a request when "the free pool AND all reclaimable cached
\* blocks are empty", and otherwise a request is over once it has its tokens: one
\* that nobody cancelled and that has all of them is not CANCELLED.
CompleteIsFinished ==
  \A r \in Req : eng.status[r] = "CANCELLED" /\ r \notin cancelled => eng.out[r] < MaxTokens

\* A cancelled request does not run.
CancelledStaysCancelled ==
  [][\A r \in Req : eng.status[r] = "CANCELLED" => eng'.status[r] = "CANCELLED"]_vars

\* "The request will be picked up by the worker on the next iteration": every
\* request that submit() accepts is answered.
EveryRequestAnswered == \A r \in Req : r \in submitted ~> finish[r] # <<>>

\* "pause() lets the worker FINISH all in-flight requests, then parks the worker":
\* a pause without time limit succeeds.
PauseSucceeds == admin = "pausing" ~> admin = "exclusive"

\* "resume() unparks it."
ResumeUnparks == (worker = "blocked" /\ ~flags.pause) ~> worker # "blocked"
=============================================================================
