------------------------ MODULE BatchingEngineProofs ------------------------
(***************************************************************************)
(* Two facts about the server's worker, for every set of requests, every   *)
(* batch size and every pool: the handler that pause() lets through has    *)
(* the engine for itself, and no request is lost or answered twice.        *)
(* Neither depends on what Engine::step() does with the engine: the        *)
(* operators of EngineStep stay unexpanded.                                *)
(***************************************************************************)
EXTENDS BatchingEngine, TLAPS

Flags == [running : BOOLEAN, stop : BOOLEAN, pause : BOOLEAN, paused : BOOLEAN]

(* The handshake between pause()/resume()/stop() and the worker.  paused_ is *)
(* only ever true of a parked worker, and a worker parked for a handler that *)
(* still asks for the pause stays parked.                                    *)
HandshakeInv ==
  /\ flags \in Flags
  /\ flags.paused => worker \in {"checked", "blocked"}
  /\ admin \in {"pausing", "exclusive"} => flags.pause
  /\ admin \in {"idle", "pausing", "exclusive"} => flags.running /\ ~flags.stop
  /\ admin = "exclusive" => worker \in {"checked", "blocked"}

LEMMA HandshakeInit == Init => HandshakeInv
BY DEF Init, HandshakeInv, Flags

(* Every action keeps the handshake when step() cannot poison the CUDA      *)
(* context: that fault sets stop_requested_ from inside the catch block,    *)
(* which lets a waiting pause() through before the worker is gone.          *)
LEMMA HandshakeStep ==
  ASSUME "cuda" \notin Faults, HandshakeInv, [Next]_vars
  PROVE  HandshakeInv'
<1> USE DEF HandshakeInv, Flags
<1>1. CASE LoopHead
  BY <1>1 DEF LoopHead
<1>2. CASE ParkOrWake
  BY <1>2 DEF ParkOrWake, PauseOver
<1>3. CASE Sleep
  BY <1>3 DEF Sleep
<1>4. CASE Intake
  BY <1>4 DEF Intake
<1>5. CASE Look
  BY <1>5 DEF Look
<1>6. CASE FreeCancelled
  BY <1>6 DEF FreeCancelled
<1>7. CASE StepEngine
  BY <1>7 DEF StepEngine
<1>8. CASE StepThrows
  <2>1. PICK fault \in Faults : flags' = [flags EXCEPT !.stop = @ \/ fault = "cuda"]
    BY <1>8 DEF StepThrows
  <2>2. fault # "cuda"
    OBVIOUS
  <2>3. flags' = flags
    BY <2>1, <2>2
  <2> QED
    BY <1>8, <2>3 DEF StepThrows
<1>9. CASE Cleanup
  BY <1>9 DEF Cleanup
<1>10. CASE Deliver
  BY <1>10 DEF Deliver
<1>11. CASE PauseReturns
  BY <1>11 DEF PauseReturns, Parked
<1>12. CASE PauseTimesOut
  BY <1>12 DEF PauseTimesOut
<1>13. CASE Resume
  BY <1>13 DEF Resume
<1>14. CASE Joined
  BY <1>14 DEF Joined
<1>15. CASE Start
  BY <1>15 DEF Start
<1>16. CASE Pause
  BY <1>16 DEF Pause
<1>17. CASE Stop
  BY <1>17 DEF Stop
<1>18. ASSUME NEW r \in Req, Submit(r) \/ Cancel(r)
       PROVE  HandshakeInv'
  BY <1>18 DEF Submit, Cancel
<1>19. CASE UNCHANGED vars
  BY <1>19 DEF vars
<1> QED
  BY <1>1, <1>2, <1>3, <1>4, <1>5, <1>6, <1>7, <1>8, <1>9, <1>10, <1>11, <1>12, <1>13,
     <1>14, <1>15, <1>16, <1>17, <1>18, <1>19 DEF Next, Worker, Admin

(* ExclusiveAccess: while a handler has the engine from pause(), the worker *)
(* is parked on pause_cv_, in every interleaving with submissions,          *)
(* cancellations, steps that throw, timed-out pauses and stops.             *)
THEOREM PauseIsExclusive ==
  ASSUME "cuda" \notin Faults
  PROVE  Spec => []ExclusiveAccess
<1>1. Init => HandshakeInv
  BY HandshakeInit
<1>2. HandshakeInv /\ [Next]_vars => HandshakeInv'
  BY HandshakeStep
<1>3. HandshakeInv => ExclusiveAccess
  BY DEF HandshakeInv, ExclusiveAccess
<1> QED
  BY <1>1, <1>2, <1>3, PTL DEF Spec

-----------------------------------------------------------------------------
(* The requests that still wait for their answer.  During the catch block   *)
(* the active ones have had it, and are cleared last.                       *)
Waiting == IF worker = "cleanup" THEN queue ELSE queue \cup active

(* The inductive form of AnsweredOnce: whoever waits is submitted and has   *)
(* no finish event, and conversely; no request is queued and active; and    *)
(* no worker runs once stop() has returned.                                 *)
LedgerInv ==
  /\ queue \in SUBSET Req /\ active \in SUBSET submitted /\ submitted \in SUBSET Req
  /\ queue \cap active = {}
  /\ finish \in [Req -> Seq(Reasons)]
  /\ \A r \in Req : Len(finish[r]) <= 1
  /\ \A r \in Req : r \in Waiting <=> (r \in submitted /\ finish[r] = <<>>)
  /\ \A r \in Req \ submitted : finish[r] = <<>>
  /\ admin = "stopped" => worker = "exited"

(* push_finish on a request that has no finish event yet.                   *)
LEMMA FirstEvent ==
  ASSUME NEW s \in Seq(Reasons), s = <<>>, NEW x \in Reasons
  PROVE  /\ Append(s, x) \in Seq(Reasons)
         /\ Len(Append(s, x)) = 1
         /\ Append(s, x) # <<>>
OBVIOUS

(* Answering waiting requests S keeps the shape of finish, whatever the     *)
(* reasons w are.                                                           *)
LEMMA AnswerWaiting ==
  ASSUME LedgerInv, NEW S \in SUBSET Waiting, NEW w, \A r \in S : w[r] \in Reasons,
         finish' = [r \in Req |-> IF r \in S THEN Append(finish[r], w[r]) ELSE finish[r]]
  PROVE  /\ finish' \in [Req -> Seq(Reasons)]
         /\ \A r \in Req : Len(finish'[r]) <= 1
         /\ \A r \in Req : finish'[r] = <<>> <=> (finish[r] = <<>> /\ r \notin S)
<1>1. \A r \in S : r \in Req /\ finish[r] = <<>>
  BY DEF LedgerInv, Waiting
<1>2. \A r \in Req : finish[r] \in Seq(Reasons)
  BY DEF LedgerInv
<1>3. \A r \in S : /\ Append(finish[r], w[r]) \in Seq(Reasons)
                   /\ Len(Append(finish[r], w[r])) = 1
                   /\ Append(finish[r], w[r]) # <<>>
  BY <1>1, <1>2, FirstEvent
<1>4. \A r \in Req : finish'[r] = IF r \in S THEN Append(finish[r], w[r]) ELSE finish[r]
  OBVIOUS
<1>5. \A r \in Req : finish'[r] \in Seq(Reasons) /\ Len(finish'[r]) <= 1
  BY <1>2, <1>3, <1>4 DEF LedgerInv
<1>6. \A r \in Req : finish'[r] = <<>> <=> (finish[r] = <<>> /\ r \notin S)
  BY <1>3, <1>4
<1> QED
  BY <1>5, <1>6

LEMMA LedgerInit == Init => LedgerInv
<1>1. <<>> \in Seq(Reasons) /\ Len(<<>>) = 0
  OBVIOUS
<1> QED
  BY <1>1 DEF Init, LedgerInv, Waiting

(* Steps that leave the ledger alone: it changes only where a request is    *)
(* submitted, taken in, delivered, thrown out or stopped.                   *)
LEMMA LedgerKept ==
  ASSUME LedgerInv, UNCHANGED <<queue, active, submitted, finish>>,
         worker' = "cleanup" <=> worker = "cleanup",
         admin' = "stopped" => worker' = "exited"
  PROVE  LedgerInv'
BY DEF LedgerInv, Waiting

(* Every action keeps the ledger, step() throwing in any way included.      *)
LEMMA LedgerStep ==
  ASSUME LedgerInv, [Next]_vars
  PROVE  LedgerInv'
<1>1. CASE LoopHead \/ ParkOrWake \/ Sleep \/ Look \/ FreeCancelled \/ StepEngine
  <2>1. UNCHANGED <<queue, active, submitted, finish, admin>> /\ worker # "cleanup"
        /\ worker' # "cleanup" /\ worker # "exited"
    BY <1>1 DEF LoopHead, ParkOrWake, Sleep, Look, FreeCancelled, StepEngine, client
  <2> QED
    BY <2>1, LedgerKept DEF LedgerInv
<1>2. CASE PauseReturns \/ PauseTimesOut \/ Resume \/ Pause \/ Stop
  <2>1. UNCHANGED <<queue, active, submitted, finish, worker>> /\ admin' # "stopped"
    BY <1>2 DEF PauseReturns, PauseTimesOut, Resume, Pause, Stop, client
  <2> QED
    BY <2>1, LedgerKept
<1>3. CASE Start
  <2>1. UNCHANGED <<queue, active, submitted, finish>> /\ worker = "exited"
        /\ worker' = "top" /\ admin' = "idle"
    BY <1>3 DEF Start, client, LedgerInv
  <2> QED
    BY <2>1, LedgerKept
<1>4. CASE Intake
  <2>1. /\ worker = "intake" /\ worker' \in {"look", "exited", "top"} /\ admin' = admin
    BY <1>4 DEF Intake
  <2>2. CASE UNCHANGED <<queue, active, client>>
    BY <2>1, <2>2, LedgerKept DEF client, LedgerInv
  <2>3. CASE ~UNCHANGED <<queue, active, client>>
    <3> DEFINE bad == queue \cap Undecodable
               w == [r \in bad |-> "image_encode_failed"]
    <3>1. /\ queue' = {} /\ active' = active \cup (queue \ bad) /\ submitted' = submitted
      BY <1>4, <2>3 DEF Intake, Answer
    <3>2. finish' = [r \in Req |-> IF r \in bad THEN Append(finish[r], w[r]) ELSE finish[r]]
      BY <1>4, <2>3 DEF Intake, Answer
    <3>3. bad \in SUBSET Waiting /\ \A r \in bad : w[r] \in Reasons
      BY <2>1 DEF Waiting, Reasons
    <3>4. /\ finish' \in [Req -> Seq(Reasons)]
          /\ \A r \in Req : Len(finish'[r]) <= 1
          /\ \A r \in Req : finish'[r] = <<>> <=> (finish[r] = <<>> /\ r \notin bad)
      <4> HIDE DEF w, bad
      <4> QED
        BY <3>2, <3>3, AnswerWaiting
    <3>5. queue \subseteq submitted /\ admin' # "stopped"
      BY <2>1 DEF LedgerInv, Waiting
    <3> QED
      BY <2>1, <3>1, <3>4, <3>5 DEF LedgerInv, Waiting
  <2> QED
    BY <2>2, <2>3
<1>5. CASE StepThrows
  <2> DEFINE w == [r \in active |-> "internal_error"]
  <2>1. /\ worker = "step" /\ worker' = "cleanup" /\ admin' = admin
        /\ UNCHANGED <<queue, active, submitted>>
    BY <1>5 DEF StepThrows, Answer
  <2>2. finish' = [r \in Req |-> IF r \in active THEN Append(finish[r], w[r]) ELSE finish[r]]
    BY <1>5 DEF StepThrows, Answer
  <2>3. active \in SUBSET Waiting /\ \A r \in active : w[r] \in Reasons
    BY <2>1 DEF Waiting, Reasons
  <2>4. /\ finish' \in [Req -> Seq(Reasons)]
        /\ \A r \in Req : Len(finish'[r]) <= 1
        /\ \A r \in Req : finish'[r] = <<>> <=> (finish[r] = <<>> /\ r \notin active)
    <3> HIDE DEF w
    <3> QED
      BY <2>2, <2>3, AnswerWaiting
  <2> QED
    BY <2>1, <2>4 DEF LedgerInv, Waiting
<1>6. CASE Cleanup
  <2>1. /\ worker = "cleanup" /\ worker' = "top" /\ admin' = admin
        /\ UNCHANGED <<queue, submitted, finish>> /\ active' = {}
    BY <1>6 DEF Cleanup, client
  <2> QED
    BY <2>1 DEF LedgerInv, Waiting
<1>7. CASE Deliver
  <2> DEFINE done == {r \in active : eng.status[r] \in Over}
             w == eng.status
  <2>1. /\ worker = "deliver" /\ worker' = "top" /\ admin' = admin
        /\ UNCHANGED <<queue, submitted>> /\ active' = active \ done
    BY <1>7 DEF Deliver, DeliverAll, Answer
  <2>2. finish' = [r \in Req |-> IF r \in done THEN Append(finish[r], w[r]) ELSE finish[r]]
    BY <1>7 DEF Deliver, DeliverAll, Answer
  <2>3. done \in SUBSET Waiting /\ done \in SUBSET active /\ \A r \in done : w[r] \in Reasons
    BY <2>1 DEF Waiting, Reasons
  <2>4. /\ finish' \in [Req -> Seq(Reasons)]
        /\ \A r \in Req : Len(finish'[r]) <= 1
        /\ \A r \in Req : finish'[r] = <<>> <=> (finish[r] = <<>> /\ r \notin done)
    <3> HIDE DEF w, done
    <3> QED
      BY <2>2, <2>3, AnswerWaiting
  <2> HIDE DEF w, done
  <2> QED
    BY <2>1, <2>3, <2>4 DEF LedgerInv, Waiting
<1>8. CASE Joined
  <2> DEFINE all == queue \cup active
             w == [r \in all |-> "cancelled"]
  <2>1. /\ worker = "exited" /\ worker' = "exited"
        /\ submitted' = submitted /\ active' = {} /\ queue' = {}
    BY <1>8 DEF Joined, Answer, Unanswered
  <2>2. finish' = [r \in Req |-> IF r \in all THEN Append(finish[r], w[r]) ELSE finish[r]]
    BY <1>8 DEF Joined, Answer, Unanswered
  <2>3. all \in SUBSET Waiting /\ Waiting = all /\ \A r \in all : w[r] \in Reasons
    BY <2>1 DEF Waiting, Reasons
  <2>4. /\ finish' \in [Req -> Seq(Reasons)]
        /\ \A r \in Req : Len(finish'[r]) <= 1
        /\ \A r \in Req : finish'[r] = <<>> <=> (finish[r] = <<>> /\ r \notin all)
    <3> HIDE DEF w, all
    <3> QED
      BY <2>2, <2>3, AnswerWaiting
  <2> QED
    BY <2>1, <2>4 DEF LedgerInv, Waiting
<1>9. ASSUME NEW r \in Req, Submit(r)
      PROVE  LedgerInv'
  <2>1. /\ r \notin submitted /\ submitted' = submitted \cup {r} /\ queue' = queue \cup {r}
        /\ UNCHANGED <<worker, admin, active, finish>>
    BY <1>9 DEF Submit
  <2>2. r \notin active /\ finish[r] = <<>>
    BY <2>1 DEF LedgerInv
  <2> QED
    BY <2>1, <2>2 DEF LedgerInv, Waiting
<1>10. ASSUME NEW r \in Req, Cancel(r)
       PROVE  LedgerInv'
  BY <1>10, LedgerKept DEF Cancel, LedgerInv
<1>11. CASE UNCHANGED vars
  BY <1>11, LedgerKept DEF vars, client, LedgerInv
<1> QED
  BY <1>1, <1>2, <1>3, <1>4, <1>5, <1>6, <1>7, <1>8, <1>9, <1>10, <1>11
  DEF Next, Worker, Admin

(* AnsweredOnce: a request that submit() accepted is queued or active until *)
(* exactly one of delivery, cancellation, a failed image, the catch block   *)
(* and stop() answers it, and none of them answers it again.                *)
THEOREM RequestsAnsweredOnce == Spec => []AnsweredOnce
<1>1. Init => LedgerInv
  BY LedgerInit
<1>2. LedgerInv /\ [Next]_vars => LedgerInv'
  BY LedgerStep
<1>3. LedgerInv => AnsweredOnce
  BY DEF LedgerInv, Waiting, AnsweredOnce
<1> QED
  BY <1>1, <1>2, <1>3, PTL DEF Spec
=============================================================================
