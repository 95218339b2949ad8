---------------------------- MODULE FramesProofs ----------------------------
(***************************************************************************)
(* Proofs about Frames, for every number of workers and parts: the         *)
(* invariant of FramesInv is inductive, and so a write that succeeds is    *)
(* complete (OkIsComplete), every failure is reported                      *)
(* (FailuresAreReported), what is held back and what the walk does after a *)
(* failure is bounded (BacklogIsBounded, WalkStopsSoon), and the           *)
(* pipeline's steps are steps of FrameStream.                              *)
(***************************************************************************)
EXTENDS FramesInv, SequenceTheorems, FiniteSetTheorems, TLAPS

-----------------------------------------------------------------------------
(* Types.                                                                  *)

MessageType == [ok : BOOLEAN, part : Nat]

LEMMA MessageTypes ==
    /\ \A p \in Nat : Part(p) \in MessageType
    /\ Failure \in MessageType
  BY DEF Part, Failure, MessageType

LEMMA TypeInit == Init => TypeOK
<1> SUFFICES ASSUME Init PROVE TypeOK
  OBVIOUS
<1> USE DEF Init
<1>1. /\ jobs \in Seq(Nat) /\ frames \in Seq(Nat) /\ done \in Seq([ok : BOOLEAN, part : Nat])
  BY EmptySeq
<1>2. worker \in [Workers -> {"new", "lock", "recv", "encode", "return", "stopped"}]
  OBVIOUS
<1>3. QED
  BY <1>1, <1>2 DEF TypeOK

\* The steps of the calling thread.
LEMMA CallingType ==
    ASSUME TypeOK, Calling
    PROVE  TypeOK'
<1> USE DEF TypeOK, workerVars, ordererVars, history
<1>1. CASE SealPart
  BY <1>1 DEF SealPart
<1>2. CASE SendJob
  <2>1. jobs' \in Seq(Nat)
    BY <1>2, AppendProperties DEF SendJob
  <2>2. sequence' \in Nat
    BY <1>2 DEF SendJob
  <2>3. QED
    BY <1>2, <2>1, <2>2 DEF SendJob
<1>3. CASE SendFails
  BY <1>3 DEF SendFails, EndWalk
<1>4. CASE WalkEnds
  BY <1>4 DEF WalkEnds, EndWalk
<1>5. CASE LeaveScope
  BY <1>5 DEF LeaveScope, Return
<1>6. CASE WriteIndex
  BY <1>6 DEF WriteIndex, Return
<1>7. QED
  BY <1>1, <1>2, <1>3, <1>4, <1>5, <1>6 DEF Calling

WorkerPlaces == {"new", "lock", "recv", "encode", "return", "stopped"}

\* What a worker puts into the channel is a message, and the worker goes on or
\* stops.
LEMMA SendDoneType ==
    ASSUME TypeOK, NEW w \in Workers, NEW message \in MessageType,
           NEW next \in WorkerPlaces, SendDone(w, message, next)
    PROVE  /\ done' \in Seq(MessageType)
           /\ worker' \in [Workers -> WorkerPlaces]
<1>1. done \in Seq(MessageType) /\ worker \in [Workers -> WorkerPlaces]
  BY DEF TypeOK, MessageType, WorkerPlaces
<1>2. Append(done, message) \in Seq(MessageType)
  BY <1>1, AppendProperties
<1>3. "return" \in WorkerPlaces
  BY DEF WorkerPlaces
<1>4. \A place \in WorkerPlaces : [worker EXCEPT ![w] = place] \in [Workers -> WorkerPlaces]
  BY <1>1
<1>5. done' \in Seq(MessageType)
  BY <1>1, <1>2 DEF SendDone
<1>6. worker' \in [Workers -> WorkerPlaces]
  BY <1>3, <1>4 DEF SendDone
<1>7. QED
  BY <1>5, <1>6

\* The steps of a worker.
LEMMA WorkType ==
    ASSUME TypeOK, NEW w \in Workers, Work(w)
    PROVE  TypeOK'
<1>1. /\ worker \in [Workers -> WorkerPlaces] /\ hand \in [Workers -> Nat]
      /\ done \in Seq(MessageType) /\ jobs \in Seq(Nat)
  BY DEF TypeOK, MessageType, WorkerPlaces
<1>2. \A place \in WorkerPlaces : [worker EXCEPT ![w] = place] \in [Workers -> WorkerPlaces]
  BY <1>1
<1>3. /\ "lock" \in WorkerPlaces /\ "recv" \in WorkerPlaces /\ "encode" \in WorkerPlaces
      /\ "return" \in WorkerPlaces /\ "stopped" \in WorkerPlaces
  BY DEF WorkerPlaces
<1>4. hand[w] \in Nat /\ Part(hand[w]) \in MessageType /\ Failure \in MessageType
  BY <1>1, MessageTypes
<1>5. /\ worker' \in [Workers -> WorkerPlaces]
      /\ done' \in Seq(MessageType)
      /\ jobs' \in Seq(Nat)
      /\ hand' \in [Workers -> Nat]
      /\ lock' \in Workers \union {NoWorker}
      /\ panicked' \in BOOLEAN
      /\ failures' \in SUBSET {"walk", "encoder", "encode", "sink", "index"}
  <2>1. CASE NewEncoder(w)
    <3>1. worker' \in [Workers -> WorkerPlaces] /\ done' \in Seq(MessageType)
      BY <2>1, <1>1, <1>2, <1>3, <1>4, SendDoneType DEF NewEncoder
    <3>2. QED
      BY <3>1, <2>1, <1>1 DEF NewEncoder, TypeOK
  <2>2. CASE Lock(w)
    <3>1. worker' \in [Workers -> WorkerPlaces]
      BY <2>2, <1>2, <1>3 DEF Lock
    <3>2. QED
      BY <3>1, <2>2, <1>1 DEF Lock, TypeOK, history
  <2>3. CASE Receive(w)
    <3>1. worker' \in [Workers -> WorkerPlaces]
      BY <2>3, <1>2, <1>3 DEF Receive
    <3>2. jobs' \in Seq(Nat) /\ hand' \in [Workers -> Nat]
      <4>1. CASE jobs # <<>>
        <5>1. Head(jobs) \in Nat /\ Tail(jobs) \in Seq(Nat)
          BY <1>1, <4>1, HeadTailProperties
        <5>2. QED
          BY <5>1, <2>3, <1>1, <4>1 DEF Receive
      <4>2. CASE jobs = <<>>
        BY <2>3, <1>1, <4>2 DEF Receive
      <4>3. QED
        BY <4>1, <4>2
    <3>3. QED
      BY <3>1, <3>2, <2>3, <1>1 DEF Receive, TypeOK, history
  <2>4. CASE Encode(w)
    <3>1. worker' \in [Workers -> WorkerPlaces] /\ done' \in Seq(MessageType)
      BY <2>4, <1>1, <1>2, <1>3, <1>4, SendDoneType DEF Encode
    <3>2. QED
      BY <3>1, <2>4, <1>1 DEF Encode, TypeOK
  <2>5. CASE Stop(w)
    <3>1. worker' \in [Workers -> WorkerPlaces]
      BY <2>5, <1>2, <1>3 DEF Stop
    <3>2. jobs' \in Seq(Nat)
      BY <2>5, <1>1, EmptySeq DEF Stop
    <3>3. QED
      BY <3>1, <3>2, <2>5, <1>1 DEF Stop, TypeOK, history
  <2>6. QED
    BY <2>1, <2>2, <2>3, <2>4, <2>5 DEF Work
<1>6. UNCHANGED <<walkVars, ordererVars, late>>
  BY DEF Work, NewEncoder, Lock, Receive, Encode, Stop, history
<1>7. QED
  BY <1>5, <1>6 DEF TypeOK, walkVars, ordererVars, MessageType, WorkerPlaces

\* The steps of the orderer.
LEMMA OrderingType ==
    ASSUME TypeOK, Ordering
    PROVE  TypeOK'
<1>1. /\ done \in Seq(MessageType) /\ frames \in Seq(Nat) /\ early \in SUBSET Nat
      /\ NextFrame \in Nat
  BY LenProperties DEF TypeOK, MessageType, NextFrame
<1>2. <<>> \in Seq(MessageType)
  BY EmptySeq
<1>3. /\ orderer' \in {"order", "ok", "failed", "never_arrived", "panic"}
      /\ done' \in Seq(MessageType)
      /\ frames' \in Seq(Nat)
      /\ early' \in SUBSET Nat
      /\ panicked' \in BOOLEAN
      /\ failures' \in SUBSET {"walk", "encoder", "encode", "sink", "index"}
  <2>1. CASE Arrive
    <3>1. Head(done) \in MessageType /\ Tail(done) \in Seq(MessageType)
      BY <2>1, <1>1, HeadTailProperties DEF Arrive
    <3>2. Head(done).part \in Nat
      BY <3>1 DEF MessageType
    <3>3. QED
      BY <2>1, <1>1, <1>2, <3>1, <3>2 DEF Arrive, OrdererReturns, TypeOK, history
  <2>2. CASE HandOut
    <3>1. Append(frames, NextFrame) \in Seq(Nat)
      BY <1>1, AppendProperties
    <3>2. QED
      BY <2>2, <1>1, <1>2, <3>1 DEF HandOut, OrdererReturns, TypeOK
  <2>3. CASE NoMoreToCome
    BY <2>3, <1>1, <1>2 DEF NoMoreToCome, OrdererReturns, TypeOK, history
  <2>4. QED
    BY <2>1, <2>2, <2>3 DEF Ordering
<1>4. UNCHANGED <<walkVars, jobs, workerVars, late>>
  BY DEF Ordering, Arrive, HandOut, NoMoreToCome, history
<1>5. QED
  BY <1>3, <1>4 DEF TypeOK, walkVars, workerVars, MessageType

LEMMA TypeStep ==
    ASSUME TypeOK, [Next]_vars
    PROVE  TypeOK'
<1>1. CASE UNCHANGED vars
  BY <1>1 DEF TypeOK, vars, walkVars, workerVars, ordererVars, history
<1>2. CASE Next
  BY <1>1, <1>2, CallingType, WorkType, OrderingType DEF Next, Terminating
<1>3. QED
  BY <1>1, <1>2

\* The types hold in every state of a write.
THEOREM TypesHold == Spec => []TypeOK
<1>1. Init => TypeOK
  BY TypeInit
<1>2. TypeOK /\ [Next]_vars => TypeOK'
  BY TypeStep
<1>3. QED
  BY <1>1, <1>2, PTL DEF Spec

-----------------------------------------------------------------------------
(* The inductive invariant, one lemma for each part of the system.         *)

LEMMA InvFacts ==
    ASSUME TypeOK, JobsInv
    PROVE  /\ sequence \in Nat /\ Len(jobs) \in Nat /\ Taken \in Nat
           /\ sequence = Taken + Len(jobs)
           /\ NextFrame \in Nat /\ Len(done) \in Nat
           /\ jobs \in Seq(Nat) /\ frames \in Seq(Nat) /\ done \in Seq(MessageType)
           /\ \A k \in 1..Len(done) : done[k].ok \in BOOLEAN /\ done[k].part \in Nat
           /\ \A w \in Workers : hand[w] \in Nat
           /\ \A p \in early : p \in Nat
<1>1. done \in Seq(MessageType)
  BY DEF TypeOK, MessageType
<1>2. \A k \in 1..Len(done) : done[k] \in MessageType
  BY <1>1, ElementOfSeq
<1>3. \A k \in 1..Len(done) : done[k].ok \in BOOLEAN /\ done[k].part \in Nat
  BY <1>2 DEF MessageType
<1>4. jobs \in Seq(Nat) /\ frames \in Seq(Nat) /\ sequence \in Nat
  BY DEF TypeOK
<1>5. Len(jobs) \in Nat /\ Len(frames) \in Nat /\ Len(done) \in Nat
  BY <1>1, <1>4, LenProperties
<1>6. Taken \in Nat /\ sequence = Taken + Len(jobs)
  BY <1>4, <1>5 DEF JobsInv, Taken
<1>7. (\A w \in Workers : hand[w] \in Nat) /\ (\A p \in early : p \in Nat)
  BY DEF TypeOK
<1>8. QED
  BY <1>1, <1>3, <1>4, <1>5, <1>6, <1>7 DEF NextFrame

LEMMA SomeWorker == \E w \in Workers : TRUE
  BY FramesAssumption

LEMMA InvInit == Init => IInv
<1> SUFFICES ASSUME Init PROVE IInv
  OBVIOUS
<1>1. TypeOK
  BY TypeInit
<1>2. /\ jobs = <<>> /\ Len(jobs) = 0 /\ Len(done) = 0 /\ Len(frames) = 0
      /\ early = {} /\ sequence = 0
  BY EmptySeq DEF Init
<1>3. Taken = 0 /\ \A w \in Workers : worker[w] = "new"
  <2>1. Taken = 0
    <3>1. Len(jobs) = 0 /\ sequence = 0
      BY <1>2
    <3>2. QED
      BY <3>1 DEF Taken
  <2>2. \A w \in Workers : worker[w] = "new"
    BY DEF Init
  <2>3. QED
    BY <2>1, <2>2
<1>4. JobsInv /\ FramesInOrder
  <2>1. JobsInv
    BY <1>2, <1>3 DEF JobsInv
  <2>2. FramesInOrder
    BY <1>2, <1>3 DEF FramesInOrder
  <2>3. QED
    BY <2>1, <2>2
<1>5. DoneInv /\ HandsInv
  BY <1>2, <1>3 DEF DoneInv, HandsInv
<1>6. CleanInv
  BY <1>2, <1>3 DEF CleanInv, Init
<1>7. OutcomeInv
  BY DEF OutcomeInv, Init
<1>8. QED
  BY <1>1, <1>4, <1>5, <1>6, <1>7 DEF IInv

\* The calling thread changes nothing of the workers and the orderer, and all but
\* SendJob leave the queue as it is.
LEMMA CallingInv ==
    ASSUME IInv, Calling
    PROVE  IInv'
<1> USE DEF IInv
<1>1. TypeOK'
  BY CallingType
<1>2. UNCHANGED <<lock, worker, hand, done, orderer, early, frames, panicked>>
  BY DEF Calling, SealPart, SendJob, SendFails, WalkEnds, LeaveScope, WriteIndex,
         workerVars, ordererVars, history
<1>3. CASE SendJob
  <2>1. /\ main = "send" /\ ~NoWorkerLeft /\ jobs' = Append(jobs, sequence)
        /\ sequence' = sequence + 1 /\ main' = "walk"
        /\ UNCHANGED <<walked, report, failures>>
    BY <1>3 DEF SendJob, history
  <2>2. /\ Len(jobs') = Len(jobs) + 1
        /\ \A k \in 1..Len(jobs) : jobs'[k] = jobs[k]
        /\ jobs'[Len(jobs) + 1] = sequence
    BY <2>1, InvFacts, AppendProperties
  <2>3. Taken' = Taken
    BY <2>1, <2>2, InvFacts DEF Taken
  <2>4. JobsInv'
    <3>1. Len(jobs') <= sequence'
      BY <2>1, <2>2, InvFacts DEF JobsInv
    <3>2. ASSUME NEW k \in 1..Len(jobs')
          PROVE  jobs'[k] = Taken' + k - 1
      <4>1. k \in 1..Len(jobs) \/ k = Len(jobs) + 1
        BY <2>2, InvFacts
      <4>2. QED
        BY <4>1, <2>2, <2>3, InvFacts DEF JobsInv
    <3>3. ~NoWorkerLeft'
      BY <2>1, <1>2 DEF NoWorkerLeft, Gone
    <3>4. QED
      BY <3>1, <3>2, <3>3 DEF JobsInv
  <2>5. FramesInOrder' /\ DoneInv' /\ HandsInv'
    BY <1>2, <2>3 DEF FramesInOrder, DoneInv, HandsInv, NextFrame, InDone, Encodes
  <2>6. CleanInv'
    <3>1. Clean' = Clean
      BY <1>2 DEF Clean
    <3>2. Clean => \A w \in Workers : worker[w] \notin {"return", "stopped"}
      BY <2>1 DEF CleanInv
    <3>3. QED
      BY <1>2, <2>1, <2>3, <3>1, <3>2 DEF CleanInv, NextFrame, InDone, Encodes
  <2>7. OutcomeInv'
    BY <1>2, <2>1 DEF OutcomeInv, NoWorkerLeft, Gone
  <2>8. QED
    BY <1>1, <2>4, <2>5, <2>6, <2>7
<1>4. CASE ~SendJob
  <2>1. UNCHANGED <<jobs, sequence>>
    BY <1>4 DEF Calling, SealPart, SendJob, SendFails, WalkEnds, LeaveScope, WriteIndex
  <2>2. Taken' = Taken /\ Clean' = Clean /\ NoWorkerLeft' = NoWorkerLeft
    BY <1>2, <2>1 DEF Taken, Clean, NoWorkerLeft, Gone
  <2>3. JobsInv' /\ FramesInOrder' /\ DoneInv' /\ HandsInv'
    BY <1>2, <2>1, <2>2 DEF JobsInv, FramesInOrder, DoneInv, HandsInv, NextFrame, InDone, Encodes
  <2>4. main \notin {"walk", "send"} => main' \notin {"walk", "send"}
    BY <1>4 DEF Calling, SealPart, SendJob, SendFails, WalkEnds, LeaveScope, WriteIndex,
                EndWalk, Return
  <2>5. Clean => walked' # "send_error"
    <3>1. CASE SendFails
      BY <3>1, SomeWorker DEF SendFails, CleanInv, NoWorkerLeft, Gone
    <3>2. CASE ~SendFails
      <4>1. walked' = walked \/ walked' \in {"ok", "walk_error"}
        BY <1>4, <3>2 DEF Calling, SealPart, WalkEnds, LeaveScope, WriteIndex, EndWalk
      <4>2. QED
        BY <4>1 DEF CleanInv
    <3>3. QED
      BY <3>1, <3>2
  <2>6. failures' \subseteq failures \union {"walk", "index"}
    BY <1>4 DEF Calling, SealPart, SendJob, SendFails, WalkEnds, LeaveScope, WriteIndex, history
  <2>7. CleanInv'
    BY <1>2, <2>1, <2>2, <2>4, <2>5, <2>6 DEF CleanInv, NextFrame, InDone, Encodes
  <2>8. OutcomeInv'
    <3> USE DEF OutcomeInv, Receiving
    <3>1. CASE SealPart
      BY <1>2, <2>2, <3>1 DEF SealPart
    <3>2. CASE SendFails
      BY <1>2, <2>2, <3>2 DEF SendFails, EndWalk, history
    <3>3. CASE WalkEnds
      BY <1>2, <2>2, <3>3 DEF WalkEnds, EndWalk
    <3>4. CASE LeaveScope
      BY <1>2, <2>2, <3>4 DEF LeaveScope, Return, history, TypeOK
    <3>5. CASE WriteIndex
      BY <1>2, <2>2, <3>5 DEF WriteIndex, Return
    <3>6. QED
      BY <1>4, <3>1, <3>2, <3>3, <3>4, <3>5 DEF Calling
  <2>9. QED
    BY <1>1, <2>3, <2>7, <2>8
<1>5. QED
  BY <1>3, <1>4

\* A worker that has not stopped: the orderer still has somebody to wait for, and
\* the calling thread has not left the scope.
LEMMA WorkerLeft ==
    ASSUME IInv, NEW w \in Workers, worker[w] # "stopped"
    PROVE  /\ ~NoWorkerLeft /\ orderer # "ok"
           /\ main \notin {"index", "ok"} /\ report # "walk"
           /\ ~Receiving => ~Clean
  BY DEF IInv, OutcomeInv, NoWorkerLeft, Gone, Clean, Receiving

\* A worker starts.
LEMMA NewEncoderInv ==
    ASSUME IInv, NEW w \in Workers, NewEncoder(w)
    PROVE  IInv'
<1> USE DEF IInv
<1>1. TypeOK'
  BY WorkType DEF Work
<1>2. /\ worker[w] = "new" /\ ~NoWorkerLeft
      /\ UNCHANGED <<main, walked, report, sequence, jobs, lock, hand, orderer, early, frames, late>>
      /\ main \notin {"index", "ok"} /\ report # "walk" /\ orderer # "ok"
      /\ ~Receiving => ~Clean
  BY WorkerLeft DEF NewEncoder, walkVars, ordererVars
<1>3. /\ Taken' = Taken /\ NextFrame' = NextFrame
      /\ \/ done' = done
         \/ Receiving /\ done' = Append(done, Failure)
      /\ \/ /\ worker' = [worker EXCEPT ![w] = "lock"]
            /\ UNCHANGED <<done, panicked, failures>>
         \/ /\ worker' = [worker EXCEPT ![w] = "return"]
            /\ ~Clean'
            /\ failures' \subseteq failures \union {"encoder"}
            /\ failures \subseteq failures'
  <2>1. Taken' = Taken /\ NextFrame' = NextFrame
    BY <1>2 DEF Taken, NextFrame
  <2>2. CASE worker' = [worker EXCEPT ![w] = "lock"] /\ UNCHANGED <<done, panicked, failures>>
    BY <2>1, <2>2
  <2>3. CASE panicked' /\ worker' = [worker EXCEPT ![w] = "return"] /\ UNCHANGED <<done, failures>>
    BY <2>1, <2>3 DEF Clean
  <2>4. CASE SendDone(w, Failure, "return") /\ failures' = failures \union {"encoder"}
    <3>1. CASE Receiving
      <4>1. done' = Append(done, Failure) /\ worker' = [worker EXCEPT ![w] = "return"]
        BY <2>4, <3>1 DEF SendDone
      <4>2. Len(done') = Len(done) + 1 /\ done'[Len(done) + 1] = Failure /\ Len(done) \in Nat
        BY <4>1, InvFacts, MessageTypes, AppendProperties
      <4>3. ~Clean'
        BY <4>2 DEF Clean, Failure
      <4>4. QED
        BY <2>1, <2>4, <3>1, <4>1, <4>3
    <3>2. CASE ~Receiving
      <4>1. UNCHANGED done /\ worker' = [worker EXCEPT ![w] = "return"]
        BY <2>4, <3>2 DEF SendDone
      <4>2. orderer' \notin {"order", "ok"}
        BY <1>2, <3>2 DEF Receiving
      <4>3. ~Clean'
        BY <4>2 DEF Clean
      <4>4. QED
        BY <2>1, <2>4, <4>1, <4>3
    <3>3. QED
      BY <3>1, <3>2
  <2>5. QED
    BY <2>2, <2>3, <2>4 DEF NewEncoder
<1>4. \A v \in Workers : /\ worker'[v] = "encode" <=> worker[v] = "encode"
                         /\ v # w => worker'[v] = worker[v]
                         /\ worker'[w] \in {"lock", "return"}
  BY <1>2, <1>3 DEF TypeOK
<1>5. /\ \A k \in 1..Len(done') : done'[k].ok => k \in 1..Len(done) /\ done'[k] = done[k]
      /\ \A k \in 1..Len(done) : k \in 1..Len(done') /\ done'[k] = done[k]
  <2>1. CASE done' = done
    BY <2>1
  <2>2. CASE done' = Append(done, Failure)
    <3>1. /\ Len(done') = Len(done) + 1 /\ Len(done) \in Nat
          /\ done'[Len(done) + 1] = Failure
          /\ \A k \in 1..Len(done) : done'[k] = done[k]
      BY <2>2, InvFacts, MessageTypes, AppendProperties
    <3>2. ~Failure.ok
      BY DEF Failure
    <3>3. \A k \in 1..Len(done') : k \in 1..Len(done) \/ k = Len(done) + 1
      BY <3>1
    <3>4. QED
      BY <3>1, <3>2, <3>3
  <2>3. QED
    BY <1>3, <2>1, <2>2
<1>6. \A p : InDone(p)' <=> InDone(p)
  BY <1>5 DEF InDone
<1>7. \A v \in Workers : \A p : Encodes(v, p)' <=> Encodes(v, p)
  BY <1>2, <1>4 DEF Encodes
<1>8. ~NoWorkerLeft'
  BY <1>4 DEF NoWorkerLeft, Gone
<1>9. JobsInv' /\ FramesInOrder'
  BY <1>2, <1>3, <1>8 DEF JobsInv, FramesInOrder
<1>10. DoneInv'
  BY <1>2, <1>3, <1>5 DEF DoneInv
<1>11. HandsInv'
  BY <1>2, <1>3, <1>4, <1>6, <1>7 DEF HandsInv
<1>12. CleanInv'
  <2>1. SUFFICES ASSUME Clean' PROVE CleanInv'
    BY DEF CleanInv
  <2>2. worker' = [worker EXCEPT ![w] = "lock"] /\ UNCHANGED <<done, panicked, failures>>
    BY <2>1, <1>3
  <2>3. Clean
    BY <1>2, <2>1, <2>2 DEF Clean
  <2>4. \A v \in Workers : worker'[v] \in {"return", "stopped"} => worker[v] \in {"return", "stopped"}
    BY <2>2 DEF TypeOK
  <2>5. QED
    BY <1>2, <1>3, <1>6, <1>7, <2>2, <2>3, <2>4 DEF CleanInv
<1>13. OutcomeInv'
  <2>1. "walk" \in failures' <=> "walk" \in failures
    BY <1>3
  <2>2. "index" \in failures' <=> "index" \in failures
    BY <1>3
  <2>3. orderer # "order" => done' = done
    BY <1>3 DEF Receiving
  <2>4. panicked => panicked'
    BY DEF NewEncoder
  <2>5. QED
    BY <1>2, <2>1, <2>2, <2>3, <2>4 DEF OutcomeInv
<1>14. QED
  BY <1>1, <1>9, <1>10, <1>11, <1>12, <1>13

\* A worker gets the lock.
LEMMA LockInv ==
    ASSUME IInv, NEW w \in Workers, Lock(w)
    PROVE  IInv'
<1> USE DEF IInv
<1>1. TypeOK'
  BY WorkType DEF Work
<1>2. /\ worker[w] = "lock" /\ worker' = [worker EXCEPT ![w] = "recv"] /\ ~NoWorkerLeft
      /\ UNCHANGED <<main, walked, report, sequence, jobs, hand, done, orderer, early, frames,
                     panicked, failures, late>>
  BY WorkerLeft DEF Lock, walkVars, ordererVars, history
<1>3. \A v \in Workers : /\ worker'[v] = "encode" <=> worker[v] = "encode"
                         /\ worker'[v] \in {"return", "stopped"} <=> worker[v] \in {"return", "stopped"}
                         /\ worker'[v] = "stopped" <=> worker[v] = "stopped"
  BY <1>2 DEF TypeOK
<1>4. /\ Taken' = Taken /\ NextFrame' = NextFrame /\ Clean' = Clean
      /\ NoWorkerLeft' <=> NoWorkerLeft
      /\ \A p : InDone(p)' <=> InDone(p)
  BY <1>2, <1>3 DEF Taken, NextFrame, Clean, NoWorkerLeft, Gone, InDone
<1>5. \A v \in Workers : \A p : Encodes(v, p)' <=> Encodes(v, p)
  BY <1>2, <1>3 DEF Encodes
<1>6. JobsInv' /\ FramesInOrder' /\ DoneInv' /\ HandsInv'
  BY <1>2, <1>3, <1>4, <1>5 DEF JobsInv, FramesInOrder, DoneInv, HandsInv
<1>7. CleanInv'
  BY <1>2, <1>3, <1>4, <1>5 DEF CleanInv
<1>8. OutcomeInv'
  BY <1>2, <1>4 DEF OutcomeInv
<1>9. QED
  BY <1>1, <1>6, <1>7, <1>8

\* A worker takes a part from the queue, or stops because none will come.
LEMMA ReceiveInv ==
    ASSUME IInv, NEW w \in Workers, Receive(w)
    PROVE  IInv'
<1> USE DEF IInv
<1>1. TypeOK'
  BY WorkType DEF Work
<1>2. /\ worker[w] = "recv" /\ ~NoWorkerLeft
      /\ UNCHANGED <<main, walked, report, sequence, done, orderer, early, frames,
                     panicked, failures, late>>
      /\ NextFrame' = NextFrame /\ Clean' = Clean
      /\ \A p : InDone(p)' <=> InDone(p)
  BY WorkerLeft DEF Receive, walkVars, ordererVars, history, NextFrame, Clean, InDone
<1>3. CASE jobs # <<>>
  <2>1. /\ hand' = [hand EXCEPT ![w] = Head(jobs)] /\ jobs' = Tail(jobs)
        /\ worker' = [worker EXCEPT ![w] = "encode"]
    BY <1>3 DEF Receive
  <2>2. /\ Len(jobs) >= 1 /\ Len(jobs') = Len(jobs) - 1
        /\ \A k \in 1..Len(jobs') : jobs'[k] = jobs[k + 1]
        /\ Head(jobs) = jobs[1]
    BY <1>3, <2>1, InvFacts, HeadTailProperties, EmptySeq
  <2>3. Head(jobs) = Taken
    BY <2>2, InvFacts DEF JobsInv
  <2>4. Taken' = Taken + 1
    BY <1>2, <2>2, InvFacts DEF Taken
  <2>5. /\ worker'[w] = "encode" /\ hand'[w] = Taken
        /\ \A v \in Workers \ {w} : worker'[v] = worker[v] /\ hand'[v] = hand[v]
    BY <2>1, <2>3 DEF TypeOK
  <2>6. JobsInv'
    <3>1. Len(jobs') <= sequence'
      BY <1>2, <2>2, InvFacts DEF JobsInv
    <3>2. ASSUME NEW k \in 1..Len(jobs')
          PROVE  jobs'[k] = Taken' + k - 1
      <4>1. k + 1 \in 1..Len(jobs)
        BY <2>2, InvFacts
      <4>2. jobs[k + 1] = Taken + (k + 1) - 1
        BY <4>1 DEF JobsInv
      <4>3. QED
        BY <2>2, <2>4, <4>2, InvFacts
    <3>3. ~NoWorkerLeft'
      BY <2>5 DEF NoWorkerLeft, Gone
    <3>4. QED
      BY <3>1, <3>2, <3>3 DEF JobsInv
  <2>7. FramesInOrder'
    BY <1>2, <2>4, InvFacts DEF FramesInOrder, NextFrame
  <2>8. DoneInv'
    <3>1. \A k \in 1..Len(done) : done[k].ok => done[k].part < Taken + 1
      BY InvFacts DEF DoneInv
    <3>2. QED
      BY <1>2, <2>4, <3>1 DEF DoneInv
  <2>9. HandsInv'
    <3>1. ASSUME NEW v \in Workers, worker'[v] = "encode"
          PROVE  /\ NextFrame' <= hand'[v] /\ hand'[v] < Taken'
                 /\ hand'[v] \notin early'
                 /\ ~InDone(hand'[v])
                 /\ \A u \in Workers : worker'[u] = "encode" /\ hand'[u] = hand'[v] => u = v
      <4>1. CASE v = w
        <5>1. NextFrame <= Taken /\ Taken < Taken + 1
          BY InvFacts DEF FramesInOrder, NextFrame
        <5>2. Taken \notin early
          BY InvFacts DEF FramesInOrder
        <5>3. ~InDone(Taken)
          BY InvFacts DEF DoneInv, InDone
        <5>4. \A u \in Workers \ {w} : worker[u] = "encode" => hand[u] # Taken
          BY InvFacts DEF HandsInv
        <5>5. QED
          BY <1>2, <2>4, <2>5, <4>1, <5>1, <5>2, <5>3, <5>4
      <4>2. CASE v # w
        <5>1. worker[v] = "encode" /\ hand'[v] = hand[v]
          BY <2>5, <3>1, <4>2
        <5>2. /\ NextFrame <= hand[v] /\ hand[v] < Taken /\ hand[v] \notin early /\ ~InDone(hand[v])
              /\ \A u \in Workers : worker[u] = "encode" /\ hand[u] = hand[v] => u = v
          BY <5>1 DEF HandsInv, Encodes
        <5>3. hand'[w] # hand[v] /\ hand[v] < Taken + 1
          BY <2>5, <5>2, InvFacts
        <5>4. QED
          BY <1>2, <2>4, <2>5, <5>1, <5>2, <5>3
      <4>3. QED
        BY <4>1, <4>2
    <3>2. QED
      BY <3>1, <1>2 DEF HandsInv, Encodes
  <2>10. CleanInv'
    <3>1. SUFFICES ASSUME Clean' PROVE CleanInv'
      BY DEF CleanInv
    <3>2. Clean
      BY <1>2, <3>1
    <3>3. \A v \in Workers : worker'[v] \notin {"return", "stopped"}
      BY <3>2, <1>3, <2>5 DEF CleanInv
    <3>4. ASSUME NEW p \in 0..(Taken' - 1)
          PROVE  p < NextFrame \/ p \in early \/ InDone(p) \/ \E v \in Workers : Encodes(v, p)'
      <4>1. CASE p = Taken
        BY <4>1, <2>5 DEF Encodes
      <4>2. CASE p # Taken
        <5>1. p \in 0..(Taken - 1)
          BY <4>2, <2>4, InvFacts
        <5>2. p < NextFrame \/ p \in early \/ InDone(p) \/ \E v \in Workers : Encodes(v, p)
          BY <3>2, <5>1 DEF CleanInv
        <5>3. \A v \in Workers : Encodes(v, p) => Encodes(v, p)'
          BY <1>2, <2>5 DEF Encodes
        <5>4. QED
          BY <5>2, <5>3
      <4>3. QED
        BY <4>1, <4>2
    <3>5. QED
      BY <1>2, <3>2, <3>3, <3>4 DEF CleanInv
  <2>11. ~NoWorkerLeft'
    BY <2>5 DEF NoWorkerLeft, Gone
  <2>12. OutcomeInv'
    BY <1>2, <2>11, WorkerLeft DEF OutcomeInv
  <2>13. QED
    BY <1>1, <2>6, <2>7, <2>8, <2>9, <2>10, <2>12
<1>4. CASE jobs = <<>>
  <2>1. /\ worker' = [worker EXCEPT ![w] = "return"] /\ UNCHANGED <<jobs, hand>>
        /\ main \notin {"walk", "send"}
    BY <1>4 DEF Receive
  <2>2. \A v \in Workers : /\ worker'[v] = "encode" <=> worker[v] = "encode"
                           /\ worker'[v] \in {"return", "stopped"} =>
                                 v = w \/ worker[v] \in {"return", "stopped"}
                           /\ worker'[v] = "stopped" <=> worker[v] = "stopped"
    BY <1>2, <2>1 DEF TypeOK
  <2>3. Taken' = Taken /\ (NoWorkerLeft' <=> NoWorkerLeft)
    BY <1>2, <2>1, <2>2 DEF Taken, NoWorkerLeft, Gone
  <2>4. \A v \in Workers : \A p : Encodes(v, p)' <=> Encodes(v, p)
    BY <2>1, <2>2 DEF Encodes
  <2>5. JobsInv' /\ FramesInOrder' /\ DoneInv' /\ HandsInv'
    BY <1>2, <2>1, <2>2, <2>3, <2>4 DEF JobsInv, FramesInOrder, DoneInv, HandsInv
  <2>6. CleanInv'
    BY <1>2, <1>4, <2>1, <2>2, <2>3, <2>4 DEF CleanInv
  <2>7. OutcomeInv'
    BY <1>2, <2>3 DEF OutcomeInv
  <2>8. QED
    BY <1>1, <2>5, <2>6, <2>7
<1>5. QED
  BY <1>3, <1>4

\* A worker encodes a part, which goes from its hand into the channel.
LEMMA EncodeInv ==
    ASSUME IInv, NEW w \in Workers, Encode(w)
    PROVE  IInv'
<1> USE DEF IInv
<1>1. TypeOK'
  BY WorkType DEF Work
<1>2. /\ worker[w] = "encode" /\ ~NoWorkerLeft /\ orderer # "ok"
      /\ UNCHANGED <<main, walked, report, sequence, jobs, hand, orderer, early, frames, late>>
      /\ NextFrame' = NextFrame /\ Taken' = Taken
      /\ main \notin {"index", "ok"} /\ report # "walk"
      /\ ~Receiving => ~Clean
  BY WorkerLeft DEF Encode, walkVars, ordererVars, NextFrame, Taken
<1>3. /\ \A v \in Workers \ {w} : worker'[v] = worker[v]
      /\ worker'[w] \in {"lock", "return"}
      /\ worker'[w] = "return" => ~Clean'
      /\ failures \subseteq failures' /\ failures' \subseteq failures \union {"encode"}
      /\ failures' # failures => ~Clean'
      /\ panicked => panicked'
      /\ \/ done' = done /\ ~Clean'
         \/ Receiving /\ done' = Append(done, Part(hand[w])) /\ panicked' = panicked
         \/ Receiving /\ done' = Append(done, Failure)
  <2>1. ~Receiving => ~Clean'
    BY <1>2 DEF Receiving, Clean
  <2>2. CASE SendDone(w, Part(hand[w]), "lock") /\ UNCHANGED <<panicked, failures>>
    BY <2>1, <2>2 DEF SendDone, TypeOK
  <2>3. CASE SendDone(w, Failure, "lock") /\ failures' = failures \union {"encode"} /\ UNCHANGED panicked
    <3>1. Receiving => ~Clean'
      <4>1. SUFFICES ASSUME Receiving PROVE ~Clean'
        OBVIOUS
      <4>2. done' = Append(done, Failure)
        BY <2>3, <4>1 DEF SendDone
      <4>3. Len(done') = Len(done) + 1 /\ done'[Len(done) + 1] = Failure /\ Len(done) \in Nat
        BY <4>2, InvFacts, MessageTypes, AppendProperties
      <4>4. QED
        BY <4>3 DEF Clean, Failure
    <3>2. QED
      BY <2>1, <2>3, <3>1 DEF SendDone, TypeOK
  <2>4. CASE worker' = [worker EXCEPT ![w] = "return"] /\ panicked' = TRUE /\ UNCHANGED <<done, failures>>
    BY <2>4 DEF Clean, TypeOK
  <2>5. QED
    BY <2>2, <2>3, <2>4 DEF Encode
<1>4. \A v \in Workers : /\ worker'[v] = "encode" <=> worker[v] = "encode" /\ v # w
                         /\ worker'[v] = "stopped" <=> worker[v] = "stopped"
  BY <1>2, <1>3
<1>5. \A v \in Workers : \A p : Encodes(v, p)' <=> Encodes(v, p) /\ v # w
  BY <1>2, <1>4 DEF Encodes
<1>6. NextFrame <= hand[w] /\ hand[w] < Taken /\ hand[w] \notin early /\ ~InDone(hand[w])
      /\ \A v \in Workers : Encodes(v, hand[w]) => v = w
  BY <1>2 DEF HandsInv
\* What the channel has afterwards: what it had, and the part or a failure.
<1>7. \/ done' = done
      \/ /\ Len(done') = Len(done) + 1 /\ Len(done) \in Nat
         /\ \A k \in 1..Len(done) : done'[k] = done[k]
         /\ done'[Len(done) + 1] = Part(hand[w]) \/ done'[Len(done) + 1] = Failure
  <2>1. Part(hand[w]) \in MessageType
    BY InvFacts, MessageTypes
  <2>2. QED
    BY <1>3, <2>1, InvFacts, MessageTypes, AppendProperties
<1>8. \A k \in 1..Len(done') :
         \/ k \in 1..Len(done) /\ done'[k] = done[k]
         \/ k = Len(done) + 1 /\ done'[k] = Part(hand[w])
         \/ ~done'[k].ok
  <2>1. \A k \in 1..(Len(done) + 1) : k \in 1..Len(done) \/ k = Len(done) + 1
    BY InvFacts
  <2>2. ~Failure.ok
    BY DEF Failure
  <2>3. QED
    BY <1>7, <2>1, <2>2
<1>9. Part(hand[w]).part = hand[w] /\ Part(hand[w]).ok
  BY DEF Part
<1>10. \A p : InDone(p)' => InDone(p) \/ p = hand[w]
  BY <1>8, <1>9 DEF InDone
<1>11. \A p : InDone(p) => InDone(p)'
  BY <1>7, InvFacts DEF InDone
<1>12. ~NoWorkerLeft'
  BY <1>3 DEF NoWorkerLeft, Gone
<1>13. JobsInv' /\ FramesInOrder'
  BY <1>2, <1>12 DEF JobsInv, FramesInOrder
<1>14. DoneInv'
  <2>1. ASSUME NEW k \in 1..Len(done'), done'[k].ok
        PROVE  /\ NextFrame <= done'[k].part /\ done'[k].part < Taken
               /\ done'[k].part \notin early
               /\ \A l \in 1..Len(done') : done'[l].ok /\ done'[l].part = done'[k].part => l = k
    <3>1. CASE k \in 1..Len(done) /\ done'[k] = done[k]
      <4>1. done[k].part # hand[w]
        BY <1>6, <2>1, <3>1 DEF InDone
      <4>2. done[k].ok
        BY <2>1, <3>1
      <4>3. /\ NextFrame <= done[k].part /\ done[k].part < Taken /\ done[k].part \notin early
            /\ \A l \in 1..Len(done) : done[l].ok /\ done[l].part = done[k].part => l = k
        BY <3>1, <4>2 DEF DoneInv
      <4>4. ASSUME NEW l \in 1..Len(done'), done'[l].ok, done'[l].part = done'[k].part
            PROVE  l = k
        <5>1. CASE l \in 1..Len(done) /\ done'[l] = done[l]
          BY <3>1, <4>3, <4>4, <5>1
        <5>2. CASE done'[l] = Part(hand[w])
          BY <1>9, <3>1, <4>1, <4>4, <5>2
        <5>3. QED
          BY <1>8, <4>4, <5>1, <5>2
      <4>5. QED
        BY <3>1, <4>3, <4>4
    <3>2. CASE k = Len(done) + 1 /\ done'[k] = Part(hand[w])
      <4>1. \A l \in 1..Len(done) : done[l].ok => done[l].part # hand[w]
        BY <1>6 DEF InDone
      <4>2. QED
        BY <1>6, <1>8, <1>9, <3>2, <4>1
    <3>3. QED
      BY <1>8, <2>1, <3>1, <3>2
  <2>2. QED
    BY <1>2, <2>1 DEF DoneInv
<1>15. HandsInv'
  <2>1. ASSUME NEW v \in Workers, worker'[v] = "encode"
        PROVE  /\ NextFrame <= hand[v] /\ hand[v] < Taken /\ hand[v] \notin early
               /\ ~(\E k \in 1..Len(done') : done'[k].ok /\ done'[k].part = hand[v])
               /\ \A u \in Workers : worker'[u] = "encode" /\ hand[u] = hand[v] => u = v
    <3>1. worker[v] = "encode" /\ v # w
      BY <1>4, <2>1
    <3>2. hand[v] # hand[w]
      BY <1>6, <3>1 DEF Encodes
    <3>3. /\ NextFrame <= hand[v] /\ hand[v] < Taken /\ hand[v] \notin early
          /\ ~InDone(hand[v])
          /\ \A u \in Workers : worker[u] = "encode" /\ hand[u] = hand[v] => u = v
      BY <3>1 DEF HandsInv, Encodes
    <3>4. ASSUME NEW k \in 1..Len(done'), done'[k].ok, done'[k].part = hand[v]
          PROVE  FALSE
      <4>1. k \in 1..Len(done) /\ done'[k] = done[k]
        BY <1>8, <1>9, <3>2, <3>4
      <4>2. QED
        BY <3>3, <3>4, <4>1 DEF InDone
    <3>5. QED
      BY <1>4, <3>3, <3>4
  <2>2. QED
    BY <1>2, <2>1 DEF HandsInv, InDone, Encodes
<1>16. CleanInv'
  <2>1. SUFFICES ASSUME Clean' PROVE CleanInv'
    BY DEF CleanInv
  <2>2. Receiving /\ done' = Append(done, Part(hand[w])) /\ UNCHANGED <<panicked, failures>>
    <3>1. Receiving /\ UNCHANGED failures
      BY <1>3, <2>1
    <3>2. done' # Append(done, Failure)
      <4>1. SUFFICES ASSUME done' = Append(done, Failure) PROVE FALSE
        OBVIOUS
      <4>2. Len(done') = Len(done) + 1 /\ done'[Len(done) + 1] = Failure /\ Len(done) \in Nat
        BY <4>1, InvFacts, MessageTypes, AppendProperties
      <4>3. QED
        BY <4>2, <2>1 DEF Clean, Failure
    <3>3. QED
      BY <1>3, <2>1, <3>1, <3>2
  <2>3. Clean
    <3>1. \A k \in 1..Len(done) : k \in 1..Len(done') /\ done'[k] = done[k]
      BY <1>7, InvFacts
    <3>2. QED
      BY <1>2, <2>1, <2>2, <3>1 DEF Clean
  <2>4. worker'[w] = "lock"
    BY <1>3, <2>1
  <2>5. \A v \in Workers : worker'[v] \in {"return", "stopped"} => worker[v] \in {"return", "stopped"}
    BY <1>3, <2>4
  <2>6. \A p : p = hand[w] => InDone(p)'
    <3>1. Part(hand[w]) \in MessageType
      BY InvFacts, MessageTypes
    <3>2. Len(done') = Len(done) + 1 /\ done'[Len(done) + 1] = Part(hand[w]) /\ Len(done) \in Nat
      BY <2>2, <3>1, InvFacts, AppendProperties
    <3>3. QED
      BY <1>9, <3>2 DEF InDone
  <2>7. ASSUME NEW p \in 0..(Taken - 1)
        PROVE  p < NextFrame \/ p \in early \/ InDone(p)' \/ \E v \in Workers : Encodes(v, p)'
    <3>1. p < NextFrame \/ p \in early \/ InDone(p) \/ \E v \in Workers : Encodes(v, p)
      BY <2>3 DEF CleanInv
    <3>2. CASE InDone(p)
      BY <1>11, <3>2
    <3>3. CASE \E v \in Workers : Encodes(v, p)
      <4>1. PICK v \in Workers : Encodes(v, p)
        BY <3>3
      <4>2. CASE v = w
        <5>1. p = hand[w]
          BY <4>1, <4>2 DEF Encodes
        <5>2. InDone(p)'
          BY <2>6, <5>1
        <5>3. QED
          BY <5>2
      <4>3. CASE v # w
        <5>1. Encodes(v, p)'
          BY <1>5, <4>1, <4>3
        <5>2. QED
          BY <5>1
      <4>4. QED
        BY <4>2, <4>3
    <3>4. QED
      BY <3>1, <3>2, <3>3
  <2>8. QED
    BY <1>2, <2>2, <2>3, <2>5, <2>7 DEF CleanInv
<1>17. OutcomeInv'
  <2>1. /\ "walk" \in failures' <=> "walk" \in failures
        /\ "index" \in failures' <=> "index" \in failures
    BY <1>3
  <2>2. orderer # "order" => done' = done
    BY <1>3 DEF Receiving
  <2>3. QED
    BY <1>2, <1>3, <2>1, <2>2 DEF OutcomeInv
<1>18. QED
  BY <1>1, <1>13, <1>14, <1>15, <1>16, <1>17

\* A worker stops: with the last one goes what is still queued, which is nothing
\* as long as nothing has failed.
LEMMA StopInv ==
    ASSUME IInv, NEW w \in Workers, Stop(w)
    PROVE  IInv'
<1> USE DEF IInv
<1>1. TypeOK'
  BY WorkType DEF Work
<1>2. /\ worker[w] = "return" /\ worker' = [worker EXCEPT ![w] = "stopped"]
      /\ UNCHANGED <<main, walked, report, sequence, lock, hand, done, orderer, early, frames,
                     panicked, failures, late>>
      /\ NextFrame' = NextFrame /\ Clean' = Clean
      /\ \A p : InDone(p)' <=> InDone(p)
      /\ main \notin {"index", "ok"} /\ report # "walk" /\ orderer # "ok"
  BY WorkerLeft DEF Stop, walkVars, ordererVars, history, NextFrame, Clean, InDone
<1>3. \A v \in Workers : /\ worker'[v] = "encode" <=> worker[v] = "encode"
                         /\ worker'[v] \in {"return", "stopped"} <=> worker[v] \in {"return", "stopped"}
                         /\ v # w => worker'[v] = worker[v]
                         /\ worker'[w] = "stopped"
  BY <1>2 DEF TypeOK
<1>4. \A v \in Workers : \A p : Encodes(v, p)' <=> Encodes(v, p)
  BY <1>2, <1>3 DEF Encodes
<1>5. \/ jobs' = <<>> /\ Len(jobs') = 0
      \/ jobs' = jobs /\ ~NoWorkerLeft'
  <2>1. CASE \A v \in Workers \ {w} : Gone(v)
    BY <2>1, EmptySeq DEF Stop
  <2>2. CASE ~ \A v \in Workers \ {w} : Gone(v)
    BY <1>3, <2>2 DEF Stop, NoWorkerLeft, Gone
  <2>3. QED
    BY <2>1, <2>2
<1>6. Taken' \in Nat /\ Taken <= Taken' /\ Len(jobs') <= sequence'
  <2>1. CASE Len(jobs') = 0
    BY <1>2, <2>1, InvFacts DEF Taken
  <2>2. CASE jobs' = jobs
    BY <1>2, <2>2, InvFacts DEF Taken, JobsInv
  <2>3. QED
    BY <1>5, <2>1, <2>2
<1>7. JobsInv'
  <2>1. CASE jobs' = <<>> /\ Len(jobs') = 0
    BY <1>6, <2>1 DEF JobsInv
  <2>2. CASE jobs' = jobs /\ ~NoWorkerLeft'
    <3>1. Taken' = Taken
      BY <1>2, <2>2 DEF Taken
    <3>2. QED
      BY <1>6, <2>2, <3>1 DEF JobsInv
  <2>3. QED
    BY <1>5, <2>1, <2>2
<1>8. FramesInOrder'
  BY <1>2, <1>6, InvFacts DEF FramesInOrder
<1>9. DoneInv'
  <2>1. \A k \in 1..Len(done) : done[k].ok => done[k].part < Taken'
    BY <1>6, InvFacts DEF DoneInv
  <2>2. QED
    BY <1>2, <2>1 DEF DoneInv
<1>10. HandsInv'
  <2>1. \A v \in Workers : worker[v] = "encode" => hand[v] < Taken'
    BY <1>6, InvFacts DEF HandsInv
  <2>2. QED
    BY <1>2, <1>3, <1>4, <2>1 DEF HandsInv
<1>11. CleanInv'
  <2>1. SUFFICES ASSUME Clean' PROVE CleanInv'
    BY DEF CleanInv
  <2>2. Clean
    BY <1>2, <2>1
  <2>3. jobs = <<>>
    BY <1>2, <2>2 DEF CleanInv
  <2>4. jobs' = <<>> /\ Taken' = Taken
    BY <1>2, <1>5, <2>3 DEF Taken
  <2>5. QED
    BY <1>2, <1>3, <1>4, <2>2, <2>3, <2>4 DEF CleanInv
<1>12. OutcomeInv'
  BY <1>2 DEF OutcomeInv
<1>13. QED
  BY <1>1, <1>7, <1>8, <1>9, <1>10, <1>11, <1>12

\* The channel without its first message.
LEMMA TailOfDone ==
    ASSUME IInv, done # <<>>, done' = Tail(done)
    PROVE  /\ Len(done) \in Nat /\ Len(done) >= 1 /\ Len(done') = Len(done) - 1
           /\ 1 \in 1..Len(done) /\ Head(done) = done[1]
           /\ \A k \in 1..Len(done') : k + 1 \in 1..Len(done) /\ done'[k] = done[k + 1]
           /\ \A k \in 1..Len(done) : k = 1 \/ (k - 1 \in 1..Len(done') /\ done[k] = done'[k - 1])
<1>1. done \in Seq(MessageType) /\ Len(done) \in Nat
  BY InvFacts DEF IInv
<1>2. /\ Len(done) >= 1 /\ Len(done') = Len(done) - 1
      /\ Head(done) = done[1]
      /\ \A k \in 1..Len(done') : done'[k] = done[k + 1]
  BY <1>1, HeadTailProperties, EmptySeq
<1>3. \A k \in 1..Len(done') : k + 1 \in 1..Len(done)
  BY <1>1, <1>2
<1>4. ASSUME NEW k \in 1..Len(done), k # 1
      PROVE  k - 1 \in 1..Len(done') /\ done[k] = done'[k - 1]
  <2>1. k - 1 \in 1..Len(done') /\ (k - 1) + 1 = k
    BY <1>1, <1>2, <1>4
  <2>2. QED
    BY <1>2, <2>1
<1>5. 1 \in 1..Len(done)
  BY <1>1, <1>2
<1>6. QED
  BY <1>1, <1>2, <1>3, <1>4, <1>5

\* The orderer returns with an error, and what it held and what was on its way to
\* it is dropped.
LEMMA OrdererFails ==
    ASSUME IInv, NEW as \in {"failed", "never_arrived", "panic"}, OrdererReturns(as), Receiving,
           UNCHANGED <<walkVars, jobs, workerVars, late>>,
           panicked' \in BOOLEAN, panicked => panicked',
           as = "never_arrived" => panicked',
           failures' = failures \/ failures' = failures \union {"sink"}
    PROVE  IInv'
<1> USE DEF IInv
<1>1. /\ orderer' = as /\ early' = {} /\ done' = <<>> /\ Len(done') = 0 /\ frames' = frames
      /\ UNCHANGED <<main, walked, report, sequence, jobs, lock, worker, hand, late>>
      /\ orderer = "order"
  BY EmptySeq DEF OrdererReturns, walkVars, workerVars, Receiving
<1>2. TypeOK'
  <2>1. done' \in Seq([ok : BOOLEAN, part : Nat])
    BY <1>1, EmptySeq
  <2>2. failures' \in SUBSET {"walk", "encoder", "encode", "sink", "index"}
    BY DEF TypeOK
  <2>3. QED
    BY <1>1, <2>1, <2>2 DEF TypeOK
<1>3. /\ NextFrame' = NextFrame /\ Taken' = Taken /\ ~Clean'
      /\ NoWorkerLeft' <=> NoWorkerLeft
  BY <1>1 DEF NextFrame, Taken, Clean, NoWorkerLeft, Gone
<1>4. JobsInv' /\ FramesInOrder'
  BY <1>1, <1>3 DEF JobsInv, FramesInOrder
<1>5. DoneInv'
  BY <1>1 DEF DoneInv
<1>6. HandsInv'
  BY <1>1, <1>3 DEF HandsInv, InDone, Encodes
<1>7. CleanInv'
  BY <1>3 DEF CleanInv
<1>8. OutcomeInv'
  BY <1>1, <1>3 DEF OutcomeInv
<1>9. QED
  BY <1>2, <1>4, <1>5, <1>6, <1>7, <1>8

\* A part leaves the channel and is held back until its turn.
LEMMA ArriveInv ==
    ASSUME IInv, Arrive
    PROVE  IInv'
<1> USE DEF IInv
<1>1. /\ Receiving /\ done # <<>> /\ orderer = "order"
      /\ UNCHANGED <<walkVars, jobs, workerVars, panicked, failures, late>>
      /\ UNCHANGED <<main, walked, report, sequence, lock, worker, hand>>
  BY DEF Arrive, history, Receiving, walkVars, workerVars
<1>2. CASE ~Head(done).ok
  BY <1>1, <1>2, OrdererFails DEF Arrive, TypeOK
<1>3. CASE Head(done).ok
  <2> DEFINE q == Head(done).part
  <2>1. early' = early \union {q} /\ done' = Tail(done) /\ UNCHANGED <<orderer, frames>>
    BY <1>3 DEF Arrive
  <2>2. TypeOK'
    BY OrderingType DEF Ordering
  <2>3. /\ Len(done) \in Nat /\ Len(done) >= 1 /\ Len(done') = Len(done) - 1
        /\ 1 \in 1..Len(done) /\ Head(done) = done[1]
        /\ \A k \in 1..Len(done') : k + 1 \in 1..Len(done) /\ done'[k] = done[k + 1]
        /\ \A k \in 1..Len(done) : k = 1 \/ (k - 1 \in 1..Len(done') /\ done[k] = done'[k - 1])
    BY <1>1, <2>1, TailOfDone
  <2>4. /\ q \in Nat /\ NextFrame <= q /\ q < Taken /\ q \notin early
        /\ \A l \in 1..Len(done) : done[l].ok /\ done[l].part = q => l = 1
    BY <1>3, <2>3, InvFacts DEF DoneInv
  <2>5. /\ NextFrame' = NextFrame /\ Taken' = Taken
        /\ NoWorkerLeft' <=> NoWorkerLeft
        /\ \A v \in Workers : \A p : Encodes(v, p)' <=> Encodes(v, p)
    BY <1>1, <2>1 DEF NextFrame, Taken, NoWorkerLeft, Gone, Encodes
  <2>6. \A p : InDone(p)' => InDone(p)
    BY <2>3 DEF InDone
  <2>7. \A p : InDone(p) => InDone(p)' \/ p = q
    BY <2>3 DEF InDone
  <2>8. InDone(q)
    BY <1>3, <2>3 DEF InDone
  <2>9. JobsInv'
    BY <1>1, <2>5 DEF JobsInv
  <2>10. FramesInOrder'
    BY <2>1, <2>4, <2>5 DEF FramesInOrder
  <2>11. DoneInv'
    <3>1. ASSUME NEW k \in 1..Len(done'), done'[k].ok
          PROVE  /\ NextFrame <= done'[k].part /\ done'[k].part < Taken
                 /\ done'[k].part \notin early \union {q}
                 /\ \A l \in 1..Len(done') : done'[l].ok /\ done'[l].part = done'[k].part => l = k
      <4>1. k + 1 \in 1..Len(done) /\ done'[k] = done[k + 1] /\ done[k + 1].ok /\ k + 1 # 1
        BY <2>3, <3>1
      <4>2. /\ NextFrame <= done[k + 1].part /\ done[k + 1].part < Taken
            /\ done[k + 1].part \notin early
            /\ \A l \in 1..Len(done) : done[l].ok /\ done[l].part = done[k + 1].part => l = k + 1
        BY <4>1 DEF DoneInv
      <4>3. done[k + 1].part # q
        BY <2>4, <4>1
      <4>4. ASSUME NEW l \in 1..Len(done'), done'[l].ok, done'[l].part = done'[k].part
            PROVE  l = k
        <5>1. l + 1 \in 1..Len(done) /\ done'[l] = done[l + 1]
          BY <2>3
        <5>2. l + 1 = k + 1
          BY <4>1, <4>2, <4>4, <5>1
        <5>3. QED
          BY <5>2
      <4>5. QED
        BY <4>1, <4>2, <4>3, <4>4
    <3>2. QED
      BY <2>1, <2>5, <3>1 DEF DoneInv
  <2>12. HandsInv'
    <3>1. ASSUME NEW v \in Workers, worker[v] = "encode"
          PROVE  /\ NextFrame <= hand[v] /\ hand[v] < Taken
                 /\ hand[v] \notin early \union {q}
                 /\ ~(\E k \in 1..Len(done') : done'[k].ok /\ done'[k].part = hand[v])
                 /\ \A u \in Workers : Encodes(u, hand[v]) => u = v
      <4>1. /\ NextFrame <= hand[v] /\ hand[v] < Taken /\ hand[v] \notin early
            /\ ~InDone(hand[v])
            /\ \A u \in Workers : Encodes(u, hand[v]) => u = v
        BY <3>1 DEF HandsInv
      <4>2. hand[v] # q
        BY <2>8, <4>1
      <4>3. ~(\E k \in 1..Len(done') : done'[k].ok /\ done'[k].part = hand[v])
        BY <2>3, <4>1 DEF InDone
      <4>4. QED
        BY <4>1, <4>2, <4>3
    <3>2. QED
      BY <1>1, <2>1, <2>5, <3>1 DEF HandsInv, InDone, Encodes
  <2>13. CleanInv'
    <3>1. SUFFICES ASSUME Clean' PROVE CleanInv'
      BY DEF CleanInv
    <3>2. Clean
      <4>1. \A k \in 1..Len(done) : done[k].ok
        BY <1>3, <2>3, <3>1 DEF Clean
      <4>2. QED
        BY <1>1, <2>1, <3>1, <4>1 DEF Clean
    <3>3. ASSUME NEW p \in 0..(Taken - 1)
          PROVE  p < NextFrame \/ p \in early' \/ InDone(p)' \/ \E v \in Workers : Encodes(v, p)
      <4>1. p < NextFrame \/ p \in early \/ InDone(p) \/ \E v \in Workers : Encodes(v, p)
        BY <3>2 DEF CleanInv
      <4>2. QED
        BY <2>1, <2>7, <4>1
    <3>4. QED
      BY <1>1, <2>5, <3>2, <3>3 DEF CleanInv
  <2>14. OutcomeInv'
    BY <1>1, <2>1, <2>5 DEF OutcomeInv
  <2>15. QED
    BY <2>2, <2>9, <2>10, <2>11, <2>12, <2>13, <2>14
<1>4. QED
  BY <1>2, <1>3

\* The sink is given the next frame.
LEMMA HandOutInv ==
    ASSUME IInv, HandOut
    PROVE  IInv'
<1> USE DEF IInv
<1>1. /\ Receiving /\ orderer = "order" /\ NextFrame \in early
      /\ UNCHANGED <<walkVars, jobs, workerVars, late>>
      /\ UNCHANGED <<main, walked, report, sequence, lock, worker, hand>>
  BY DEF HandOut, Receiving, walkVars, workerVars
<1>2. CASE OrdererReturns("failed") /\ failures' = failures \union {"sink"} /\ UNCHANGED panicked
  BY <1>1, <1>2, OrdererFails DEF TypeOK
<1>3. CASE OrdererReturns("panic") /\ panicked' = TRUE /\ UNCHANGED failures
  BY <1>1, <1>3, OrdererFails
<1>4. CASE /\ frames' = Append(frames, NextFrame)
           /\ early' = early \ {NextFrame}
           /\ UNCHANGED <<orderer, done, panicked, failures>>
  <2>1. TypeOK'
    BY OrderingType DEF Ordering
  <2>2. /\ Len(frames) = NextFrame /\ NextFrame \in Nat
        /\ Len(frames') = NextFrame + 1
        /\ \A k \in 1..NextFrame : frames'[k] = frames[k]
        /\ frames'[NextFrame + 1] = NextFrame
    BY <1>4, InvFacts, AppendProperties DEF NextFrame
  <2>3. NextFrame' = NextFrame + 1
    BY <2>2 DEF NextFrame
  <2>4. /\ Taken' = Taken /\ Clean' = Clean
        /\ NoWorkerLeft' <=> NoWorkerLeft
        /\ \A p : InDone(p)' <=> InDone(p)
        /\ \A v \in Workers : \A p : Encodes(v, p)' <=> Encodes(v, p)
    BY <1>1, <1>4 DEF Taken, Clean, NoWorkerLeft, Gone, InDone, Encodes
  <2>5. JobsInv'
    BY <1>1, <2>4 DEF JobsInv
  <2>6. NextFrame + 1 <= Taken /\ Taken \in Nat
    BY <1>1, <2>2, InvFacts DEF FramesInOrder
  <2>7. FramesInOrder'
    <3>1. \A k \in 1..Len(frames') : frames'[k] = k - 1
      <4>1. \A k \in 1..Len(frames') : k \in 1..NextFrame \/ k = NextFrame + 1
        BY <2>2
      <4>2. \A k \in 1..NextFrame : frames[k] = k - 1
        BY <2>2 DEF FramesInOrder
      <4>3. QED
        BY <2>2, <4>1, <4>2
    <3>2. \A p \in early' : p \in Nat /\ NextFrame <= p /\ p # NextFrame /\ p < Taken
      BY <1>4, InvFacts DEF FramesInOrder
    <3>3. \A p \in early' : NextFrame' <= p /\ p < Taken
      BY <2>2, <2>3, <3>2
    <3>4. QED
      BY <2>2, <2>4, <2>6, <3>1, <3>3 DEF FramesInOrder
  <2>8. DoneInv'
    <3>1. ASSUME NEW k \in 1..Len(done), done[k].ok
          PROVE  /\ NextFrame + 1 <= done[k].part /\ done[k].part < Taken
                 /\ done[k].part \notin early'
      <4>1. /\ done[k].part \in Nat /\ NextFrame <= done[k].part /\ done[k].part < Taken
            /\ done[k].part \notin early
        BY <3>1, InvFacts DEF DoneInv
      <4>2. done[k].part # NextFrame
        BY <1>1, <4>1
      <4>3. done[k].part \notin early'
        BY <1>4, <4>1
      <4>4. QED
        BY <2>2, <4>1, <4>2, <4>3
    <3>2. QED
      BY <1>4, <2>3, <2>4, <3>1 DEF DoneInv
  <2>9. HandsInv'
    <3>1. ASSUME NEW v \in Workers, worker[v] = "encode"
          PROVE  NextFrame + 1 <= hand[v] /\ hand[v] \notin early'
      <4>1. hand[v] \in Nat /\ NextFrame <= hand[v] /\ hand[v] \notin early
        BY <3>1, InvFacts DEF HandsInv
      <4>2. hand[v] # NextFrame
        BY <1>1, <4>1
      <4>3. hand[v] \notin early'
        BY <1>4, <4>1
      <4>4. QED
        BY <2>2, <4>1, <4>2, <4>3
    <3>2. \A v \in Workers : worker[v] = "encode" =>
            /\ hand[v] < Taken /\ ~InDone(hand[v])
            /\ \A u \in Workers : Encodes(u, hand[v]) => u = v
      BY DEF HandsInv
    <3>3. QED
      BY <1>1, <1>4, <2>3, <2>4, <3>1, <3>2 DEF HandsInv, InDone, Encodes
  <2>10. CleanInv'
    <3>1. ASSUME Clean, NEW p \in 0..(Taken - 1)
          PROVE  p < NextFrame + 1 \/ p \in early' \/ InDone(p) \/ \E v \in Workers : Encodes(v, p)
      <4>1. p < NextFrame \/ p \in early \/ InDone(p) \/ \E v \in Workers : Encodes(v, p)
        BY <3>1 DEF CleanInv
      <4>2. p < NextFrame => p < NextFrame + 1
        BY <2>2, <2>6
      <4>3. p \in early => p \in early' \/ p = NextFrame
        BY <1>4
      <4>4. p = NextFrame => p < NextFrame + 1
        BY <2>2
      <4>5. QED
        BY <4>1, <4>2, <4>3, <4>4
    <3>2. QED
      BY <1>1, <1>4, <2>3, <2>4, <3>1 DEF CleanInv
  <2>11. OutcomeInv'
    BY <1>1, <1>4, <2>4 DEF OutcomeInv
  <2>12. QED
    BY <2>1, <2>5, <2>7, <2>8, <2>9, <2>10, <2>11
<1>5. QED
  BY <1>2, <1>3, <1>4 DEF HandOut

\* With every worker gone, every part that was taken has been handed out, unless
\* something failed.
LEMMA NothingLeft ==
    ASSUME IInv, NoWorkerLeft, Clean, done = <<>>, NextFrame \notin early
    PROVE  NextFrame = sequence /\ early = {} /\ jobs = <<>> /\ Taken = sequence
<1> USE DEF IInv
<1>1. jobs = <<>> /\ Len(jobs) = 0 /\ Taken = sequence /\ Taken \in Nat /\ NextFrame \in Nat
  BY InvFacts, EmptySeq DEF JobsInv
<1>2. \A p : ~InDone(p)
  BY EmptySeq DEF InDone
<1>3. \A w \in Workers : \A p : ~Encodes(w, p)
  BY DEF NoWorkerLeft, Gone, Encodes
<1>4. NextFrame <= Taken
  BY DEF FramesInOrder, NextFrame
<1>5. ~(NextFrame < Taken)
  <2>1. SUFFICES ASSUME NextFrame < Taken PROVE FALSE
    OBVIOUS
  <2>2. NextFrame \in 0..(Taken - 1) /\ ~(NextFrame < NextFrame)
    BY <1>1, <2>1
  <2>3. QED
    BY <1>2, <1>3, <2>2 DEF CleanInv
<1>6. NextFrame = Taken
  BY <1>1, <1>4, <1>5
<1>7. \A p \in early : FALSE
  <2>1. \A p \in early : p \in Nat /\ NextFrame <= p /\ p < Taken
    BY InvFacts DEF FramesInOrder
  <2>2. QED
    BY <1>1, <1>6, <2>1
<1>8. QED
  BY <1>1, <1>6, <1>7

\* The channel is empty and nobody is left to fill it.
LEMMA NoMoreToComeInv ==
    ASSUME IInv, NoMoreToCome
    PROVE  IInv'
<1> USE DEF IInv
<1>1. /\ Receiving /\ orderer = "order" /\ NextFrame \notin early /\ done = <<>> /\ NoWorkerLeft
      /\ UNCHANGED <<walkVars, jobs, workerVars, panicked, failures, late>>
      /\ UNCHANGED <<main, walked, report, sequence, lock, worker, hand>>
  BY DEF NoMoreToCome, Receiving, walkVars, workerVars, history
<1>2. CASE early # {}
  <2>1. OrdererReturns("never_arrived")
    BY <1>2 DEF NoMoreToCome
  <2>2. panicked
    <3>1. ~Clean
      BY <1>1, <1>2, NothingLeft
    <3>2. Len(done) = 0
      BY <1>1, EmptySeq
    <3>3. QED
      BY <1>1, <3>1, <3>2 DEF Clean
  <2>3. QED
    BY <1>1, <2>1, <2>2, OrdererFails DEF TypeOK
<1>3. CASE early = {}
  <2>1. orderer' = "ok" /\ early' = {} /\ done' = done /\ frames' = frames
    BY <1>1, <1>3 DEF NoMoreToCome, OrdererReturns
  <2>2. TypeOK'
    BY OrderingType DEF Ordering
  <2>3. /\ NextFrame' = NextFrame /\ Taken' = Taken
        /\ NoWorkerLeft' <=> NoWorkerLeft
        /\ \A p : InDone(p)' <=> InDone(p)
        /\ \A v \in Workers : \A p : Encodes(v, p)' <=> Encodes(v, p)
    BY <1>1, <2>1 DEF NextFrame, Taken, NoWorkerLeft, Gone, InDone, Encodes
  <2>4. Clean' => Clean
    BY <1>1, <2>1 DEF Clean
  <2>5. JobsInv' /\ FramesInOrder' /\ DoneInv' /\ HandsInv'
    BY <1>1, <1>3, <2>1, <2>3 DEF JobsInv, FramesInOrder, DoneInv, HandsInv
  <2>6. CleanInv'
    BY <1>1, <1>3, <2>1, <2>3, <2>4 DEF CleanInv
  <2>7. OutcomeInv'
    BY <1>1, <2>1, <2>3 DEF OutcomeInv
  <2>8. QED
    BY <2>2, <2>5, <2>6, <2>7
<1>4. QED
  BY <1>2, <1>3

LEMMA InvStep ==
    ASSUME IInv, [Next]_vars
    PROVE  IInv'
<1>1. CASE UNCHANGED vars
  <2> USE <1>1 DEF IInv, vars, walkVars, workerVars, ordererVars, history
  <2>1. TypeOK'
    BY TypeStep
  <2>2. /\ UNCHANGED <<main, walked, report, sequence, jobs, lock, worker, hand, done>>
        /\ UNCHANGED <<orderer, early, frames, panicked, failures, late>>
    OBVIOUS
  <2>3. Taken' = Taken /\ NextFrame' = NextFrame /\ Clean' = Clean /\ NoWorkerLeft' = NoWorkerLeft
    BY <2>2 DEF Taken, NextFrame, Clean, NoWorkerLeft, Gone
  <2>4. JobsInv' /\ FramesInOrder' /\ DoneInv'
    BY <2>2, <2>3 DEF JobsInv, FramesInOrder, DoneInv
  <2>5. HandsInv'
    BY <2>2, <2>3 DEF HandsInv, InDone, Encodes
  <2>6. CleanInv'
    BY <2>2, <2>3 DEF CleanInv, InDone, Encodes
  <2>7. OutcomeInv'
    BY <2>2, <2>3 DEF OutcomeInv
  <2>8. QED
    BY <2>1, <2>4, <2>5, <2>6, <2>7
<1>2. CASE Calling
  BY <1>2, CallingInv
<1>3. ASSUME NEW w \in Workers, Work(w) PROVE IInv'
  BY <1>3, NewEncoderInv, LockInv, ReceiveInv, EncodeInv, StopInv DEF Work
<1>4. CASE Ordering
  BY <1>4, ArriveInv, HandOutInv, NoMoreToComeInv DEF Ordering
<1>5. QED
  BY <1>1, <1>2, <1>3, <1>4 DEF Next, Terminating

\* Every reachable state says where each part of the walk is.
THEOREM PartsAreKept == Spec => []IInv
<1>1. Init => IInv
  BY InvInit
<1>2. IInv /\ [Next]_vars => IInv'
  BY InvStep
<1>3. QED
  BY <1>1, <1>2, PTL DEF Spec

-----------------------------------------------------------------------------
(* What write_frames promises.                                             *)

\* The scope is left without an error only when everything has been handed out.
LEMMA LeftScope ==
    ASSUME IInv, orderer = "ok", ~panicked
    PROVE  /\ Clean /\ NoWorkerLeft /\ NextFrame = sequence
           /\ walked # "send_error"
<1>1. done = <<>> /\ early = {} /\ NoWorkerLeft /\ Len(done) = 0
  BY EmptySeq DEF IInv, OutcomeInv
<1>2. Clean
  BY <1>1 DEF Clean
<1>3. NextFrame = sequence
  BY <1>1, <1>2, NothingLeft
<1>4. QED
  BY <1>1, <1>2, <1>3 DEF IInv, CleanInv

LEMMA CompleteInv == IInv => OkIsComplete
<1> SUFFICES ASSUME IInv, main \in {"index", "ok"}
             PROVE  frames = [k \in 1..sequence |-> k - 1] /\ walked = "ok"
  BY DEF OkIsComplete
<1>1. orderer = "ok" /\ ~panicked /\ walked = "ok"
  BY DEF IInv, OutcomeInv
<1>2. Len(frames) = sequence
  BY <1>1, LeftScope DEF NextFrame
<1>3. \A k \in 1..sequence : frames[k] = k - 1
  BY <1>2 DEF IInv, FramesInOrder
<1>4. frames \in Seq(Nat)
  BY DEF IInv, TypeOK
<1>5. DOMAIN frames = 1..sequence /\ frames = [k \in DOMAIN frames |-> frames[k]]
  BY <1>2, <1>4, LenProperties
<1>6. frames = [k \in 1..sequence |-> k - 1]
  BY <1>3, <1>5
<1>7. QED
  BY <1>1, <1>6

\* A write that succeeds has given the sink every part of the walk, in walk order
\* and once each, before the index: whatever the number of threads and however
\* their steps interleave.
THEOREM CompleteWhenOk == Spec => []OkIsComplete
  BY PartsAreKept, CompleteInv, PTL

LEMMA ReportedInv == IInv => FailuresAreReported
<1> SUFFICES ASSUME IInv, main = "ok" PROVE failures = {} /\ ~panicked
  BY DEF FailuresAreReported
<1>1. /\ orderer = "ok" /\ ~panicked /\ walked = "ok"
      /\ "index" \notin failures /\ "walk" \notin failures
  BY DEF IInv, OutcomeInv
<1>2. Clean
  BY <1>1, LeftScope
<1>3. failures \subseteq {"walk", "index"}
  BY <1>2 DEF IInv, CleanInv
<1>4. QED
  BY <1>1, <1>3

\* A write that succeeds has met no failure and no panic in any of its threads.
THEOREM NoFailureIsLost == Spec => []FailuresAreReported
  BY PartsAreKept, ReportedInv, PTL

LEMMA LosesInv == IInv => OnlyAPanicLosesAPart
  BY DEF IInv, OutcomeInv, OnlyAPanicLosesAPart

\* The orderer finds a part missing only when a worker has panicked with it.
THEOREM OnlyPanicsLoseParts == Spec => []OnlyAPanicLosesAPart
  BY PartsAreKept, LosesInv, PTL

LEMMA ExplainedInv == IInv => SendErrorIsExplained
<1> SUFFICES ASSUME IInv, report = "walk" PROVE walked = "walk_error"
  BY DEF SendErrorIsExplained
<1>1. orderer = "ok" /\ ~panicked /\ walked \notin {"running", "ok"}
  BY DEF IInv, OutcomeInv
<1>2. walked # "send_error"
  BY <1>1, LeftScope
<1>3. QED
  BY <1>1, <1>2 DEF IInv, TypeOK

\* The error of a walk that nobody listened to is never the one returned.
THEOREM SendErrorsAreExplained == Spec => []SendErrorIsExplained
  BY PartsAreKept, ExplainedInv, PTL

-----------------------------------------------------------------------------
(* Every error has a cause.                                                *)

LEMMA CausesStep ==
    ASSUME IInv, CausesInv, [Next]_vars
    PROVE  CausesInv'
<1>1. failures \subseteq failures' /\ (panicked => panicked')
  <2>1. CASE UNCHANGED vars
    BY <2>1 DEF vars, history
  <2>2. CASE Calling
    BY <2>2 DEF Calling, SealPart, SendJob, SendFails, WalkEnds, LeaveScope, WriteIndex, history
  <2>3. ASSUME NEW w \in Workers, Work(w)
        PROVE  failures \subseteq failures' /\ (panicked => panicked')
    BY <2>3 DEF Work, NewEncoder, Lock, Receive, Encode, Stop, history
  <2>4. CASE Ordering
    BY <2>4 DEF Ordering, Arrive, HandOut, NoMoreToCome, history
  <2>5. QED
    BY <2>1, <2>2, <2>3, <2>4 DEF Next, Terminating
<1>2. ASSUME NEW k \in 1..Len(done'), ~done'[k].ok
      PROVE  failures' # {}
  <2>1. CASE done' = done
    BY <1>1, <1>2, <2>1 DEF CausesInv
  <2>2. CASE done' = <<>>
    BY <1>2, <2>2, EmptySeq
  <2>3. CASE done # <<>> /\ done' = Tail(done)
    BY <1>1, <1>2, <2>3, TailOfDone DEF CausesInv
  <2>4. ASSUME NEW w \in Workers, Work(w), done' # done
        PROVE  failures' # {}
    <3>1. CASE done' = Append(done, Failure)
      <4>1. NewEncoder(w) \/ Encode(w)
        BY <2>4 DEF Work, Lock, Receive, Stop
      <4>2. CASE failures' # {}
        BY <4>2
      <4>3. CASE failures' = {}
        <5>1. ~NewEncoder(w)
          BY <2>4, <4>3 DEF NewEncoder
        <5>2. done' = Append(done, Part(hand[w]))
          BY <2>4, <4>1, <4>3, <5>1 DEF Encode, SendDone
        <5>3. Part(hand[w]) \in MessageType /\ done \in Seq(MessageType)
          BY InvFacts, MessageTypes DEF IInv
        <5>4. done'[Len(done) + 1] = Part(hand[w])
          BY <5>2, <5>3, AppendProperties
        <5>5. done'[Len(done) + 1] = Failure
          BY <3>1, <5>3, MessageTypes, AppendProperties
        <5>6. QED
          BY <5>4, <5>5 DEF Part, Failure
      <4>4. QED
        BY <4>2, <4>3
    <3>2. CASE done' # Append(done, Failure)
      <4>1. done' = Append(done, Part(hand[w]))
        BY <2>4, <3>2 DEF Work, NewEncoder, Encode, Lock, Receive, Stop, SendDone, history
      <4>2. Part(hand[w]) \in MessageType /\ done \in Seq(MessageType) /\ Len(done) \in Nat
        BY InvFacts, MessageTypes DEF IInv
      <4>3. /\ Len(done') = Len(done) + 1
            /\ \A l \in 1..Len(done) : done'[l] = done[l]
            /\ done'[Len(done) + 1] = Part(hand[w])
        BY <4>1, <4>2, AppendProperties
      <4>4. k \in 1..Len(done) \/ k = Len(done) + 1
        BY <4>2, <4>3
      <4>5. Part(hand[w]).ok
        BY DEF Part
      <4>6. k \in 1..Len(done) /\ done'[k] = done[k]
        BY <1>2, <4>3, <4>4, <4>5
      <4>7. QED
        BY <1>1, <1>2, <4>6 DEF CausesInv
    <3>3. QED
      BY <3>1, <3>2
  <2>5. CASE UNCHANGED vars
    BY <2>1, <2>5 DEF vars
  <2>6. CASE Calling
    <3>1. done' = done
      BY <2>6 DEF Calling, SealPart, SendJob, SendFails, WalkEnds, LeaveScope, WriteIndex
    <3>2. QED
      BY <2>1, <3>1
  <2>7. CASE Ordering
    <3>1. done' = done \/ done' = <<>> \/ (done # <<>> /\ done' = Tail(done))
      BY <2>7 DEF Ordering, Arrive, HandOut, NoMoreToCome, OrdererReturns
    <3>2. QED
      BY <2>1, <2>2, <2>3, <3>1
  <2>8. QED
    BY <2>1, <2>4, <2>5, <2>6, <2>7 DEF Next, Terminating
<1>3. orderer' = "failed" => failures' # {}
  <2>1. CASE orderer' = orderer
    BY <1>1, <2>1 DEF CausesInv
  <2>2. CASE Arrive
    <3>1. CASE Head(done).ok
      BY <2>1, <2>2, <3>1 DEF Arrive
    <3>2. CASE ~Head(done).ok
      <4>1. done # <<>> /\ done \in Seq(MessageType)
        BY <2>2, InvFacts DEF Arrive, IInv
      <4>2. 1 \in 1..Len(done) /\ Head(done) = done[1]
        BY <4>1, HeadTailProperties, EmptySeq, LenProperties
      <4>3. QED
        BY <1>1, <3>2, <4>2 DEF CausesInv
    <3>3. QED
      BY <3>1, <3>2
  <2>3. CASE HandOut
    BY <2>1, <2>3 DEF HandOut, OrdererReturns
  <2>4. CASE NoMoreToCome
    BY <2>4 DEF NoMoreToCome, OrdererReturns
  <2>5. orderer' = orderer \/ Arrive \/ HandOut \/ NoMoreToCome
    BY DEF Next, Terminating, Ordering, Calling, SealPart, SendJob, SendFails, WalkEnds, LeaveScope,
           WriteIndex, Work, NewEncoder, Lock, Receive, Encode, Stop, vars, ordererVars
  <2>6. QED
    BY <2>1, <2>2, <2>3, <2>4, <2>5
<1>4. orderer' = "panic" => panicked'
  <2>1. orderer' = orderer \/ Arrive \/ HandOut \/ NoMoreToCome
    BY DEF Next, Terminating, Ordering, Calling, SealPart, SendJob, SendFails, WalkEnds, LeaveScope,
           WriteIndex, Work, NewEncoder, Lock, Receive, Encode, Stop, vars, ordererVars
  <2>2. QED
    BY <1>1, <2>1 DEF CausesInv, Arrive, HandOut, NoMoreToCome, OrdererReturns
<1>5. main' = "error" => failures' # {}
  <2>1. CASE main' = main
    BY <1>1, <2>1 DEF CausesInv
  <2>2. CASE LeaveScope
    <3>1. CASE main' # "error"
      BY <3>1
    <3>2. CASE main' = "error" /\ orderer # "ok"
      <4>1. ~panicked /\ orderer # "order"
        BY <2>2, <3>2 DEF LeaveScope, Return, Receiving
      <4>2. orderer = "failed"
        BY <3>2, <4>1 DEF IInv, OutcomeInv, CausesInv, TypeOK
      <4>3. QED
        BY <1>1, <4>2 DEF CausesInv
    <3>3. CASE main' = "error" /\ orderer = "ok"
      <4>1. ~panicked /\ walked # "ok" /\ main = "join"
        BY <2>2, <3>3 DEF LeaveScope, Return
      <4>2. walked # "running" /\ walked # "send_error"
        BY <3>3, <4>1, LeftScope DEF IInv, OutcomeInv
      <4>3. walked = "walk_error"
        BY <4>1, <4>2 DEF IInv, TypeOK
      <4>4. "walk" \in failures
        BY <4>3 DEF IInv, OutcomeInv
      <4>5. QED
        BY <1>1, <4>4
    <3>4. QED
      BY <3>1, <3>2, <3>3
  <2>3. CASE main' # "error"
    BY <2>3
  <2>4. CASE WriteIndex
    BY <2>4 DEF WriteIndex, Return
  <2>5. main' = main \/ main' # "error" \/ LeaveScope \/ WriteIndex
    BY DEF Next, Terminating, Calling, SealPart, SendJob, SendFails, WalkEnds, EndWalk, Ordering, Arrive,
           HandOut, NoMoreToCome, Work, NewEncoder, Lock, Receive, Encode, Stop, vars, walkVars
  <2>6. QED
    BY <2>1, <2>2, <2>3, <2>4, <2>5
<1>6. QED
  BY <1>2, <1>3, <1>4, <1>5 DEF CausesInv

\* A write that fails has met a failure in one of its threads: no order of their
\* steps makes an error of its own.
THEOREM EveryErrorHasACause == Spec => []ErrorsHaveCauses
<1>1. Init => CausesInv
  BY EmptySeq DEF Init, CausesInv
<1>2. IInv /\ CausesInv /\ [Next]_vars => CausesInv'
  BY CausesStep
<1>3. CausesInv => ErrorsHaveCauses
  BY DEF CausesInv, ErrorsHaveCauses
<1>4. QED
  BY PartsAreKept, <1>1, <1>2, <1>3, PTL DEF Spec

-----------------------------------------------------------------------------
(* How much waits.                                                         *)

\* Any set of workers is finite, and no larger than the queue.
LEMMA WorkerCount ==
    ASSUME NEW W, W \subseteq Workers
    PROVE  /\ IsFiniteSet(W)
           /\ Cardinality(W) \in 0..Threads
           /\ Threads \in Nat \ {0}
<1>1. IsFiniteSet(Workers) /\ Workers # {}
  BY FramesAssumption DEF FramesAssumption
<1>2. IsFiniteSet(W) /\ Cardinality(W) <= Cardinality(Workers)
  BY <1>1, FS_Subset
<1>3. Cardinality(W) \in Nat /\ Cardinality(Workers) \in Nat
  BY <1>1, <1>2, FS_CardinalityType
<1>4. Cardinality(Workers) # 0
  BY <1>1, FS_EmptySet
<1>5. QED
  BY <1>2, <1>3, <1>4 DEF Threads

LEMMA MoreWorkers ==
    ASSUME NEW V, NEW W, V \subseteq W, W \subseteq Workers
    PROVE  Cardinality(V) <= Cardinality(W)
  BY WorkerCount, FS_Subset

LEMMA OneMoreWorker ==
    ASSUME NEW V, NEW w \in Workers, V \subseteq Workers, w \notin V
    PROVE  Cardinality(V \union {w}) = Cardinality(V) + 1
  BY WorkerCount, FS_AddElement

LEMMA CountsInit == Init => CountsInv
<1> SUFFICES ASSUME Init PROVE CountsInv
  OBVIOUS
<1>1. Occupied \subseteq Workers
  BY DEF Occupied
<1>2. Cardinality(Occupied) \in Nat /\ Threads \in Nat
  BY <1>1, WorkerCount
<1>3. jobs = <<>> /\ Len(jobs) = 0 /\ late = 0 /\ main = "walk"
  BY EmptySeq DEF Init
<1>4. QED
  BY <1>2, <1>3 DEF CountsInv, Queued

\* Occupied workers stay so while nobody hears of what they encode.
LEMMA OccupiedGrows ==
    ASSUME TypeOK, ~Receiving, NEW w \in Workers, Work(w)
    PROVE  /\ Occupied \subseteq Occupied'
           /\ Receive(w) => w \notin Occupied /\ w \in Occupied'
           /\ \A v \in Workers : Gone(v) => Gone(v)'
<1>0. \A v \in Workers \ {w} : worker'[v] = worker[v]
  BY DEF TypeOK, Work, NewEncoder, Lock, Receive, Encode, Stop, SendDone, Receiving
<1>1. w \in Occupied => w \in Occupied'
  BY DEF TypeOK, Occupied, Work, NewEncoder, Lock, Receive, Encode, Stop, SendDone, Receiving
<1>2. Receive(w) => w \notin Occupied /\ w \in Occupied'
  BY DEF TypeOK, Occupied, Receive
<1>3. Gone(w) => Gone(w)'
  BY DEF Gone, Work, NewEncoder, Lock, Receive, Encode, Stop
<1>4. QED
  BY <1>0, <1>1, <1>2, <1>3 DEF Occupied, Gone

LEMMA CountsStep ==
    ASSUME IInv, CountsInv, [Next]_vars
    PROVE  CountsInv'
<1>0. /\ TypeOK /\ jobs \in Seq(Nat) /\ Len(jobs) \in Nat /\ late \in Nat
      /\ Len(jobs) <= Threads
      /\ Receiving => late = 0
      /\ late <= Queued + Cardinality(Occupied) + (IF main = "walk" THEN 0 ELSE 1)
  BY LenProperties DEF IInv, TypeOK, CountsInv
<1>1. /\ Threads \in Nat \ {0}
      /\ Cardinality(Occupied) \in 0..Threads
      /\ Cardinality(Occupied') \in 0..Threads
      /\ Threads' = Threads
  <2>1. Occupied \subseteq Workers /\ Occupied' \subseteq Workers
    BY DEF Occupied
  <2>2. Threads' = Threads
    BY DEF Threads
  <2>3. QED
    BY <2>1, <2>2, WorkerCount
<1>2. Queued \in Nat
  BY <1>0, <1>1 DEF Queued
<1>3. ASSUME UNCHANGED worker, Len(jobs') = Len(jobs)
      PROVE  Queued' = Queued /\ Cardinality(Occupied') = Cardinality(Occupied)
  BY <1>1, <1>3 DEF Queued, NoWorkerLeft, Gone, Occupied
<1>4. CASE UNCHANGED vars
  BY <1>0, <1>3, <1>4 DEF vars, walkVars, workerVars, ordererVars, history, CountsInv, Receiving
<1>5. CASE Calling
  <2>1. CASE SealPart
    BY <1>0, <1>1, <1>2, <1>3, <2>1 DEF SealPart, workerVars, ordererVars, CountsInv, Receiving
  <2>2. CASE SendJob
    <3>1. jobs' \in Seq(Nat) /\ Len(jobs') = Len(jobs) + 1
      BY <1>0, <2>2, AppendProperties DEF SendJob, TypeOK
    <3>2. Queued' = Queued + 1 /\ Cardinality(Occupied') = Cardinality(Occupied)
      BY <2>2, <3>1 DEF SendJob, workerVars, Queued, NoWorkerLeft, Gone, Occupied
    <3>3. QED
      BY <1>0, <1>1, <1>2, <2>2, <3>1, <3>2
         DEF SendJob, workerVars, ordererVars, history, CountsInv, Receiving
  <2>3. CASE SendFails \/ WalkEnds
    BY <1>0, <1>1, <1>2, <1>3, <2>3
       DEF SendFails, WalkEnds, EndWalk, workerVars, ordererVars, history, CountsInv, Receiving
  <2>4. CASE LeaveScope \/ WriteIndex
    BY <1>0, <1>1, <1>2, <1>3, <2>4
       DEF LeaveScope, WriteIndex, Return, workerVars, ordererVars, history, CountsInv, Receiving
  <2>5. QED
    BY <1>5, <2>1, <2>2, <2>3, <2>4 DEF Calling
<1>6. ASSUME NEW w \in Workers, Work(w)
      PROVE  CountsInv'
  <2>1. UNCHANGED <<main, late, orderer>>
    BY <1>6 DEF Work, NewEncoder, Lock, Receive, Encode, Stop, walkVars, ordererVars, history
  <2>2. /\ Len(jobs') \in Nat /\ Len(jobs') <= Len(jobs)
        /\ ~Receive(w) => jobs' = jobs \/ NoWorkerLeft'
        /\ Receive(w) => Len(jobs') + 1 = Len(jobs) \/ jobs' = jobs
    <3>1. CASE Receive(w)
      BY <1>0, <3>1, HeadTailProperties, EmptySeq DEF Receive
    <3>2. CASE Stop(w)
      <4>1. CASE \A v \in Workers \ {w} : Gone(v)
        <5>1. jobs' = <<>> /\ Len(jobs') = 0
          BY <3>2, <4>1, EmptySeq DEF Stop
        <5>2. NoWorkerLeft'
          BY <1>0, <3>2, <4>1 DEF Stop, NoWorkerLeft, Gone, TypeOK
        <5>3. QED
          BY <1>0, <3>2, <5>1, <5>2 DEF Stop, Receive
      <4>2. CASE ~\A v \in Workers \ {w} : Gone(v)
        BY <1>0, <3>2, <4>2 DEF Stop, Receive
      <4>3. QED
        BY <4>1, <4>2
    <3>3. CASE NewEncoder(w) \/ Lock(w) \/ Encode(w)
      BY <1>0, <3>3 DEF NewEncoder, Lock, Encode, Receive
    <3>4. QED
      BY <1>6, <3>1, <3>2, <3>3 DEF Work
  <2>3. CASE Receiving
    BY <1>0, <1>1, <2>1, <2>2, <2>3 DEF CountsInv, Receiving, Queued
  <2>4. CASE ~Receiving
    <3>1. /\ Occupied \subseteq Occupied'
          /\ Receive(w) => w \notin Occupied /\ w \in Occupied'
          /\ \A v \in Workers : Gone(v) => Gone(v)'
      BY <1>0, <1>6, <2>4, OccupiedGrows
    <3>2. Occupied' \subseteq Workers /\ Occupied \subseteq Workers
      BY DEF Occupied
    <3>3. Cardinality(Occupied) <= Cardinality(Occupied')
      BY <3>1, <3>2, MoreWorkers
    <3>4. Receive(w) => Cardinality(Occupied) + 1 <= Cardinality(Occupied')
      <4>1. SUFFICES ASSUME Receive(w)
                     PROVE  Cardinality(Occupied) + 1 <= Cardinality(Occupied')
        OBVIOUS
      <4>2. Occupied \union {w} \subseteq Occupied'
        BY <3>1, <4>1
      <4>3. Cardinality(Occupied \union {w}) = Cardinality(Occupied) + 1
        BY <3>1, <3>2, <4>1, OneMoreWorker
      <4>4. QED
        BY <3>2, <4>2, <4>3, MoreWorkers
    <3>5. NoWorkerLeft => NoWorkerLeft'
      BY <3>1 DEF NoWorkerLeft
    <3>6. Queued <= Queued' \/ (Receive(w) /\ Queued <= Queued' + 1)
      BY <1>0, <1>1, <2>2, <3>5 DEF Queued
    <3>7. Queued' \in Nat
      BY <1>1, <2>2 DEF Queued
    <3>8. Queued + Cardinality(Occupied) <= Queued' + Cardinality(Occupied')
      <4>1. CASE Queued <= Queued'
        BY <1>1, <1>2, <3>3, <3>7, <4>1
      <4>2. CASE Receive(w) /\ Queued <= Queued' + 1
        <5>1. Cardinality(Occupied) + 1 <= Cardinality(Occupied')
          BY <3>4, <4>2
        <5>2. Queued <= Queued' + 1
          BY <4>2
        <5>3. QED
          <6> DEFINE a == Queued
          <6> DEFINE b == Queued'
          <6> DEFINE c == Cardinality(Occupied)
          <6> DEFINE d == Cardinality(Occupied')
          <6>1. a \in Int /\ b \in Int /\ c \in Int /\ d \in Int
            BY <1>1, <1>2, <3>7
          <6>2. a <= b + 1 /\ c + 1 <= d
            BY <5>1, <5>2
          <6> HIDE DEF a, b, c, d
          <6>3. a + c <= b + d
            BY <6>1, <6>2
          <6>4. QED BY <6>3 DEF a, b, c, d
      <4>3. QED
        BY <3>6, <4>1, <4>2
    <3>9. late' <= Queued' + Cardinality(Occupied') + (IF main' = "walk" THEN 0 ELSE 1)
      BY <1>0, <1>1, <1>2, <2>1, <3>7, <3>8
    <3>10. QED
      BY <1>0, <1>1, <2>1, <2>2, <2>4, <3>9 DEF CountsInv, Receiving
  <2>5. QED
    BY <2>3, <2>4
<1>7. CASE Ordering
  <2>1. Receiving /\ UNCHANGED <<main, late, jobs, worker>>
    BY <1>7 DEF Ordering, Arrive, HandOut, NoMoreToCome, walkVars, workerVars, history
  <2>2. QED
    BY <1>0, <1>1, <1>2, <1>3, <2>1 DEF CountsInv
<1>8. QED
  BY <1>4, <1>5, <1>6, <1>7 DEF Next, Terminating

\* However the threads run, the parts that are sealed and not encoded are two per
\* thread and the one the walk is sending, at most.
THEOREM BacklogIsAlwaysBounded == Spec => []BacklogIsBounded
<1>1. IInv /\ CountsInv => BacklogIsBounded
  <2> SUFFICES ASSUME IInv, CountsInv PROVE BacklogIsBounded
    OBVIOUS
  <2>1. Encoding \subseteq Workers
    BY DEF Encoding
  <2>2. Cardinality(Encoding) \in 0..Threads /\ Threads \in Nat
    BY <2>1, WorkerCount
  <2>3. Len(jobs) \in Nat /\ Len(jobs) <= Threads
    BY LenProperties DEF IInv, TypeOK, CountsInv
  <2>4. QED
    BY <2>2, <2>3 DEF BacklogIsBounded
<1>2. QED
  BY PartsAreKept, CountsInit, CountsStep, <1>1, PTL DEF Spec

\* Once the orderer has returned, for whatever reason, the walk seals no more
\* parts than the queue and the workers can still take, and the one it is
\* sending then.
THEOREM WalkAlwaysStopsSoon == Spec => []WalkStopsSoon
<1>1. IInv /\ CountsInv => WalkStopsSoon
  <2> SUFFICES ASSUME IInv, CountsInv PROVE WalkStopsSoon
    OBVIOUS
  <2>1. Occupied \subseteq Workers
    BY DEF Occupied
  <2>2. Cardinality(Occupied) \in 0..Threads /\ Threads \in Nat
    BY <2>1, WorkerCount
  <2>3. Len(jobs) \in Nat /\ late \in Nat
    BY LenProperties DEF IInv, TypeOK
  <2>4. QED
    BY <2>2, <2>3 DEF WalkStopsSoon, CountsInv, Queued
<1>2. QED
  BY PartsAreKept, CountsInit, CountsStep, <1>1, PTL DEF Spec

-----------------------------------------------------------------------------
(* The pipeline implements FrameStream.                                    *)

Outcome == IF main \in {"ok", "error", "panic"} THEN main ELSE "running"
Walking == main \in {"walk", "send"}

\* What the caller sees does not change.
Unseen == UNCHANGED <<sequence, frames>> /\ Outcome' = Outcome /\ Walking' = Walking

LEMMA UnseenStutters == Unseen => UNCHANGED Stream!vars
  BY DEF Unseen, Outcome, Walking, Stream!vars

LEMMA StreamStep ==
    ASSUME IInv, IInv', [Next]_vars
    PROVE  [Stream!Next]_(Stream!vars)
<1>1. CASE UNCHANGED vars
  <2>1. Unseen
    BY <1>1 DEF Unseen, Outcome, Walking, vars, walkVars, ordererVars
  <2>2. QED
    BY <2>1, UnseenStutters
<1>2. CASE Calling
  <2>0. frames' = frames
    BY <1>2 DEF Calling, SealPart, SendJob, SendFails, WalkEnds, LeaveScope, WriteIndex, ordererVars
  <2>1. CASE SealPart
    <3>1. Unseen
      BY <2>0, <2>1 DEF SealPart, Unseen, Outcome, Walking
    <3>2. QED
      BY <3>1, UnseenStutters
  <2>2. CASE SendJob
    <3>1. Stream!Seal
      BY <2>0, <2>2 DEF SendJob, Stream!Seal
    <3>2. QED
      BY <3>1 DEF Stream!Next
  <2>3. CASE SendFails \/ WalkEnds
    <3>1. Stream!EndWalk
      BY <2>0, <2>3 DEF SendFails, WalkEnds, EndWalk, Stream!EndWalk
    <3>2. QED
      BY <3>1 DEF Stream!Next
  <2>4. CASE LeaveScope
    <3>1. CASE main' = "index"
      <4>1. Unseen
        BY <2>0, <2>4, <3>1 DEF LeaveScope, Unseen, Outcome, Walking
      <4>2. QED
        BY <4>1, UnseenStutters
    <3>2. CASE main' # "index"
      <4>1. Stream!Fail
        BY <2>0, <2>4, <3>2 DEF LeaveScope, Return, Stream!Fail
      <4>2. QED
        BY <4>1 DEF Stream!Next
    <3>3. QED
      BY <3>1, <3>2
  <2>5. CASE WriteIndex
    <3>1. Len(frames) = sequence
      <4>1. orderer = "ok" /\ ~panicked
        BY <2>5 DEF WriteIndex, IInv, OutcomeInv
      <4>2. QED
        BY <4>1, LeftScope DEF NextFrame
    <3>2. main = "index" /\ main' \in {"ok", "error", "panic"} /\ sequence' = sequence
      BY <2>5 DEF WriteIndex, Return
    <3>3. Stream!Succeed \/ Stream!Fail
      BY <2>0, <3>1, <3>2 DEF Stream!Succeed, Stream!Fail
    <3>4. QED
      BY <3>3 DEF Stream!Next
  <2>6. QED
    BY <1>2, <2>1, <2>2, <2>3, <2>4, <2>5 DEF Calling
<1>3. ASSUME NEW w \in Workers, Work(w) PROVE [Stream!Next]_(Stream!vars)
  <2>1. Unseen
    BY <1>3 DEF Work, NewEncoder, Lock, Receive, Encode, Stop, walkVars, ordererVars, Unseen, Outcome, Walking
  <2>2. QED
    BY <2>1, UnseenStutters
<1>4. CASE Ordering
  <2>0. UNCHANGED <<main, sequence>>
    BY <1>4 DEF Ordering, Arrive, HandOut, NoMoreToCome, walkVars
  <2>1. CASE frames' = frames
    <3>1. Unseen
      BY <2>0, <2>1 DEF Unseen, Outcome, Walking
    <3>2. QED
      BY <3>1, UnseenStutters
  <2>2. CASE frames' # frames
    <3>1. Receiving /\ NextFrame \in early /\ frames' = Append(frames, NextFrame)
      BY <1>4, <2>2 DEF Ordering, Arrive, HandOut, NoMoreToCome, OrdererReturns
    <3>2. main \notin {"ok", "error", "panic"}
      BY <3>1 DEF Receiving, IInv, OutcomeInv
    <3>3. NextFrame < sequence
      BY <3>1, InvFacts DEF IInv, FramesInOrder
    <3>4. Stream!Deliver
      BY <2>0, <3>1, <3>2, <3>3 DEF Stream!Deliver, NextFrame
    <3>5. QED
      BY <3>4 DEF Stream!Next
  <2>3. QED
    BY <2>1, <2>2
<1>5. QED
  BY <1>1, <1>2, <1>3, <1>4 DEF Next, Terminating

\* Every step of the threads is, for the caller, a step that write_frames promises
\* or no step at all: the sink is only ever given the next part of the walk, and
\* the write succeeds only with all of them.
THEOREM StepsAreTheStreams == Spec => StreamSpec
<1>1. Init => Stream!Init
  BY DEF Init, Stream!Init
<1>2. IInv /\ IInv' /\ [Next]_vars => [Stream!Next]_(Stream!vars)
  BY StreamStep
<1>3. QED
  BY PartsAreKept, <1>1, <1>2, PTL DEF Spec, StreamSpec, Stream!Spec
=============================================================================
