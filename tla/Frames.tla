------------------------------- MODULE Frames -------------------------------
(***************************************************************************)
(* The frame pipeline, frames::write_frames in src/frames.rs: the walk on  *)
(* the calling thread, worker threads that encode, and the thread that     *)
(* hands the frames to the sink in walk order.                             *)
(*                                                                         *)
(* A part is its number in walk order.  The walk and the encoding are      *)
(* steps that may fail or panic at any part; how a part comes about is in  *)
(* Cut.  The channels are those of std::sync::mpsc: a send fails when the  *)
(* receiving end is gone, and a receive when nothing is queued and every   *)
(* sending end is gone.                                                    *)
(***************************************************************************)
EXTENDS Integers, Sequences, FiniteSets

CONSTANTS
    Workers,     \* the worker threads
    NoWorker,    \* no worker holds the lock
    MaxParts     \* bound: parts of the walk

ASSUME FramesAssumption ==
    /\ IsFiniteSet(Workers) /\ Workers # {}
    /\ NoWorker \notin Workers
    /\ MaxParts \in Nat

VARIABLES
    main,        \* where the calling thread is
    walked,      \* what walk_parts returned
    report,      \* where the error that write_frames returned came from
    sequence,    \* how many parts the walk has sent
    jobs,        \* the queue of sealed parts
    lock,        \* who holds the mutex around the receiver of jobs
    worker,      \* where each worker is
    hand,        \* the part each worker is encoding
    done,        \* the channel of encoded parts
    orderer,     \* where the orderer is, or what it returned
    early,       \* encoded parts the orderer holds back
    frames,      \* the parts in the index so far, in order
    panicked,    \* history: whether a thread of the scope has panicked
    failures,    \* history: what has failed
    late         \* history: parts sealed since the orderer returned

walkVars == <<main, walked, report, sequence>>
workerVars == <<lock, worker, hand>>
ordererVars == <<orderer, early, frames>>
history == <<panicked, failures, late>>
vars == <<walkVars, jobs, workerVars, done, ordererVars, history>>

\* The queue has one slot per thread.
Threads == Cardinality(Workers)

Part(p) == [ok |-> TRUE, part |-> p]
Failure == [ok |-> FALSE, part |-> 0]

\* The workers hold the only receiver of jobs and the only senders of done.
Gone(w) == worker[w] = "stopped"
NoWorkerLeft == \A w \in Workers : Gone(w)

\* The orderer holds the only receiver of done.
Receiving == orderer = "order"

Init ==
    /\ main = "walk" /\ walked = "running" /\ report = "none"
    /\ sequence = 0
    /\ jobs = <<>>
    /\ lock = NoWorker
    /\ worker = [w \in Workers |-> "new"]
    /\ hand = [w \in Workers |-> 0]
    /\ done = <<>>
    /\ orderer = "order" /\ early = {} /\ frames = <<>>
    /\ panicked = FALSE /\ failures = {} /\ late = 0

-----------------------------------------------------------------------------
(* The calling thread.                                                     *)

\* The walk seals a part and calls the closure with it.
SealPart ==
    /\ main = "walk"
    /\ sequence < MaxParts
    /\ main' = "send"
    /\ late' = IF Receiving THEN late ELSE late + 1
    /\ UNCHANGED <<walked, report, sequence, jobs, workerVars, done, ordererVars, panicked, failures>>

\* The walk returns, and the sender of jobs is dropped.
EndWalk(as) ==
    /\ walked' = as
    /\ main' = "join"

\* Mutant: the number of a part does not move on.
SendJobUncounted ==
    /\ main = "send"
    /\ ~NoWorkerLeft
    /\ Len(jobs) < Threads
    /\ jobs' = Append(jobs, sequence)
    /\ main' = "walk"
    /\ UNCHANGED <<sequence, walked, report, workerVars, done, ordererVars, history>>

\* Mutant: the queue has no bound.
SendJobWithoutWaiting ==
    /\ main = "send"
    /\ ~NoWorkerLeft
    /\ jobs' = Append(jobs, sequence)
    /\ sequence' = sequence + 1
    /\ main' = "walk"
    /\ UNCHANGED <<walked, report, workerVars, done, ordererVars, history>>

\* Waits for room in the queue.
SendJob ==
    /\ main = "send"
    /\ ~NoWorkerLeft
    /\ Len(jobs) < Threads
    /\ jobs' = Append(jobs, sequence)
    /\ sequence' = sequence + 1
    /\ main' = "walk"
    /\ UNCHANGED <<walked, report, workerVars, done, ordererVars, history>>

\* Nobody is left to receive the part: the closure fails, and so does the walk.
SendFails ==
    /\ main = "send"
    /\ NoWorkerLeft
    /\ EndWalk("send_error")
    /\ UNCHANGED <<report, sequence, jobs, workerVars, done, ordererVars, history>>

WalkEnds ==
    /\ main = "walk"
    /\ \/ EndWalk("ok") /\ UNCHANGED failures
       \/ EndWalk("walk_error") /\ failures' = failures \union {"walk"}
    /\ UNCHANGED <<report, sequence, jobs, workerVars, done, ordererVars, panicked, late>>

Return(as, from) ==
    /\ main' = as
    /\ report' = from

\* Mutant: only the walk's result counts.
LeaveScopeForgivingOrderer ==
    /\ main = "join"
    /\ ~Receiving
    /\ NoWorkerLeft
    /\ IF panicked THEN Return("panic", "none")
       ELSE IF walked # "ok" THEN Return("error", "walk")
       ELSE Return("index", "none")
    /\ UNCHANGED <<walked, sequence, jobs, workerVars, done, ordererVars, history>>

\* The scope ends when all its threads have.  A panic of one of them comes
\* before any error, and the orderer's error before the walk's.
LeaveScope ==
    /\ main = "join"
    /\ ~Receiving
    /\ NoWorkerLeft
    /\ IF panicked THEN Return("panic", "none")
       ELSE IF orderer # "ok" THEN Return("error", "orderer")
       ELSE IF walked # "ok" THEN Return("error", "walk")
       ELSE Return("index", "none")
    /\ UNCHANGED <<walked, sequence, jobs, workerVars, done, ordererVars, history>>

\* The index: written as JSON, encoded by an encoder of its own, and handed to
\* the sink.
WriteIndex ==
    /\ main = "index"
    /\ \/ Return("ok", "none") /\ UNCHANGED failures
       \/ Return("error", "index") /\ failures' = failures \union {"index"}
       \/ Return("panic", "none") /\ UNCHANGED failures
    /\ UNCHANGED <<walked, sequence, jobs, workerVars, done, ordererVars, panicked, late>>

-----------------------------------------------------------------------------
(* A worker thread.                                                        *)

\* Mutant: a failed send does not stop the worker.
SendDoneUnheard(w, message, next) ==
    /\ worker' = [worker EXCEPT ![w] = next]
    /\ done' = IF Receiving THEN Append(done, message) ELSE done

\* A result for the orderer, and on to next.  The worker stops when the orderer
\* is gone.
SendDone(w, message, next) ==
    IF Receiving
    THEN /\ done' = Append(done, message)
         /\ worker' = [worker EXCEPT ![w] = next]
    ELSE /\ worker' = [worker EXCEPT ![w] = "return"]
         /\ UNCHANGED done

\* Mutant: a worker without an encoder just stops.
NewEncoderQuietly(w) ==
    /\ worker[w] = "new"
    /\ \/ worker' = [worker EXCEPT ![w] = "lock"] /\ UNCHANGED failures
       \/ /\ worker' = [worker EXCEPT ![w] = "return"]
          /\ failures' = failures \union {"encoder"}
    /\ UNCHANGED <<walkVars, jobs, lock, hand, done, ordererVars, panicked, late>>

NewEncoder(w) ==
    /\ worker[w] = "new"
    /\ \/ /\ worker' = [worker EXCEPT ![w] = "lock"]
          /\ UNCHANGED <<done, panicked, failures>>
       \/ /\ SendDone(w, Failure, "return")
          /\ failures' = failures \union {"encoder"}
          /\ UNCHANGED panicked
       \/ /\ worker' = [worker EXCEPT ![w] = "return"]
          /\ panicked' = TRUE
          /\ UNCHANGED <<done, failures>>
    /\ UNCHANGED <<walkVars, jobs, lock, hand, ordererVars, late>>

Lock(w) ==
    /\ worker[w] = "lock"
    /\ lock = NoWorker
    /\ lock' = w
    /\ worker' = [worker EXCEPT ![w] = "recv"]
    /\ UNCHANGED <<walkVars, jobs, hand, done, ordererVars, history>>

\* Takes the next part, or learns that there is none to come; either way the
\* lock is released.
Receive(w) ==
    /\ worker[w] = "recv"
    /\ \/ /\ jobs # <<>>
          /\ hand' = [hand EXCEPT ![w] = Head(jobs)]
          /\ jobs' = Tail(jobs)
          /\ worker' = [worker EXCEPT ![w] = "encode"]
       \/ /\ jobs = <<>>
          /\ main \notin {"walk", "send"}
          /\ worker' = [worker EXCEPT ![w] = "return"]
          /\ UNCHANGED <<hand, jobs>>
    /\ lock' = NoWorker
    /\ UNCHANGED <<walkVars, done, ordererVars, history>>

\* Mutant: a part that cannot be encoded is left out.
EncodeQuietly(w) ==
    /\ worker[w] = "encode"
    /\ \/ /\ SendDone(w, Part(hand[w]), "lock")
          /\ UNCHANGED failures
       \/ /\ worker' = [worker EXCEPT ![w] = "lock"]
          /\ failures' = failures \union {"encode"}
          /\ UNCHANGED done
    /\ UNCHANGED <<walkVars, jobs, lock, hand, ordererVars, panicked, late>>

\* A part that cannot be written as JSON or encoded does not stop the worker.
Encode(w) ==
    /\ worker[w] = "encode"
    /\ \/ /\ SendDone(w, Part(hand[w]), "lock")
          /\ UNCHANGED <<panicked, failures>>
       \/ /\ SendDone(w, Failure, "lock")
          /\ failures' = failures \union {"encode"}
          /\ UNCHANGED panicked
       \/ /\ worker' = [worker EXCEPT ![w] = "return"]
          /\ panicked' = TRUE
          /\ UNCHANGED <<done, failures>>
    /\ UNCHANGED <<walkVars, jobs, lock, hand, ordererVars, late>>

\* The thread's ends of the channels are dropped, and with the last receiver of
\* jobs what is still queued.
Stop(w) ==
    /\ worker[w] = "return"
    /\ worker' = [worker EXCEPT ![w] = "stopped"]
    /\ jobs' = IF \A v \in Workers \ {w} : Gone(v) THEN <<>> ELSE jobs
    /\ UNCHANGED <<walkVars, lock, hand, done, ordererVars, history>>

-----------------------------------------------------------------------------
(* The orderer: hand_out_in_order.                                         *)

NextFrame == Len(frames)

\* The receiver is dropped, and what is still in the channel with it.
OrdererReturns(as) ==
    /\ orderer' = as
    /\ early' = {}
    /\ done' = <<>>
    /\ UNCHANGED frames

Arrive ==
    /\ Receiving
    /\ NextFrame \notin early
    /\ done # <<>>
    /\ IF Head(done).ok
       THEN /\ early' = early \union {Head(done).part}
            /\ done' = Tail(done)
            /\ UNCHANGED <<orderer, frames>>
       ELSE OrdererReturns("failed")
    /\ UNCHANGED <<walkVars, jobs, workerVars, history>>

\* Mutant: the sink gets the frames as they arrive.
HandOutAsTheyCome ==
    /\ Receiving
    /\ early # {}
    /\ frames' = Append(frames, CHOOSE p \in early : TRUE)
    /\ early' = {}
    /\ UNCHANGED <<walkVars, jobs, workerVars, orderer, done, history>>

\* One call of the sink.
HandOut ==
    /\ Receiving
    /\ NextFrame \in early
    /\ \/ /\ frames' = Append(frames, NextFrame)
          /\ early' = early \ {NextFrame}
          /\ UNCHANGED <<orderer, done, panicked, failures>>
       \/ /\ OrdererReturns("failed")
          /\ failures' = failures \union {"sink"}
          /\ UNCHANGED panicked
       \/ /\ OrdererReturns("panic")
          /\ panicked' = TRUE
          /\ UNCHANGED failures
    /\ UNCHANGED <<walkVars, jobs, workerVars, late>>

\* Mutant: the calling thread keeps a sender of its own.
NoMoreToComeEver == FALSE

\* Every sender is gone.
NoMoreToCome ==
    /\ Receiving
    /\ NextFrame \notin early
    /\ done = <<>>
    /\ NoWorkerLeft
    /\ OrdererReturns(IF early = {} THEN "ok" ELSE "never_arrived")
    /\ UNCHANGED <<walkVars, jobs, workerVars, history>>

-----------------------------------------------------------------------------

Calling == SealPart \/ SendJob \/ SendFails \/ WalkEnds \/ LeaveScope \/ WriteIndex

Work(w) == NewEncoder(w) \/ Lock(w) \/ Receive(w) \/ Encode(w) \/ Stop(w)

Ordering == Arrive \/ HandOut \/ NoMoreToCome

Terminating == main \in {"ok", "error", "panic"} /\ UNCHANGED vars

Next == Calling \/ (\E w \in Workers : Work(w)) \/ Ordering \/ Terminating

\* Every thread is scheduled, and the walk, the codec and the sink return.
Fairness == WF_vars(Calling) /\ (\A w \in Workers : WF_vars(Work(w))) /\ WF_vars(Ordering)

Spec == Init /\ [][Next]_vars /\ Fairness

-----------------------------------------------------------------------------
(* Properties.                                                             *)

TypeOK ==
    /\ main \in {"walk", "send", "join", "index", "ok", "error", "panic"}
    /\ walked \in {"running", "ok", "walk_error", "send_error"}
    /\ report \in {"none", "orderer", "walk", "index"}
    /\ sequence \in Nat
    /\ jobs \in Seq(Nat)
    /\ lock \in Workers \union {NoWorker}
    /\ worker \in [Workers -> {"new", "lock", "recv", "encode", "return", "stopped"}]
    /\ hand \in [Workers -> Nat]
    /\ done \in Seq([ok : BOOLEAN, part : Nat])
    /\ orderer \in {"order", "ok", "failed", "never_arrived", "panic"}
    /\ early \in SUBSET Nat
    /\ frames \in Seq(Nat)
    /\ panicked \in BOOLEAN
    /\ failures \in SUBSET {"walk", "encoder", "encode", "sink", "index"}
    /\ late \in Nat

\* A write that succeeds has given the sink every part of the walk, in walk order
\* and once each, before the index, which has an entry for each of them.
OkIsComplete ==
    main \in {"index", "ok"}
        => frames = [k \in 1..sequence |-> k - 1] /\ walked = "ok"

\* No failure is lost, whichever thread met it and whatever the others were doing:
\* the write does not succeed.
FailuresAreReported ==
    main = "ok" => failures = {} /\ ~panicked

\* A write fails only when something did: no order of events makes an error.
ErrorsHaveCauses ==
    main = "error" => failures # {}

\* "part ... never arrived" is unreachable unless a worker has panicked.
OnlyAPanicLosesAPart ==
    orderer = "never_arrived" => panicked

\* When the walk stops because nobody takes its parts, its own error is not the one
\* returned.
SendErrorIsExplained ==
    report = "walk" => walked = "walk_error"

\* "If the walk failed, its WalkError is inside the report."
WalkErrorIsReported ==
    (main = "error" /\ "walk" \in failures) => report = "walk"

Encoding == {w \in Workers : worker[w] = "encode"}

\* The parts that are sealed and not encoded are at most two per thread and the
\* one the walk is sending.
BacklogIsBounded ==
    Len(jobs) + Cardinality(Encoding) + (IF main = "send" THEN 1 ELSE 0) <= 2 * Threads + 1

\* Once the orderer has stopped, so does the walk: it seals no more parts than the
\* queue and the workers can still take from it.
WalkStopsSoon == late <= 2 * Threads + 1

\* Every write returns: no thread waits for another one that has stopped.
Returns == <>(main \in {"ok", "error", "panic"})

Stream == INSTANCE FrameStream WITH
    walking <- main \in {"walk", "send"},
    sealed <- sequence,
    outcome <- IF main \in {"ok", "error", "panic"} THEN main ELSE "running"

\* The pipeline does what the caller of write_frames is promised.
StreamSpec == Stream!Spec
=============================================================================
