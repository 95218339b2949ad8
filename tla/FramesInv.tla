----------------------------- MODULE FramesInv -----------------------------
(***************************************************************************)
(* The inductive invariant of Frames: where each part of the walk is.      *)
(***************************************************************************)
EXTENDS Frames

\* How many parts the workers have taken from the queue.
Taken == sequence - Len(jobs)

Encodes(w, p) == worker[w] = "encode" /\ hand[w] = p

InDone(p) == \E k \in 1..Len(done) : done[k].ok /\ done[k].part = p

\* Nothing has failed or panicked between the queue and the sink.
Clean ==
    /\ orderer \in {"order", "ok"}
    /\ ~panicked
    /\ \A k \in 1..Len(done) : done[k].ok

\* The queue holds the last parts of the walk, in walk order.
JobsInv ==
    /\ Len(jobs) <= sequence
    /\ \A k \in 1..Len(jobs) : jobs[k] = Taken + k - 1
    /\ NoWorkerLeft => jobs = <<>>

\* The sink has the first of the parts that were taken, in walk order, and each
\* of the others is in one place at most.
FramesInOrder ==
    /\ \A k \in 1..Len(frames) : frames[k] = k - 1
    /\ Len(frames) <= Taken
    /\ \A p \in early : NextFrame <= p /\ p < Taken

DoneInv ==
    \A k \in 1..Len(done) : done[k].ok =>
        /\ NextFrame <= done[k].part /\ done[k].part < Taken
        /\ done[k].part \notin early
        /\ \A l \in 1..Len(done) :
              done[l].ok /\ done[l].part = done[k].part => l = k

HandsInv ==
    \A w \in Workers : worker[w] = "encode" =>
        /\ NextFrame <= hand[w] /\ hand[w] < Taken
        /\ hand[w] \notin early
        /\ ~InDone(hand[w])
        /\ \A v \in Workers : Encodes(v, hand[w]) => v = w

\* As long as nothing fails, no worker stops before the walk does, and every part
\* that was taken is in some place.
CleanInv ==
    Clean =>
        /\ \A w \in Workers : worker[w] \in {"return", "stopped"} =>
              main \notin {"walk", "send"} /\ jobs = <<>>
        /\ \A p \in 0..(Taken - 1) :
              p < NextFrame \/ p \in early \/ InDone(p) \/ \E w \in Workers : Encodes(w, p)
        /\ walked # "send_error"
        /\ failures \subseteq {"walk", "index"}

\* What the calling thread and the orderer know when they return.
OutcomeInv ==
    /\ walked = "running" <=> main \in {"walk", "send"}
    /\ walked = "walk_error" <=> "walk" \in failures
    /\ orderer # "order" => done = <<>> /\ early = {}
    /\ orderer = "ok" => NoWorkerLeft
    /\ orderer = "never_arrived" => panicked
    /\ main \in {"index", "ok"} => orderer = "ok" /\ ~panicked /\ walked = "ok"
    /\ "index" \in failures => main = "error"
    /\ report = "walk" => orderer = "ok" /\ ~panicked /\ walked \notin {"running", "ok"}
    /\ main \in {"index", "ok", "error", "panic"} => orderer # "order"

IInv ==
    /\ TypeOK
    /\ JobsInv
    /\ FramesInOrder
    /\ DoneInv
    /\ HandsInv
    /\ CleanInv
    /\ OutcomeInv

\* Every error has a cause; with IInv, inductive.
CausesInv ==
    /\ \A k \in 1..Len(done) : ~done[k].ok => failures # {}
    /\ orderer = "failed" => failures # {}
    /\ orderer = "panic" => panicked
    /\ main = "error" => failures # {}

\* The workers that have taken a part and not asked for another one since, or
\* never will.
Occupied == {w \in Workers : worker[w] \in {"encode", "return", "stopped"}}

\* What the queue holds, or has held when the last worker dropped it.
Queued == IF NoWorkerLeft THEN Threads ELSE Len(jobs)

\* Once the orderer has returned, a worker is left with each part it takes, so
\* every part sealed since is being sent, in the queue, or has occupied a worker
\* for good; with IInv, inductive.
CountsInv ==
    /\ Len(jobs) <= Threads
    /\ Receiving => late = 0
    /\ late <= Queued + Cardinality(Occupied) + (IF main = "walk" THEN 0 ELSE 1)
=============================================================================
