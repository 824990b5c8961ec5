------------------------------ MODULE Executor ------------------------------
(***************************************************************************)
(* What an EventLoop promises to the threads that hand it functors: an    *)
(* ordered, single-threaded executor.  A functor accepted by queueInLoop   *)
(* runs exactly once, after every functor accepted before it; a functor    *)
(* given to runInLoop by the loop's own thread runs at once, ahead of the  *)
(* queue; and as long as the loop is not closed the queue is drained.      *)
(***************************************************************************)
EXTENDS Sequences

CONSTANT Functors    \* the callbacks that may be handed over, each at most once

VARIABLES queue,     \* accepted functors that have not run, oldest first
          ran,       \* the functors that have run, in the order they ran
          closed     \* the loop has stopped: nothing runs any more

vars == <<queue, ran, closed>>

Elements(s) == {s[i] : i \in DOMAIN s}

\* The functors nobody has handed over yet.
Fresh == Functors \ (Elements(queue) \cup Elements(ran))

Init == queue = <<>> /\ ran = <<>> /\ closed = FALSE

\* A thread hands over f; a closed loop still accepts it and never runs it.
Submit(f) ==
  /\ f \in Fresh
  /\ queue' = Append(queue, f)
  /\ UNCHANGED <<ran, closed>>

\* The loop's own thread runs f at once.
RunNow(f) ==
  /\ ~closed
  /\ f \in Fresh
  /\ ran' = Append(ran, f)
  /\ UNCHANGED <<queue, closed>>

\* The oldest functor runs.  While it runs it may hand over a fresh one, or
\* have a fresh one run at once.
Execute ==
  /\ ~closed
  /\ queue # <<>>
  /\ \/ /\ queue' = Tail(queue)
        /\ ran' = Append(ran, Head(queue))
     \/ \E g \in Fresh : /\ queue' = Append(Tail(queue), g)
                         /\ ran' = Append(ran, Head(queue))
     \/ \E g \in Fresh : /\ queue' = Tail(queue)
                         /\ ran' = ran \o <<Head(queue), g>>
  /\ UNCHANGED closed

Close == closed' = TRUE /\ UNCHANGED <<queue, ran>>

Next ==
  \/ \E f \in Functors : Submit(f) \/ RunNow(f)
  \/ Execute
  \/ Close

Spec == Init /\ [][Next]_vars /\ WF_vars(Execute)
=============================================================================
