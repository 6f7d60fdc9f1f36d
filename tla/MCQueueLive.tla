----------------------------- MODULE MCQueueLive -----------------------------
(* Progress of the queue when some threads stop in the middle of a call. *)
EXTENDS MPMCQueue

CONSTANT Stalled   \* threads the scheduler may never run again
ASSUME StalledThreads == Stalled \subseteq Threads

Running == Threads \ Stalled

FairSpec == Spec /\ \A t \in Running : FairThread(t)

\* try_enqueue, try_dequeue and size() do not block: a thread that keeps
\* running returns from its call even if another thread stopped for good
\* anywhere between line 47 and line 103, for instance after claiming a slot.
\* (Claims are finite here, MaxPos: the queue is lock-free, not wait-free.)
NonBlocking == \A t \in Running : pc[t] # "idle" ~> pc[t] = "idle"

=============================================================================
