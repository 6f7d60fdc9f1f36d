----------------------------- MODULE BoundedFIFO -----------------------------
(***************************************************************************)
(* What the queue of include/mpmc_queue.hpp promises to its callers.       *)
(*                                                                         *)
(* A successful try_enqueue takes effect in two steps: it reserves the     *)
(* place behind the items already there (reserve), and fills it when it    *)
(* returns true (commit).  A successful try_dequeue takes the first item   *)
(* (take) and gives the place back when it returns true (free).  Between   *)
(* the two steps an operation hinders others: a reserved place at the      *)
(* front makes try_dequeue fail, whatever lies behind it, and a place not  *)
(* given back may make try_enqueue fail.                                   *)
(***************************************************************************)
EXTENDS Integers, Sequences

CONSTANTS Producers, Consumers, Observers, Values, Garbage, Capacity,
          Nobody   \* owner of a place that is filled

Threads == Producers \cup Consumers \cup Observers

VARIABLES
  places,   \* the places in use, first in first out: [val, owner]
  call,     \* per thread: the call in progress and how far it is
  item,     \* per thread: the item parameter
  ret       \* per thread: what the last call returned

fifoVars == <<places, call, item, ret>>

Init ==
  /\ places = <<>>
  /\ call = [t \in Threads |-> "none"]
  /\ item = [t \in Threads |-> Garbage]
  /\ ret = [t \in Threads |-> "none"]

Begin(t, op) ==
  /\ call[t] = "none"
  /\ call' = [call EXCEPT ![t] = op]
  /\ ret' = [ret EXCEPT ![t] = "none"]

End(t, result) ==
  /\ call' = [call EXCEPT ![t] = "none"]
  /\ ret' = [ret EXCEPT ![t] = result]

-----------------------------------------------------------------------------
BeginEnqueue(t, v) ==
  /\ Begin(t, "enqueue")
  /\ item' = [item EXCEPT ![t] = v]
  /\ UNCHANGED places

Reserve(t) ==
  /\ call[t] = "enqueue"
  /\ Len(places) < Capacity
  /\ places' = Append(places, [val |-> item[t], owner |-> t])
  /\ call' = [call EXCEPT ![t] = "reserved"]
  /\ UNCHANGED <<item, ret>>

Commit(t) ==
  /\ call[t] = "reserved"
  /\ places' = [i \in DOMAIN places |->
                  [val |-> places[i].val,
                   owner |-> IF places[i].owner = t THEN Nobody
                                                    ELSE places[i].owner]]
  /\ End(t, "true")
  /\ UNCHANGED item

\* false only when all places are in use or one is being given back
RefuseEnqueue(t) ==
  /\ call[t] = "enqueue"
  /\ Len(places) = Capacity \/ \E u \in Threads : call[u] = "taken"
  /\ End(t, "false")
  /\ UNCHANGED <<places, item>>

-----------------------------------------------------------------------------
BeginDequeue(t) ==
  /\ Begin(t, "dequeue")
  /\ UNCHANGED <<places, item>>

\* there is a first place and it is filled
FirstFilled == places # <<>> /\ Head(places).owner = Nobody

Take(t) ==
  /\ call[t] = "dequeue"
  /\ FirstFilled
  /\ item' = [item EXCEPT ![t] = Head(places).val]
  /\ places' = Tail(places)
  /\ call' = [call EXCEPT ![t] = "taken"]
  /\ UNCHANGED ret

Free(t) ==
  /\ call[t] = "taken"
  /\ End(t, "true")
  /\ UNCHANGED <<places, item>>

\* false only when no place is in use or the first is reserved and not filled
RefuseDequeue(t) ==
  /\ call[t] = "dequeue"
  /\ ~ FirstFilled
  /\ End(t, "false")
  /\ UNCHANGED <<places, item>>

-----------------------------------------------------------------------------
Next ==
  \/ \E t \in Producers :
       \/ \E v \in Values : BeginEnqueue(t, v)
       \/ Reserve(t)
       \/ Commit(t)
       \/ RefuseEnqueue(t)
  \/ \E t \in Consumers :
       \/ BeginDequeue(t)
       \/ Take(t)
       \/ Free(t)
       \/ RefuseDequeue(t)

FifoSpec == Init /\ [][Next]_fifoVars

=============================================================================
