---------------------------- MODULE MPMCQueueImpl ----------------------------
(***************************************************************************)
(* The queue of include/mpmc_queue.hpp implements BoundedFIFO.             *)
(*                                                                         *)
(* An operation takes effect at its successful compare-exchange, so the    *)
(* places in use are the positions from tail_ to head_.  No history        *)
(* variable is needed: the item of a position that is not published yet    *)
(* is the parameter of the thread that claimed it, and the item a consumer *)
(* claimed is still in its slot until the consumer has read it.            *)
(***************************************************************************)
EXTENDS MPMCQueue, Sequences

CONSTANT Nobody
ASSUME NobodyNotThread == Nobody \notin Threads

WriterOf(p) == CHOOSE t \in Threads : Writing(t) /\ pos[t] = p

PlaceAt(p) ==
  IF sequences[Slot(p)] = Published(p)
  THEN [val |-> buffer[Slot(p)], owner |-> Nobody]
  ELSE [val |-> item[WriterOf(p)], owner |-> WriterOf(p)]

PlacesInUse == [i \in 1 .. head - tail |-> PlaceAt(tail + i - 1)]

CallOf(label) ==
  CASE label \in {"e_load", "e_seq", "e_cas"} -> "enqueue"
    [] label \in {"e_write", "e_pub"}         -> "reserved"
    [] label \in {"d_load", "d_seq", "d_cas"} -> "dequeue"
    [] label \in {"d_read", "d_rel"}          -> "taken"
    [] OTHER                                  -> "none"

ItemOf(t) == IF pc[t] = "d_read" THEN buffer[Slot(pos[t])] ELSE item[t]

Fifo == INSTANCE BoundedFIFO WITH
  places <- PlacesInUse,
  call   <- [t \in Threads |-> CallOf(pc[t])],
  item   <- [t \in Threads |-> ItemOf(t)]

\* Every behaviour of lines 47-103, in every interleaving, is one of a
\* bounded first-in-first-out queue: no item is lost, duplicated, reordered
\* or torn, and false is returned only for the reasons BoundedFIFO allows.
ImplementsFifo == Fifo!FifoSpec

=============================================================================
