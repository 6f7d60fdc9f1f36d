---------------------------- MODULE ScopedGuards -----------------------------
(***************************************************************************)
(* ScopedCPUPin and ScopedMemoryLock of include/system_utils.hpp: objects  *)
(* that change the affinity of their thread, or lock the memory of the     *)
(* process, for as long as they live.  Each thread has a stack of them,    *)
(* the innermost last, and destroys them in the opposite order.            *)
(***************************************************************************)
EXTENDS Integers, Sequences

CONSTANTS
  Threads,
  CPUs,       \* 0 .. get_cpu_count() - 1
  Cores,      \* core numbers that threads ask for, valid or not
  MaxGuards   \* bound: guards alive in one thread

VARIABLES
  affinity,   \* per thread: the CPUs it may run on
  locked,     \* whether the pages of the process are locked
  guards      \* per thread: its guards, with pinned_ or locked_ as held

guardVars == <<affinity, locked, guards>>

None == -1    \* the core of a ScopedMemoryLock

\* A process may be started with any affinity.
Init ==
  /\ affinity \in [Threads -> SUBSET CPUs \ {{}}]
  /\ locked = FALSE
  /\ guards = [t \in Threads |-> <<>>]

\* The calls of the system and what they return.  pthread_setaffinity_np
\* refuses a core that does not exist, and may refuse any other.
pin_thread_to_core(t, core, ok) ==
  /\ ok => core \in CPUs
  /\ affinity' = IF ok THEN [affinity EXCEPT ![t] = {core}] ELSE affinity

lock_memory(ok) == locked' = (locked \/ ok)

\* munlockall does not count the locks; its result is not looked at
unlock_memory(ok) == locked' = (locked /\ ~ ok)

Push(t, kind, core, held) ==
  guards' = [guards EXCEPT ![t] =
               Append(@, [kind |-> kind, core |-> core, held |-> held])]

Pop(t) == guards' = [guards EXCEPT ![t] = SubSeq(@, 1, Len(@) - 1)]

Innermost(t) == guards[t][Len(guards[t])]

\* ScopedCPUPin(core_id)
Pin(t, core) ==
  /\ Len(guards[t]) < MaxGuards
  /\ \E ok \in BOOLEAN :
       pin_thread_to_core(t, core, ok) /\ Push(t, "pin", core, ok)
  /\ UNCHANGED locked

\* ~ScopedCPUPin(): to all CPUs, whatever it was before, or not at all when
\* pthread_setaffinity_np fails, which nobody notices
Unpin(t) ==
  /\ guards[t] # <<>> /\ Innermost(t).kind = "pin"
  /\ \/ Innermost(t).held /\ affinity' = [affinity EXCEPT ![t] = CPUs]
     \/ UNCHANGED affinity
  /\ Pop(t)
  /\ UNCHANGED locked

\* ScopedMemoryLock()
Lock(t) ==
  /\ Len(guards[t]) < MaxGuards
  /\ \E ok \in BOOLEAN : lock_memory(ok) /\ Push(t, "lock", None, ok)
  /\ UNCHANGED affinity

\* ~ScopedMemoryLock()
Unlock(t) ==
  /\ guards[t] # <<>> /\ Innermost(t).kind = "lock"
  /\ \E ok \in BOOLEAN : unlock_memory(Innermost(t).held /\ ok)
  /\ Pop(t)
  /\ UNCHANGED affinity

Next ==
  \E t \in Threads :
    \/ \E core \in Cores : Pin(t, core)
    \/ Unpin(t)
    \/ Lock(t)
    \/ Unlock(t)

Spec == Init /\ [][Next]_guardVars

-----------------------------------------------------------------------------
\* "RAII wrapper for CPU pinning" and "RAII wrapper for memory locking"
\* (system_utils.hpp:193, 220): the resource is held for the lifetime of the
\* object.  As long as a guard lives that says is_pinned() and has no later
\* pin inside it, its thread is on its core alone, and as long as one lives
\* that says is_locked(), the memory is locked.
GuardHolds ==
  \A t \in Threads : \A i \in DOMAIN guards[t] :
    LET g == guards[t][i]
    IN  g.held =>
          /\ g.kind = "lock" => locked
          /\ g.kind = "pin" =>
               \/ affinity[t] = {g.core}
               \/ \E j \in i + 1 .. Len(guards[t]) :
                    guards[t][j].kind = "pin" /\ guards[t][j].held

=============================================================================
