---------------------------- MODULE CudaStreams ----------------------------
(***************************************************************************)
(* The part of the CUDA execution model the benchmarks of this repository  *)
(* rely on, as they use it (external: the runtime itself is not in the     *)
(* repository).                                                            *)
(*                                                                         *)
(* The host thread enqueues operations (copies, kernels) and never waits   *)
(* for them unless it says so.  A device runs the operations of one stream *)
(* in the order they were enqueued; operations of different streams run in *)
(* any order and at the same time, unless one waits for an event recorded  *)
(* behind the other.  What cudaStreamWaitEvent waits for is fixed when the *)
(* host calls it: the latest record of the event at that moment, and       *)
(* nothing at all when the event has not been recorded yet.                *)
(*                                                                         *)
(* An operation takes time: it begins and ends in two steps, and its       *)
(* accesses to memory fall between them.                                   *)
(***************************************************************************)

VARIABLES
  issued,   \* operations the host has enqueued
  running,  \* operations that have begun and not ended
  done,     \* operations that have ended
  waits     \* pairs <<o, p>>: o waits for p, fixed when o is enqueued

cudaVars == <<issued, running, done, waits>>

CudaTypeOK(Ops) ==
  /\ issued \subseteq Ops
  /\ running \subseteq issued
  /\ done \subseteq issued \ running
  /\ waits \subseteq issued \X issued

(* Nothing is in any stream.                                               *)
CudaQuiet ==
  /\ issued = {}
  /\ running = {}
  /\ done = {}
  /\ waits = {}

(* A new round of work after everything has been synchronised: the records *)
(* of the round before are complete, and a wait on one is no wait.         *)
CudaReset ==
  /\ issued' = {}
  /\ running' = {}
  /\ done' = {}
  /\ waits' = {}

Started(o) == o \in running \cup done

(* The host enqueues o behind the waits on the records made by `awaited`.  *)
Enqueue(o, awaited) ==
  /\ issued' = issued \cup {o}
  /\ waits' = waits \cup ({o} \X awaited)
  /\ UNCHANGED <<running, done>>

(* The device begins o: nothing enqueued ahead of it in one of its streams *)
(* is unfinished, and neither is anything it waits for.                    *)
DeviceBegin(o, Ahead(_, _)) ==
  /\ o \in issued \ (running \cup done)
  /\ \A p \in issued \ done : ~Ahead(p, o)
  /\ \A x \in waits : x[1] = o => x[2] \in done
  /\ running' = running \cup {o}
  /\ UNCHANGED <<issued, done, waits>>

DeviceEnd(o) ==
  /\ o \in running
  /\ running' = running \ {o}
  /\ done' = done \cup {o}
  /\ UNCHANGED <<issued, waits>>

(* cudaDeviceSynchronize on every device returns: no enqueued operation is *)
(* unfinished.                                                             *)
Drained == issued \subseteq done
=============================================================================
