------------------------------ MODULE TaskPool ------------------------------
(***************************************************************************)
(* What the thread pool promises, with no slots, mutexes or condition      *)
(* variables: jobs are accepted while fewer than Capacity are unfinished,  *)
(* they are started in the order in which they were accepted, every job is *)
(* run by one worker and once, and with the routine and data it came with. *)
(***************************************************************************)
EXTENDS Integers, Sequences, FiniteSets

CONSTANTS Workers, Jobs, Capacity, NULL

VARIABLES
  queue,      \* accepted jobs nobody has started, oldest first
  running,    \* the job of each worker, or NULL
  finished    \* the data of the jobs that have been run

vars == <<queue, running, finished>>

Init ==
  /\ queue = << >>
  /\ running = [w \in Workers |-> NULL]
  /\ finished = {}

Busy == {w \in Workers : running[w] # NULL}

(* A job is not accepted twice: its data is not in the pool and has never  *)
(* been run.                                                               *)
IsNew(job) ==
  /\ job.data \notin finished
  /\ \A k \in 1 .. Len(queue) : queue[k].data # job.data
  /\ \A w \in Busy : running[w].data # job.data

Accept(job) ==
  /\ IsNew(job)
  /\ Len(queue) + Cardinality(Busy) < Capacity
  /\ queue' = Append(queue, job)
  /\ UNCHANGED <<running, finished>>

Start(w) ==
  /\ running[w] = NULL /\ queue # << >>
  /\ running' = [running EXCEPT ![w] = Head(queue)]
  /\ queue' = Tail(queue)
  /\ UNCHANGED finished

Finish(w) ==
  /\ running[w] # NULL /\ running[w].routine_cb # NULL
  /\ finished' = finished \cup {running[w].data}
  /\ running' = [running EXCEPT ![w] = NULL]
  /\ UNCHANGED queue

(* A job without a routine is dropped. *)
Drop(w) ==
  /\ running[w] # NULL /\ running[w].routine_cb = NULL
  /\ running' = [running EXCEPT ![w] = NULL]
  /\ UNCHANGED <<queue, finished>>

Next ==
  \/ \E job \in Jobs : Accept(job)
  \/ \E w \in Workers : Start(w) \/ Finish(w) \/ Drop(w)

Spec == Init /\ [][Next]_vars
=============================================================================
