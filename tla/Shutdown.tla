------------------------------ MODULE Shutdown ------------------------------
(***************************************************************************)
(* What pktizr's lifecycle promises (spec section 4.7, shutdown protocol), *)
(* without threads, counters or signals: main starts the workers, the      *)
(* status loop runs the scan and then the wait, asks the generator to      *)
(* stop, joins it, sets done, and exits once the transmitter and the       *)
(* receiver, which leave only after done, have returned.                   *)
(***************************************************************************)

CONSTANT Finishers   \* the workers that quit on done: the transmitter and receiver

VARIABLES
  phase,    \* "starting", "scanning", "waiting", "stopping", "draining", "exited"
  gen,      \* the generator has not returned
  workers,  \* the members of Finishers that have not returned
  done      \* the flag that makes Finishers quit

vars == <<phase, gen, workers, done>>

Init ==
  /\ phase = "starting"
  /\ gen = TRUE
  /\ workers = Finishers
  /\ done = FALSE

Advance(from, to) ==
  /\ phase = from /\ phase' = to
  /\ UNCHANGED <<gen, workers, done>>

\* The scan begins, ends, and the wait after it ends.
Begin == Advance("starting", "scanning")
EndScan == Advance("scanning", "waiting")
EndWait == Advance("waiting", "stopping")

\* The generator returns: it ran out of tuples or was told to stop.
GenExits ==
  /\ gen
  /\ gen' = FALSE
  /\ UNCHANGED <<phase, workers, done>>

\* The generator has been joined: done is raised.
RaiseDone ==
  /\ phase = "stopping" /\ ~gen
  /\ phase' = "draining" /\ done' = TRUE
  /\ UNCHANGED <<gen, workers>>

\* A worker of Finishers sees done and returns.
WorkerExits ==
  /\ done
  /\ \E w \in workers : workers' = workers \ {w}
  /\ UNCHANGED <<phase, gen, done>>

\* Every thread is joined: the process exits.
Exit ==
  /\ phase = "draining" /\ workers = {}
  /\ phase' = "exited"
  /\ UNCHANGED <<gen, workers, done>>

Next == Begin \/ EndScan \/ EndWait \/ GenExits \/ RaiseDone \/ WorkerExits \/ Exit

\* Each step is eventually taken once it is possible: the program exits.
Spec == Init /\ [][Next]_vars /\ WF_vars(Next)

=============================================================================
