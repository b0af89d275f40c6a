---------------------------- MODULE Enumeration ----------------------------
(***************************************************************************)
(* The tuple enumeration of loop_cb (pktizr.c 350-382): tot_cnt =          *)
(* tgt_cnt * prt_cnt * count iterations, iteration i scanning target       *)
(* (i % tgt_cnt) / count and port (i / tgt_cnt) / count of the two range   *)
(* lists. Targets and ports are their indexes in the range lists; which    *)
(* address range_list_pick returns for an index is left to RangeList.      *)
(* The sizes are chosen in Init and never change.                          *)
(***************************************************************************)
EXTENDS Naturals, FiniteSets

CONSTANTS
  MaxTargets,  \* bound on range_list_count(args->targets)
  MaxPorts,    \* bound on range_list_count(args->ports)
  Counts       \* the values of --count to try

ASSUME MaxTargets \in Nat \ {0} /\ MaxPorts \in Nat \ {0} /\ Counts \subseteq Nat

VARIABLES
  tgt_cnt, prt_cnt, count,  \* the sizes
  i,                        \* the loop index
  seen                      \* [<<target, port>> -> times script_loop got it]

vars == <<tgt_cnt, prt_cnt, count, i, seen>>

Pairs == (0..tgt_cnt - 1) \X (0..prt_cnt - 1)

tot_cnt == tgt_cnt * prt_cnt * count

\* Mutant: the port index divides by the port count.
PortIndexByPorts(k) == (k \div prt_cnt) \div count

\* The two range_list_pick indexes of iteration k.
TargetIndex(k) == (k % tgt_cnt) \div count
PortIndex(k) == (k \div tgt_cnt) \div count

Init ==
  /\ tgt_cnt \in 1..MaxTargets
  /\ prt_cnt \in 1..MaxPorts
  /\ count \in Counts
  /\ i = 0
  /\ seen = [pr \in (0..tgt_cnt - 1) \X (0..prt_cnt - 1) |-> 0]

\* Mutant: the loop test i <= tot_cnt.
IterateOnceMore ==
  /\ i <= tot_cnt
  /\ LET pr == <<TargetIndex(i), PortIndex(i)>>
     IN seen' = [seen EXCEPT ![pr] = @ + 1]
  /\ i' = i + 1
  /\ UNCHANGED <<tgt_cnt, prt_cnt, count>>

\* One iteration: script_loop(daddr, dport) for the picked pair.
Iterate ==
  /\ i < tot_cnt
  /\ LET pr == <<TargetIndex(i), PortIndex(i)>>
     IN seen' = [seen EXCEPT ![pr] = @ + 1]
  /\ i' = i + 1
  /\ UNCHANGED <<tgt_cnt, prt_cnt, count>>

\* The loop has ended; the thread is finished.
Finished ==
  /\ i = tot_cnt
  /\ UNCHANGED vars

Next == Iterate \/ Finished

Spec == Init /\ [][Next]_vars

-----------------------------------------------------------------------------

TypeOK ==
  /\ tgt_cnt \in 1..MaxTargets /\ prt_cnt \in 1..MaxPorts /\ count \in Counts
  /\ i \in 0..tot_cnt
  /\ seen \in [Pairs -> 0..tot_cnt]

(* Every (target, port) pair is handed to script_loop exactly count times   *)
(* by the time the loop ends (spec section 8, generator enumeration).       *)
EachPairCountTimes ==
  i = tot_cnt => \A pr \in Pairs : seen[pr] = count

=============================================================================
