------------------------------ MODULE Pipeline ------------------------------
(***************************************************************************)
(* The concurrent pipeline of pktizr (src/src/pktizr.c): the main thread   *)
(* starts the recv, send and loop workers one after another behind a       *)
(* mutex/condition barrier (START_THREAD), installs the signal handlers,   *)
(* runs status_line, joins the loop thread, sets args->done and joins the  *)
(* two other workers.                                                      *)
(*                                                                         *)
(*   loop  (loop_cb)  calls the script once per tuple; the script enqueues *)
(*                    packets, some flagged as probes, on the send queue;  *)
(*   send  (send_cb)  dequeues under the token bucket, packs and injects,  *)
(*                    counting pkt_sent and pkt_probe;                     *)
(*   recv  (recv_cb)  captures frames, unpacks them and hands them to the  *)
(*                    script, counting pkt_recv;                           *)
(*   main  (status_line) polls pkt_probe == pkt_count or the signal flag,  *)
(*                    waits args->wait seconds and raises args->stop.      *)
(*                                                                         *)
(* Data is abstracted: a packet is a record saying whether it is a probe   *)
(* and whether pkt_pack succeeds on it; a reply frame is only counted.     *)
(* Sleeps, the loop thread's token bucket and the status display are       *)
(* timing only and are not modelled as steps.                              *)
(***************************************************************************)
EXTENDS Naturals, Sequences

CONSTANTS
  Tuples,        \* tot_cnt = tgt_cnt * prt_cnt * args->count
  Wait,          \* args->wait, seconds waited after the scan
  Rate,          \* args->rate, the send bucket's capacity; 0 = unlimited
  LoopOutcomes,  \* what one script_loop call may enqueue: a set of Seq(Packet)
  Garbage,       \* values a malloc'd, not yet written counter may hold
  MaxSignals,    \* bound on SIGINT/SIGTERM/SIGHUP deliveries
  Spurious       \* may pthread_cond_wait return without a signal?

Packet == [probe : BOOLEAN, packs : BOOLEAN]

ASSUME /\ Tuples \in Nat /\ Wait \in Nat /\ Rate \in Nat
       /\ LoopOutcomes \subseteq Seq(Packet) /\ LoopOutcomes # {}
       /\ Garbage \subseteq Nat /\ Garbage # {}
       /\ MaxSignals \in Nat /\ Spurious \in BOOLEAN

\* The workers in the order main creates them (pktizr.c:221-223).
StartOrder == <<"recv", "send", "loop">>
Workers == {"recv", "send", "loop"}

\* What a captured frame turns into in recv_cb: pkt_unpack returns 0,
\* script_recv returns < 0, or the reply is counted.
FrameFates == {"truncated", "rejected", "accepted"}

VARIABLES
  pc,           \* program counter of main and of each worker
  spawned,      \* how many workers main has created
  done,         \* args->done
  args_stop,    \* args->stop, read by loop_cb
  stop,         \* the static flag set by handle_term_sig
  pkt_count,    \* args->pkt_count
  pkt_sent,     \* args->pkt_sent
  pkt_probe,    \* args->pkt_probe
  pkt_recv,     \* args->pkt_recv
  wait,         \* args->wait, decremented by status_line
  i,            \* loop_cb's tuple index
  tokens,       \* send_cb's bucket.tokens (whole tokens)
  tot,          \* status_line's local copy of pkt_count
  queue,        \* the send queue between loop and send
  wire,         \* reply frames waiting at the device for capture
  signals,      \* signals delivered so far
  interrupted,  \* history: status_line left its poll loop on a signal
  late          \* history: a signal came after the poll loop had ended

vars == <<pc, spawned, done, args_stop, stop, pkt_count, pkt_sent, pkt_probe,
          pkt_recv, wait, i, tokens, tot, queue, wire, signals, interrupted, late>>

MainPcs == {"create", "wait", "signals", "st_init", "st_poll", "st_reset",
            "st_wait", "st_end", "join_loop", "set_done", "join_recv",
            "join_send", "exited"}
WorkerPcs == {"none", "init", "check", "call", "outer", "inner", "loop",
              "exited"}

\* status_line is running and has read pkt_count into tot.
StatusPcs == {"st_poll", "st_reset", "st_wait", "st_end"}

\* The handlers of setup_signals are installed until the process exits.
HandlerPcs == MainPcs \ {"create", "wait", "signals", "exited"}

Init ==
  /\ pc = [t \in {"main"} \cup Workers |-> IF t = "main" THEN "create" ELSE "none"]
  /\ spawned = 0
  /\ done = FALSE
  /\ args_stop = FALSE
  /\ stop = FALSE
  /\ pkt_count \in Garbage
  /\ pkt_sent \in Garbage
  /\ pkt_probe \in Garbage
  /\ pkt_recv \in Garbage
  /\ wait = Wait
  /\ i = 0
  /\ tokens = 0
  /\ tot = 0
  /\ queue = <<>>
  /\ wire = 0
  /\ signals = 0
  /\ interrupted = FALSE
  /\ late = FALSE

Goto(t, from, to) == pc[t] = from /\ pc' = [pc EXCEPT ![t] = to]

-----------------------------------------------------------------------------
(* main: START_THREAD creates a worker with the mutex held and then waits  *)
(* on the condition, so the worker's signal cannot precede the wait.       *)

StartThread ==
  /\ pc["main"] = "create"
  /\ spawned < Len(StartOrder)
  /\ pc' = [pc EXCEPT !["main"] = "wait", ![StartOrder[spawned + 1]] = "init"]
  /\ spawned' = spawned + 1
  /\ UNCHANGED <<done, args_stop, stop, pkt_count, pkt_sent, pkt_probe, pkt_recv,
                 wait, i, tokens, tot, queue, wire, signals, interrupted, late>>

\* pthread_cond_wait returns once the worker signalled, or spuriously.
StartedWake ==
  /\ pc["main"] = "wait"
  /\ pc[StartOrder[spawned]] \notin {"none", "init"} \/ Spurious
  /\ Goto("main", "wait", IF spawned < Len(StartOrder) THEN "create" ELSE "signals")
  /\ UNCHANGED <<spawned, done, args_stop, stop, pkt_count, pkt_sent, pkt_probe,
                 pkt_recv, wait, i, tokens, tot, queue, wire, signals, interrupted, late>>

setup_signals ==
  /\ Goto("main", "signals", "st_init")
  /\ UNCHANGED <<spawned, done, args_stop, stop, pkt_count, pkt_sent, pkt_probe,
                 pkt_recv, wait, i, tokens, tot, queue, wire, signals, interrupted, late>>

StatusVars == <<spawned, done, pkt_count, pkt_sent, pkt_probe, pkt_recv, i,
                tokens, queue, wire, signals, late>>

\* status_line entry: tot = args->pkt_count; stop = false.
StatusInit ==
  /\ Goto("main", "st_init", "st_poll")
  /\ tot' = pkt_count
  /\ stop' = FALSE
  /\ UNCHANGED <<StatusVars, args_stop, wait, interrupted>>

\* Mutant: an off-by-one completion test (probe + 1 >= tot).
StatusPollEarly ==
  /\ pc["main"] = "st_poll"
  /\ \/ /\ pkt_probe + 1 >= tot
        /\ UNCHANGED <<args_stop, interrupted>>
     \/ /\ pkt_probe + 1 < tot
        /\ stop
        /\ args_stop' = TRUE
        /\ interrupted' = TRUE
  /\ pc' = [pc EXCEPT !["main"] = "st_reset"]
  /\ UNCHANGED <<StatusVars, stop, wait, tot>>

\* One refresh that leaves the poll loop: probe == tot, or a signal was seen
\* (then args->stop = true). A refresh that does neither only sleeps.
StatusPoll ==
  /\ pc["main"] = "st_poll"
  /\ \/ /\ pkt_probe = tot
        /\ UNCHANGED <<args_stop, interrupted>>
     \/ /\ pkt_probe # tot
        /\ stop
        /\ args_stop' = TRUE
        /\ interrupted' = TRUE
  /\ pc' = [pc EXCEPT !["main"] = "st_reset"]
  /\ UNCHANGED <<StatusVars, stop, wait, tot>>

\* args->stop = stop = false;
StatusReset ==
  /\ Goto("main", "st_reset", "st_wait")
  /\ args_stop' = FALSE
  /\ stop' = FALSE
  /\ UNCHANGED <<StatusVars, wait, tot, interrupted>>

\* Mutant: the wait loop without its args->wait > 0 test.
StatusWaitUnbounded ==
  /\ pc["main"] = "st_wait"
  /\ IF ~stop
       THEN wait' = wait - 1 /\ UNCHANGED pc
       ELSE pc' = [pc EXCEPT !["main"] = "st_end"] /\ UNCHANGED wait
  /\ UNCHANGED <<StatusVars, args_stop, stop, tot, interrupted>>

\* One second of the wait loop, or its exit.
StatusWait ==
  /\ pc["main"] = "st_wait"
  /\ IF wait > 0 /\ ~stop
       THEN wait' = wait - 1 /\ UNCHANGED pc
       ELSE pc' = [pc EXCEPT !["main"] = "st_end"] /\ UNCHANGED wait
  /\ UNCHANGED <<StatusVars, args_stop, stop, tot, interrupted>>

\* args->stop = true; status_line returns.
StatusEnd ==
  /\ Goto("main", "st_end", "join_loop")
  /\ args_stop' = TRUE
  /\ UNCHANGED <<StatusVars, stop, wait, tot, interrupted>>

MainVars == <<spawned, args_stop, stop, pkt_count, pkt_sent, pkt_probe, pkt_recv,
              wait, i, tokens, tot, queue, wire, signals, interrupted, late>>

JoinLoop ==
  /\ pc["loop"] = "exited"
  /\ Goto("main", "join_loop", "set_done")
  /\ UNCHANGED <<MainVars, done>>

SetDone ==
  /\ Goto("main", "set_done", "join_recv")
  /\ done' = TRUE
  /\ UNCHANGED MainVars

JoinRecv ==
  /\ pc["recv"] = "exited"
  /\ Goto("main", "join_recv", "join_send")
  /\ UNCHANGED <<MainVars, done>>

\* pthread_join(send), then netdev close and the frees; main returns.
JoinSend ==
  /\ pc["send"] = "exited"
  /\ Goto("main", "join_send", "exited")
  /\ UNCHANGED <<MainVars, done>>

\* handle_term_sig: stop = true.
handle_term_sig ==
  /\ pc["main"] \in HandlerPcs
  /\ signals < MaxSignals
  /\ signals' = signals + 1
  /\ stop' = TRUE
  /\ late' = (late \/ pc["main"] \in {"st_reset", "st_wait"})
  /\ UNCHANGED <<pc, spawned, done, args_stop, pkt_count, pkt_sent, pkt_probe,
                 pkt_recv, wait, i, tokens, tot, queue, wire, interrupted>>

-----------------------------------------------------------------------------
(* loop_cb *)

LoopVars == <<spawned, done, args_stop, stop, pkt_sent, pkt_probe, pkt_recv,
              wait, tokens, tot, wire, signals, interrupted, late>>

\* Initialisation up to the started signal: args->pkt_count = tot_cnt.
LoopInit ==
  /\ Goto("loop", "init", "check")
  /\ pkt_count' = Tuples
  /\ UNCHANGED <<LoopVars, i, queue>>

\* The for-loop test i < tot_cnt && !args->stop; on exit script_close.
LoopCheck ==
  /\ pc["loop"] = "check"
  /\ pc' = [pc EXCEPT !["loop"] = IF i < Tuples /\ ~args_stop THEN "call" ELSE "exited"]
  /\ UNCHANGED <<LoopVars, pkt_count, i, queue>>

\* One iteration: script_loop for the i-th tuple enqueues what the script
\* built; whether it returns < 0 only decides a token of the loop bucket.
LoopCall ==
  /\ Goto("loop", "call", "check")
  /\ \E pkts \in LoopOutcomes : queue' = queue \o pkts
  /\ i' = i + 1
  /\ UNCHANGED <<LoopVars, pkt_count>>

-----------------------------------------------------------------------------
(* send_cb *)

SendVars == <<spawned, done, args_stop, stop, pkt_count, pkt_recv, wait, i,
              tot, signals, interrupted, late>>

\* bucket_init, pkt_sent = pkt_probe = 0, then the started signal.
SendInit ==
  /\ Goto("send", "init", "outer")
  /\ pkt_sent' = 0
  /\ pkt_probe' = 0
  /\ tokens' \in 0..Rate
  /\ UNCHANGED <<SendVars, queue, wire>>

\* The outer while (!args->done): exit, or bucket_consume refills tokens
\* by the time elapsed, up to the capacity.
SendOuter ==
  /\ pc["send"] = "outer"
  /\ IF done
       THEN pc' = [pc EXCEPT !["send"] = "exited"] /\ UNCHANGED tokens
       ELSE pc' = [pc EXCEPT !["send"] = "inner"] /\ tokens' \in tokens..Rate
  /\ UNCHANGED <<SendVars, pkt_sent, pkt_probe, queue, wire>>

\* The inner loop's test !args->done && (!rate || tokens >= 1).
MaySend == ~done /\ (Rate = 0 \/ tokens >= 1)

\* One inner iteration with a packet dequeued: pkt_pack fails and the packet
\* is freed, or it is injected (a reply may come back), pkt_sent++,
\* bucket.tokens-- and pkt_probe++ for a probe.
SendPacket ==
  /\ pc["send"] = "inner"
  /\ MaySend
  /\ queue # <<>>
  /\ queue' = Tail(queue)
  /\ \/ /\ ~Head(queue).packs
        /\ UNCHANGED <<pkt_sent, pkt_probe, tokens, wire>>
     \/ /\ Head(queue).packs
        /\ pkt_sent' = pkt_sent + 1
        \* bucket.tokens-- (line 286); at Rate 0 the test at 270 never reads
        \* the tokens, so their value is left as it is to keep it bounded.
        /\ tokens' = IF Rate = 0 THEN tokens ELSE tokens - 1
        /\ pkt_probe' = IF Head(queue).probe THEN pkt_probe + 1 ELSE pkt_probe
        /\ wire' \in {wire, wire + 1}
  /\ UNCHANGED <<SendVars, pc>>

\* The inner loop ends: its test fails or queue_dequeue returns NULL.
SendBreak ==
  /\ ~MaySend \/ queue = <<>>
  /\ Goto("send", "inner", "outer")
  /\ UNCHANGED <<SendVars, pkt_sent, pkt_probe, tokens, queue, wire>>

-----------------------------------------------------------------------------
(* recv_cb *)

RecvVars == <<spawned, done, args_stop, stop, pkt_count, pkt_sent, pkt_probe,
              wait, i, tokens, tot, queue, signals, interrupted, late>>

\* script_load, pkt_recv = 0, then the started signal.
RecvInit ==
  /\ Goto("recv", "init", "loop")
  /\ pkt_recv' = 0
  /\ UNCHANGED <<RecvVars, wire>>

\* One iteration that captures a frame: pkt_unpack, script_recv, the count,
\* pkt_free and netdev release. A capture that times out changes nothing.
RecvFrame ==
  /\ pc["recv"] = "loop"
  /\ ~done
  /\ wire > 0
  /\ wire' = wire - 1
  /\ \E fate \in FrameFates :
       pkt_recv' = IF fate = "accepted" THEN pkt_recv + 1 ELSE pkt_recv
  /\ UNCHANGED <<RecvVars, pc>>

\* Mutant: recv_cb's loop tests args->stop instead of args->done.
RecvExitOnStop ==
  /\ args_stop
  /\ Goto("recv", "loop", "exited")
  /\ UNCHANGED <<RecvVars, pkt_recv, wire>>

\* while (!args->done) ends; script_close.
RecvExit ==
  /\ done
  /\ Goto("recv", "loop", "exited")
  /\ UNCHANGED <<RecvVars, pkt_recv, wire>>

-----------------------------------------------------------------------------

Main == StartThread \/ StartedWake \/ setup_signals \/ StatusInit \/ StatusPoll
        \/ StatusReset \/ StatusWait \/ StatusEnd \/ JoinLoop \/ SetDone
        \/ JoinRecv \/ JoinSend
Loop == LoopInit \/ LoopCheck \/ LoopCall
Send == SendInit \/ SendOuter \/ SendPacket \/ SendBreak
Recv == RecvInit \/ RecvFrame \/ RecvExit

Next == Main \/ Loop \/ Send \/ Recv \/ handle_term_sig

\* Every thread is scheduled by the OS; signals are the environment's and
\* need not come.
\* Time passes while bucket_consume sleeps, so a refill that grants a whole
\* token cannot be put off forever (it is enabled at each visit of "outer").
TokenGranted ==
  /\ SendOuter
  /\ tokens' > tokens

Fairness == WF_vars(Main) /\ WF_vars(Loop) /\ WF_vars(Send) /\ WF_vars(Recv)
            /\ SF_vars(TokenGranted)

Spec == Init /\ [][Next]_vars /\ Fairness

-----------------------------------------------------------------------------
(* Properties *)

TypeOK ==
  /\ pc["main"] \in MainPcs /\ \A w \in Workers : pc[w] \in WorkerPcs
  /\ spawned \in 0..Len(StartOrder)
  /\ {done, args_stop, stop, interrupted, late} \subseteq BOOLEAN
  /\ {pkt_count, pkt_sent, pkt_probe, pkt_recv, tot} \subseteq Nat
  /\ wait \in 0..Wait /\ i \in 0..Tuples /\ tokens \in 0..Rate
  /\ queue \in Seq(Packet) /\ wire \in Nat /\ signals \in 0..MaxSignals

(* The START_THREAD barrier: once status_line runs, the tot it compares     *)
(* pkt_probe against is the pkt_count loop_cb computed (and not the         *)
(* malloc'd garbage that is in args->pkt_count before loop_cb writes it).   *)
StatusSeesCount ==
  pc["main"] \in StatusPcs => tot = Tuples

(* The completion half of the shutdown protocol: unless status_line was     *)
(* interrupted by a signal, main sets args->done (which makes send_cb and   *)
(* recv_cb quit) only after loop_cb has handed every tuple to the script    *)
(* and send_cb has injected every probe the script queued.                  *)
CompletionAfterScan ==
  done /\ ~interrupted =>
    /\ i = Tuples
    /\ \A k \in DOMAIN queue : ~queue[k].probe

(* The scan terminates: status_line returns, every thread is joined and     *)
(* main exits.                                                              *)
Termination == <>(pc["main"] = "exited")

(* A signal makes the program exit: handle_term_sig's flag is seen by       *)
(* status_line, which shortens the scan and the wait and returns.           *)
SignalLeadsToExit == signals > 0 ~> pc["main"] = "exited"

(* Once status_line has left its poll loop on a signal (and raised          *)
(* args->stop), loop_cb starts no further script_loop call.                 *)
GeneratorStopsOnSignal ==
  [][interrupted => ~(pc["loop"] = "check" /\ pc'["loop"] = "call")]_vars

(* A signal that comes after the scan has completed cuts the wait short:   *)
(* status_line sleeps no further second of args->wait once handle_term_sig *)
(* has run after the poll loop ended.                                      *)
LateSignalEndsWait ==
  [][late /\ pc["main"] = "st_wait" => wait' = wait]_vars

-----------------------------------------------------------------------------
(* Refinement of the abstract lifecycle (Shutdown.tla): main's pc gives    *)
(* the phase, and a thread counts as running until its function returns.  *)

PhaseOf ==
  CASE pc["main"] \in {"create", "wait", "signals", "st_init"} -> "starting"
    [] pc["main"] = "st_poll"                                  -> "scanning"
    [] pc["main"] \in {"st_reset", "st_wait"}                  -> "waiting"
    [] pc["main"] \in {"st_end", "join_loop", "set_done"}      -> "stopping"
    [] pc["main"] \in {"join_recv", "join_send"}               -> "draining"
    [] pc["main"] = "exited"                                   -> "exited"

Abstract == INSTANCE Shutdown
              WITH Finishers <- {"send", "recv"},
                   phase <- PhaseOf,
                   gen <- pc["loop"] # "exited",
                   workers <- {w \in {"send", "recv"} : pc[w] # "exited"},
                   done <- done

(* Pipeline implements the lifecycle: the status loop's phases come in     *)
(* order, done is raised only after loop_cb was joined, send_cb and        *)
(* recv_cb return only after done, main exits only after joining both,     *)
(* and the whole sequence is eventually completed.                         *)
ShutdownRefined == Abstract!Spec

=============================================================================
