------------------------------ MODULE RateLimit ------------------------------
(***************************************************************************)
(* The two token buckets of pktizr's pipeline: loop_cb (pktizr.c 354-382)  *)
(* and send_cb (254-294) each own a bucket of capacity args->rate, and the *)
(* send queue connects them.                                               *)
(*                                                                         *)
(* bucket.c is not in src/; bucket_consume is modelled from the spec       *)
(* (section 4.2): it refills tokens = min(capacity, tokens + elapsed *     *)
(* rate), with the time elapsed since its previous call, and sleeps        *)
(* briefly when fewer than one token is left.                              *)
(*                                                                         *)
(* Time is discrete: a tick is the length of that short sleep. Tokens are  *)
(* counted in units of 1/TPS token, where TPS is the number of ticks per   *)
(* second, so a bucket of rate r gains r units per tick and holds at       *)
(* most r * TPS units. A packet    is only counted. args->rate is chosen   *)
(* in Init; 0 disables the limit (spec section 4.2: the bucket never       *)
(* blocks, and send_cb's inner loop ignores the tokens).                   *)
(***************************************************************************)
EXTENDS Integers

CONSTANTS
  Rates,      \* the values of args->rate (packets per second) to check
  TPS,        \* ticks (bucket sleeps) per second
  Tuples,     \* tot_cnt, the iterations of loop_cb
  PerCall,    \* how many packets one script_loop call may enqueue
  InitTokens  \* what bucket_init may leave in a bucket, in units

ASSUME /\ Rates \subseteq Nat /\ TPS \in Nat \ {0} /\ Tuples \in Nat
       /\ PerCall \subseteq Nat /\ PerCall # {}

ASSUME InitTokens \subseteq Nat /\ InitTokens # {}

Threads == {"loop", "send"}

VARIABLES
  rate,     \* args->rate
  pc,       \* loop: "check", "call", "exited"; send: "outer", "inner"
  tokens,   \* bucket.tokens of each thread, in units
  since,    \* ticks since the thread's last bucket_consume (capped)
  asleep,   \* the thread sleeps in bucket_consume until the next tick
  i,        \* loop_cb's tuple index
  queue,    \* packets on the send queue
  excess    \* history: the largest excess, over windows ending now, of the
            \* tokens a thread consumed over the tokens the rate allows

vars == <<rate, pc, tokens, since, asleep, i, queue, excess>>

\* One token, and the capacity, in units.
Token == TPS
Cap == rate * TPS

\* Ticks after which a refill reaches the capacity from the lowest level the
\* thread's bucket can fall to (0 for send, which spends only whole tokens);
\* later ticks change no refill.
Saturation(t) ==
  CASE rate = 0   -> 0
    [] t = "send" -> Cap \div rate
    [] OTHER      -> (Cap + Tuples * Token) \div rate

Init ==
  /\ rate \in Rates
  /\ pc = [t \in Threads |-> IF t = "loop" THEN "check" ELSE "outer"]
  /\ tokens \in [Threads -> {n \in InitTokens : n <= Cap}]
  /\ since = [t \in Threads |-> 0]
  /\ asleep = [t \in Threads |-> FALSE]
  /\ i = 0
  /\ queue = 0
  /\ excess = [t \in Threads |-> 0]

Min(a, b) == IF a < b THEN a ELSE b

\* Mutant: the refill is not capped at the capacity.
ConsumeUncapped(t) ==
  LET refilled == tokens[t] + since[t] * rate
  IN  /\ tokens' = [tokens EXCEPT ![t] = refilled]
      /\ since' = [since EXCEPT ![t] = 0]
      /\ asleep' = [asleep EXCEPT ![t] = rate # 0 /\ refilled < Token]

\* bucket_consume: refill by the time elapsed since the last call, then
\* sleep one tick if less than one token is left; with rate 0 it never
\* sleeps.
Consume(t) ==
  LET refilled == Min(Cap, tokens[t] + since[t] * rate)
  IN  /\ tokens' = [tokens EXCEPT ![t] = refilled]
      /\ since' = [since EXCEPT ![t] = 0]
      /\ asleep' = [asleep EXCEPT ![t] = rate # 0 /\ refilled < Token]

\* bucket.tokens-- for one packet, charged to the window history.
Spend(t) ==
  /\ tokens' = [tokens EXCEPT ![t] = @ - Token]
  /\ excess' = [excess EXCEPT ![t] = @ + Token]

-----------------------------------------------------------------------------
(* loop_cb *)

\* The for-loop test i < tot_cnt, then bucket_consume; or the loop ends.
LoopCheck ==
  /\ pc["loop"] = "check"
  /\ IF i < Tuples
       THEN pc' = [pc EXCEPT !["loop"] = "call"] /\ Consume("loop")
       ELSE pc' = [pc EXCEPT !["loop"] = "exited"] /\ UNCHANGED <<tokens, since, asleep>>
  /\ UNCHANGED <<rate, i, queue, excess>>

\* script_loop for the i-th tuple enqueues what the script built; unless it
\* returns < 0, bucket.tokens-- -- whatever the bucket holds.
LoopCall ==
  /\ pc["loop"] = "call"
  /\ ~asleep["loop"]
  /\ pc' = [pc EXCEPT !["loop"] = "check"]
  /\ \E n \in PerCall : queue' = queue + n
  /\ \/ Spend("loop")
     \/ UNCHANGED <<tokens, excess>>
  /\ i' = i + 1
  /\ UNCHANGED <<rate, since, asleep>>

-----------------------------------------------------------------------------
(* send_cb; main's args->done is not modelled here, so the thread runs on. *)

\* The outer loop: bucket_consume.
SendConsume ==
  /\ pc["send"] = "outer"
  /\ pc' = [pc EXCEPT !["send"] = "inner"]
  /\ Consume("send")
  /\ UNCHANGED <<rate, i, queue, excess>>

\* Mutant: the token test of the inner loop is tokens > 1.0.
MaySendStrict == rate = 0 \/ tokens["send"] > Token

\* The inner loop's token test, !args->rate || bucket.tokens >= 1.0.
MaySend == rate = 0 \/ tokens["send"] >= Token

\* Mutant: the injected packet is not charged to the bucket.
SendPacketNoSpend ==
  /\ pc["send"] = "inner"
  /\ ~asleep["send"]
  /\ MaySend
  /\ queue > 0
  /\ queue' = queue - 1
  /\ \/ UNCHANGED <<tokens, excess>>
     \/ excess' = [excess EXCEPT !["send"] = @ + Token] /\ UNCHANGED tokens
  /\ UNCHANGED <<rate, pc, since, asleep, i>>

\* One inner iteration with a packet dequeued: pkt_pack fails and the
\* packet is freed, or it is injected (pkt_sent++) and bucket.tokens--.
SendPacket ==
  /\ pc["send"] = "inner"
  /\ ~asleep["send"]
  /\ MaySend
  /\ queue > 0
  /\ queue' = queue - 1
  /\ \/ UNCHANGED <<tokens, excess>>
     \/ Spend("send")
  /\ UNCHANGED <<rate, pc, since, asleep, i>>

\* The inner loop ends: its test fails or queue_dequeue returns NULL.
SendBreak ==
  /\ pc["send"] = "inner"
  /\ ~asleep["send"]
  /\ ~MaySend \/ queue = 0
  /\ pc' = [pc EXCEPT !["send"] = "outer"]
  /\ UNCHANGED <<rate, tokens, since, asleep, i, queue, excess>>

-----------------------------------------------------------------------------

\* One tick of the clock: sleepers wake, every bucket's elapsed time grows,
\* and each window's allowance grows by rate units.
Tick ==
  /\ since' = [t \in Threads |-> IF pc[t] = "exited" THEN since[t]
                                   ELSE Min(since[t] + 1, Saturation(t))]
  /\ asleep' = [t \in Threads |-> FALSE]
  /\ excess' = [t \in Threads |-> IF excess[t] > rate THEN excess[t] - rate ELSE 0]
  /\ UNCHANGED <<rate, pc, tokens, i, queue>>

Next == LoopCheck \/ LoopCall \/ SendConsume \/ SendPacket \/ SendBreak \/ Tick

\* Both threads are scheduled by the OS, and time passes.
Spec == Init /\ [][Next]_vars
        /\ WF_vars(LoopCheck \/ LoopCall) /\ WF_vars(SendConsume \/ SendPacket \/ SendBreak)
        /\ WF_vars(Tick)

-----------------------------------------------------------------------------
(* Properties *)

TypeOK ==
  /\ rate \in Rates
  /\ pc["loop"] \in {"check", "call", "exited"} /\ pc["send"] \in {"outer", "inner"}
  /\ tokens \in [Threads -> Int] /\ \A t \in Threads : tokens[t] <= Cap
  /\ \A t \in Threads : since[t] \in 0..Saturation(t) /\ asleep \in [Threads -> BOOLEAN]
  /\ i \in 0..Tuples /\ queue \in Nat
  /\ excess \in [Threads -> Nat]

(* The grant bound of the token bucket (spec section 8) for the            *)
(* transmitter: over every interval of D seconds send_cb injects at most   *)
(* Rate * D packets plus one bucketful (the spec's +1 when Rate = 1).      *)
SendGrantBound == rate > 0 => excess["send"] <= Cap

(* What send_cb's bucket does guarantee: Rate * D packets plus two         *)
(* bucketfuls in D seconds -- what the bucket held when the interval began *)
(* and the refill of the first bucket_consume in it, which also credits    *)
(* time before the interval.                                               *)
SendRateBound == rate > 0 => excess["send"] <= 2 * Cap

(* The generator is rate-limited too (spec section 1: the bucket governs   *)
(* both): loop_cb makes at most Rate * D token-consuming script_loop       *)
(* calls, plus two bucketfuls, in D seconds.                               *)
LoopRateBound == rate > 0 => excess["loop"] <= 2 * Cap

(* Under the bucket, or with rate 0 and no limit, the transmitter keeps up: *)
(* once the generator is done, the send queue is eventually empty for good.*)
QueueDrains == <>[](pc["loop"] = "exited" /\ queue = 0)

=============================================================================
