# TLA+ models of pktizr (ghedo/hype)

pktizr is an asynchronous, scriptable packet generator. It sends
script-built probes to a set of (target, port) tuples at a bounded rate and
hands every captured reply to the script. This directory holds the TLA+
models of its concurrent core and start-up, the TLC configurations that check
them, and `PROJECT.json`, which lists the components, the runs, the mutants,
the map from every definition to source lines, the findings and the hazards.

## 1. Inventory

The repository's own code under `src/` is `src/src/pktizr.c` (main, the
three workers, the status line, signals), `src/src/resolv.c` (ARP
resolution) and `src/deps/lua-pack/lpack.c` (the binary pack helper exposed
to scripts). The range lists, token bucket, queue, packet codec, netdev and
script host are named by the spec, but their code is not in `src/`.

| Component | State | Operations | Interacts with |
|---|---|---|---|
| main + status line (pktizr.c 96-243, 389-443) | `args` (malloc'd, partly initialised), static `stop`, `tot`, `args->wait` | START_THREAD ×3, setup_signals, status_line (poll, reset, wait, end), join loop, `done = true`, join recv and send, close | workers through `args->stop`, `args->done` and the counters; the signal handler through `stop` |
| signal handler (445-462) | `stop` | handle_term_sig | status_line |
| loop worker `loop_cb` (343-387) | `i`, its bucket, `args->pkt_count` | init+signal, loop test, script_loop per tuple | send queue (producer), `args->stop` |
| send worker `send_cb` (245-297) | bucket tokens, `pkt_sent`, `pkt_probe` | init+signal, bucket_consume, dequeue/pack/inject or drop | send queue (consumer), netdev, `args->done` |
| recv worker `recv_cb` (299-341) | `pkt_recv` | init+signal, capture, unpack, script_recv, release | netdev, `args->done` |
| tuple enumeration (loop_cb 350-382) | `tot_cnt`, index formula | pick the i-th (target, port) | range lists |
| start-up resolution (pktizr.c 184-217, resolv.c 67-129) | `local_addr`, `gateway_addr`, `gateway_mac` | address selection from options and route, one ARP request, poll with a 5 s deadline | netdev, the LAN |
| lua-pack (lpack.c) | format cursor, alignment, endianness | str_pack, str_unpack, packint/unpackint, getdetails | scripts |
| command line (pktizr.c 56-185, 464-476) | argv, `args->script`, the option strings | argc test, targets, get_entropy, the getopt_long loop, the script test | Resolver (the address strings) |
| token bucket (bucket.c, not in `src/`) | capacity, tokens, last refill | bucket_init, bucket_consume (refill, short sleep) | loop_cb and send_cb, which spend tokens |
| MPSC queue, range lists, codec, netdev, script host | (not in `src/`) | | see the spec |

What is hard:

* **Concurrency.** Four threads share `args` with plain loads and stores: the
  start barrier, the status loop's completion test, the two stop flags and
  `done` are all read across threads.
* **Signals.** A signal may come at any point after `setup_signals`;
  status_line clears the flag twice (lines 394 and 429).
* **Shutdown.** It is driven by a counter equality (`pkt_probe == tot`)
  that depends on what the script does and on pack failures.
* **Timeouts.** The resolver sends one request and polls against a deadline
  that it tests after each capture.
* **Numeric edges.** The enumeration uses integer division and a size_t
  product. lpack does alignment arithmetic, sign extension and overflow
  checks.

What makes each component correct:

* **Barrier.** No thread reads state before its owner has written it.
* **Shutdown.** Without a signal, the workers are stopped only after every
  tuple was scanned and every probe was sent. The program always exits. A
  signal stops the generator and leads to exit.
* **Enumeration.** Every pair is scanned exactly `count` times.
* **Resolver.** Only the configured gateway's reply sets `gateway_mac`, and
  the resolver always returns.
* **Token bucket.** Each thread consumes at most the rate, plus a bounded
  burst, over every interval.
* **Command line.** No scan starts from a malformed argument, and an
  argument error does not exit with status 0.
* **lua-pack.** Unpack inverts pack, alignment is correct, and the bounds
  checks reject exactly the bad inputs.

## 2. Modules

### Pipeline (`Pipeline.tla`, `MCPipeline.tla`)

The model has one `pc` per thread: main, loop, send and recv. The
variables use the source's names: `done` and `args_stop` are `args->done`
and `args->stop`, `stop` is the static flag, and `pkt_count`, `pkt_sent`,
`pkt_probe`, `pkt_recv`, `wait`, `i`, `tokens` and `tot` are the fields and
locals of the same names. `queue` is the send queue and `wire` holds the
reply frames waiting at the device.

The counters start at values from `Garbage`, because `args` is malloc'd and
the workers write them only in their init.

Each action is one step of the code:

| Thread | Actions |
|---|---|
| main | `StartThread`, `StartedWake`, `setup_signals`, `StatusInit`, `StatusPoll`, `StatusReset`, `StatusWait`, `StatusEnd`, `JoinLoop`, `SetDone`, `JoinRecv`, `JoinSend` |
| loop | `LoopInit`, `LoopCheck`, `LoopCall` |
| send | `SendInit`, `SendOuter`, `SendPacket` (inject or pack failure), `SendBreak` |
| recv | `RecvInit`, `RecvFrame`, `RecvExit` |
| signal | `handle_term_sig` |

These steps are stuttering, because they change no modelled state:

* a capture that times out;
* a status refresh that neither completes nor sees a signal;
* the loop thread's bucket wait, which is timing only.

`StartThread` creates the worker and starts waiting in one step, as the code
does with the mutex held. `StartedWake` waits for the worker's init, or
returns at once when `Spurious` is TRUE.

Data is abstracted:

* A packet is `[probe, packs]`: whether the script flagged it, and whether
  `pkt_pack` succeeds on it.
* `LoopOutcomes` is the set of packet sequences one `script_loop` call may
  queue.
* A captured frame is truncated, rejected by the script, or counted.

### Shutdown (`Shutdown.tla`): the abstract lifecycle

This module states what the lifecycle of spec section 4.7 promises, with
no threads or counters. The variables are `phase` (starting, scanning,
waiting, stopping, draining, exited), `gen` (the generator has not
returned), `workers` (send and recv, while they have not returned) and
`done`. The ordering rules are:

* `done` is raised only in `stopping` and only after the generator is gone;
* a worker leaves only after `done`;
* the process exits only when both workers have left.

Weak fairness on the whole next-state relation makes the abstract program
exit.

`Pipeline.tla` defines `Abstract == INSTANCE Shutdown WITH ...`:

* `phase` is taken from main's pc (`PhaseOf`): `st_poll` is scanning,
  `st_reset`/`st_wait` waiting, `st_end`..`set_done` stopping,
  `join_recv`/`join_send` draining;
* `gen` is `pc["loop"] # "exited"`;
* `workers` is the set of send/recv whose pc is not `exited`.

`ShutdownRefined == Abstract!Spec` is checked as a PROPERTY of the
pipeline run. It includes the abstract liveness, so it also implies that
the program terminates.

### RateLimit (`RateLimit.tla`)

The two token buckets and their users: loop_cb's iteration (bucket_consume,
script_loop, `bucket.tokens--` unless the script returned < 0) and
send_cb's outer/inner loops (bucket_consume, then dequeue while
`tokens >= 1`; a pack failure spends nothing). bucket.c is not in `src/`,
so `Consume` follows spec section 4.2: a lazy refill
`min(capacity, tokens + elapsed * rate)` with the time since the thread's
previous call, and one short sleep when less than a token is left.

* **Time.** Time is discrete; one `Tick` is the length of that sleep.
  Tokens are counted in 1/TPS units, so the arithmetic is exact: a bucket
  gains `rate` units per tick and holds at most `rate*TPS`.
* **`rate`.** args->rate, chosen in `Init` from `Rates`. With 0 the bucket
  never sleeps (spec section 4.2) and send_cb's inner loop ignores the
  tokens (`!args->rate ||` at pktizr.c:270).
* **`since[t]`.** Ticks since thread t's last consume, capped where more
  ticks cannot change a refill.
* **`excess[t]`.** A history variable: the largest excess, over every
  window ending now, of the tokens spent over what the rate allows. A
  spend adds a token; a tick subtracts `rate` units, with a floor of 0. A
  rate bound is then an invariant on `excess`, stated for `rate > 0`.

### Options (`Options.tla`, `MCOptions.tla`)

main's command-line handling, in code order:

* `CheckArgc`: `argc < 4` prints the help and returns 0;
* `ParseTargets`: `range_parse_targets(argv[1])`;
* `GetEntropy`: /dev/urandom may fail;
* `Getopt`: one getopt_long call and its case;
* `CheckScript`: "No script provided".

An argument is an *occurrence*: the option named, short or long form,
one or two argv words, and the value's class (ok, junk, signed, empty,
missing, none).
`GetoptResult` translates `short_opts` and `long_opts`: `-l` and `-g` have
no short form, so they return '?', as do unknown options and missing
values. The `strtoull`/`*end` checks and the --ports validation are
`NumberParses`.

`MCOptions` defines `TwoWordOcc`, the occurrences whose values are given
in words of their own. The value classes follow strtoull: `signed` is a
word with a leading minus, and `empty` an empty word (`-s ""` or `--seed=`);
strtoull accepts both, and only trailing characters (`junk`) are refused.

### Enumeration (`Enumeration.tla`)

This module is loop_cb's counting loop, with `tot_cnt`, `TargetIndex` and
`PortIndex` taken from lines 350-375. The sizes are chosen in `Init`, and
`seen` counts how often each pair was handed to the script.

### LuaPack (`LuaPack.tla`, `MCLuaPack.tla`)

This module is lpack.c's `str_pack` followed by `str_unpack` (or `str_unpack`
alone, on received bytes), one format item per step. The platform is scaled
down so that TLC can cover every edge. A char has `NB` = 2 bits, and
`lua_Integer` and `size_t` have `SZINT` = 2 chars (W = 4 bits), so size_t
arithmetic is `% 2^W`. The native int is 1 char. `MAXINTSIZE` is 3, which
is more than `SZINT`, so the `size > SZINT` paths of packint/unpackint
(sign-extension bytes and their check) are reached.

* **Options.** `GetNum`, `NumOutOfLimits`, `GetOption` and `GetDetails` are
  getnum/getnumlimit/getoption/getdetails. This includes `X` taking its
  alignment from the next option, and the `(align - (totalsize & (align-1)))
  & (align-1)` padding, computed with `Bitwise`'s `&`. A format is a
  sequence of tokens, each an option character and an optional one-digit
  numeral (`MCTokens`).
* **Integers.** `PackInt` and `UnpackInt` are packint/unpackint on byte
  sequences, with the `^^` sign extension and the "does not fit" test on
  the extension bytes.
* **Pack side.** `PackItem` is one iteration of str_pack's loop: getdetails,
  padding, and the case of the option, including the `Kint`/`Kuint` overflow
  argument checks (`KintFits`, `KuintFits`) and the `Kstring` length check.
  It takes one argument from small sets of integers and strings.
* **Unpack side.** `UnpackItem` is one iteration of str_unpack's loop:
  `UnpackStep` has the `ntoalign + size > ~pos` and data-length checks, and
  `UnpackCase` has the cases. `overread` records whether a `s` item handed
  `lua_pushlstring` a range past the end of the data; the pushed string
  itself is cut to the data.

The run checks the codec against `RefEncode`/`RefDecode`, two reference
definitions by arithmetic (`IntCodecMatchesReference`). It also checks that
unpacking what was packed, with the same format, returns the arguments and
ends exactly at the end of the data (`PackUnpackRoundTrip`).

### Resolver (`Resolver.tla`, `MCResolver.tla`, `ArpResolve.tla`)

`Configure` is main's address selection, including the `--gateway-addr`
assignment to `local_addr`. `StartupFails` covers the fail_printf exits.
`InjectRequest` sends the single request. `Capture` is one iteration of the
poll loop: capture, deadline test, `n < 2` test, ARP test, then the `psrc`
and `pdst` comparisons. The environment supplies the rest:

* the LAN host's reply (`LanReplies`, which may never come);
* unrelated frames (`LanNoise`): truncated frames, IP frames, or ARP frames
  of the LAN's hosts carrying their own MAC;
* time (`Tick`).

`ArpResolve.tla` states what resolv_addr_to_mac promises (spec section
4.6) as atomic steps: `Call` (main hands over an address), `Resolve`
(allowed only when a LAN host owns `daddr`, and it writes that host's MAC),
`GiveUp` (timeout), and `Abort` (start-up fails before the call). Weak
fairness on `Resolve \/ GiveUp` says the call returns. `Resolver.tla`
defines `Abstract == INSTANCE ArpResolve WITH ...`:

* `phase` is `ResolvePhase`: `config` is idle, `inject`/`poll` waiting;
* `daddr` is `args->gateway_addr`;
* `dhost` is `args->gateway_mac`.

`ResolverRefined == Abstract!Spec` is a PROPERTY of the resolver run. No run
checks the refinement under the `--gateway-addr` configuration
(ResolverGwOpt.cfg checks the finding-5 property only). Finding 5 is about
main's choice of the address, which comes before the call the abstract
spec describes.

## 3. Runs

Fairness in the pipeline:

* Each thread is weakly fair, because the OS schedules it.
* `TokenGranted`, a refill of the send bucket that yields a whole token, is
  strongly fair. bucket_consume sleeps and is called on each outer
  iteration, so time passes and a token is eventually granted.
* Signals and the LAN get no fairness.

In the resolver, the process and the clock are weakly fair; the abstract
ArpResolve has weak fairness on the call and on its return. In RateLimit,
both threads and `Tick` are weakly fair: the OS schedules the threads and
time passes. LuaPack has no fairness and does not check deadlock: one
call of str_pack/str_unpack runs sequentially and ends at `done` or at an
error. Options has no fairness; main is sequential and stops at one
of its exits, so its cfg does not check deadlock.

| Run | Cfg | Expect | Shows |
|---|---|---|---|
| pipeline | Pipeline.cfg | pass | With a script that queues exactly one probe per tuple, the pipeline implements the abstract lifecycle (`ShutdownRefined`: phases in order, `done` only after the generator is joined, send/recv leave only after `done`, and the program exits). Without a signal, `done` is set only after all tuples and probes are through (`CompletionAfterScan`). The run allows extra and unpackable packets, up to 2 signals, 3 tuples, rate 1 and wait 1. It assumes no spurious wakeup at the start barrier (`Spurious = FALSE`, see finding 4). |
| pipeline_skip | PipelineSkip.cfg | violation | A skipped tuple or a refused probe hangs the scan (finding 1) |
| pipeline_signal_scan | PipelineSignalScan.cfg | violation | The generator keeps scanning after a signal (finding 3) |
| resolver | Resolver.cfg | pass | resolv_addr_to_mac implements its contract (`ResolverRefined`): it writes `gateway_mac` at most once, only with the MAC of the host owning the address main passed, and it always returns. With the default route, that MAC is the gateway's (`ResolvedMacIsGateway`). The run includes 3 noise frames and a deadline of 3 ticks. |
| resolver_gateway_opt | ResolverGwOpt.cfg | violation | With `--gateway-addr` the wrong MAC is stored (finding 5) |
| enumeration | Enumeration.cfg | pass | With `--count 1`, every pair is scanned once, for 1-4 targets × 1-4 ports |
| enumeration_count | EnumerationCount.cfg | violation | With `--count 2`, targets are skipped (finding 6) |
| rate_limit | RateLimit.cfg | pass | At rate 1, send_cb injects at most Rate·D packets plus two bucketfuls in any D seconds (`SendRateBound`). At rates 1 and 0 (unlimited), the queue the generator filled is eventually empty for good (`QueueDrains`). Rates 0 and 1, 2 ticks per second, 3 tuples, 0-2 packets per call, buckets starting empty or full (at rate 0 only empty). |
| rate_limit_loop | RateLimitLoop.cfg | violation | loop_cb is not rate-limited (finding 7) |
| luapack | LuaPack.cfg | pass | packint/unpackint agree with the arithmetic reference for every width up to `MAXINTSIZE`, both endiannesses and signedness (`IntCodecMatchesReference`). For every format of up to 2 tokens (and 3 with alignment), unpack(pack(args)) = args, with no spurious unpack error (`PackUnpackRoundTrip`). Received data of up to 3 chars is also unpacked, from every start position. |
| luapack_overread | LuaPackOverread.cfg | violation | A `s` length near 2^W wraps lpack's own bounds check, and `lua_pushlstring` is handed a range past the data (`UnpackWithinData`, finding 8) |
| options_values | Options.cfg | violation | Over every argv of up to two occurrences in any form, order and value class, a scan starts with a value the spec calls invalid: `pktizr 10.0.0.1 -Sx.lua -s-1` (`ValidatedArgs`, finding 9). |

Why the bounds are enough:

* **Pipeline.** Three tuples give a "last probe" that differs from the
  "first", and a middle one. Up to two signals can land in every window
  of main's program, including one erased at line 394 followed by
  another. Rate 1
  makes the token test block. Wait 1 exercises the wait loop both with and
  without a signal.
* **Resolver.** Three noise frames can precede, follow or displace the
  reply, and a deadline of 3 lets frames arrive both before and after it.
* **RateLimit.** Two ticks per second make the bucket's sleep shorter than
  a token's period, which is the real ratio: 100 µs sleeps against rates
  below 10,000 pps. Rate 1 makes a bucketful one token, the spec's "+1".
  Three tuples let the generator's debt grow past a bucketful. Rate 0 is
  the other branch of the inner loop's test.
* **Options.** Two occurrences cover every pair of options, repeated
  options, a missing value at the end, and argc on both sides of 4. The
  violation needs two: the script and one bad number.
* **LuaPack.** With 2-bit chars and 4-bit size_t, lengths wrap after 16,
  so the wrap cases are reachable with data of 3 chars. Int sizes 1-3
  against `SZINT` 2 cover narrower, equal and wider integers. Formats of 2
  tokens cover every pair of options, and 3-token formats add `!`, `X` and
  alignment before a value.
* **Enumeration.** The formula's defect shows as soon as `count` is 2 with
  2 targets, and `count` 1 covers every shape up to 4×4.

Every property of a passing run has a mutant in `PROJECT.json`: a plausible
code change (an off-by-one, a dropped guard, a missing test) that TLC
catches.

## 4. Findings

1. **pktizr.c:418.** Completion is an exact count of injected probes. A
   skipped tuple or a pack failure means no exit without a signal.
2. **pktizr.c:394.** A signal between `setup_signals()` and `stop = false`
   is lost (no run; see below).
3. **pktizr.c:429.** `args->stop = stop = false` undoes the stop request.
   The generator runs on during the wait.
4. **pktizr.c:93.** `pthread_cond_wait` has no predicate, so a spurious
   wakeup lets status_line read `pkt_count` uninitialised (no run; see
   below).
5. **pktizr.c:193.** `--gateway-addr` is written to `local_addr`, and
   `gateway_addr` stays uninitialised.
6. **pktizr.c:373.** `(i % tgt_cnt) / count` skips targets when
   `count > 1`.

7. **pktizr.c:381.** loop_cb decrements `bucket.tokens` without testing
   it, and `bucket_consume` sleeps only once. The generator therefore runs
   at one script call per sleep, whatever `--rate` says. Its tokens go
   negative and the send queue grows by the difference.
8. **lpack.c:443.** The `s` case of str_unpack checks
   `pos + len + size <= ld` in size_t. A length read from the data near
   `SIZE_MAX` wraps the sum, the check passes, and `lua_pushlstring` is handed
   a range past the end of the data. At real widths that length is near
   `SIZE_MAX`: Lua 5.2+ and LuaJIT raise a size error in `lua_pushlstring`
   first, and only a Lua 5.1 build copies past the data. Later Lua versions
   test `len <= ld - pos - size` instead.
9. **pktizr.c:146.** main tests only strtoull's end pointer. strtoull takes
   a leading minus and an empty word, so `-s-1` seeds with 2^64-1, and the
   same holds for `-r`, `-w`, `-c`. A malformed `-l` or `-g` value passes
   `inet_addr` unchecked as 255.255.255.255. The spec types these options as
   uint64 or addresses and makes InvalidArgument fatal.

Further disagreements are stated as properties and were found violated by
TLC while modelling. They have no run of their own:

* **`SendGrantBound`** (RateLimit, under RateLimit.cfg). The spec's lazy
  refill credits time during which the bucket was already full. send_cb
  can therefore inject a second bucketful at once, which breaks the
  "Rate·D + 1" of section 8. `SendRateBound` checks the two-bucketful
  bound instead.
* **`LateSignalEndsWait`** (Pipeline, under Pipeline.cfg). A signal
  between the end of the poll loop and line 429 is cleared, so the wait
  still runs in full.
* **Finding 2** (`SignalLeadsToExit`, with `Script <- SkippingScript`,
  `MaxSignals = 1` in MCPipeline). The only signal lands before line 394
  and is cleared, and the scan never completes.
* **Finding 4** (`StatusSeesCount`, with `Spurious = TRUE`). status_line
  returns from the wait early and reads `pkt_count` before loop_cb has
  written it. Pipeline.cfg sets `Spurious = FALSE`, so the pipeline run
  does not check this property.
* **`ErrorsExitNonZero`**. Too few words, an unknown option or a missing
  value exit with status 0.
* **recv_cb's unpack test** (pktizr.c:321). This one comes from reading the
  code, with no property. recv_cb skips a frame only when `pkt_unpack`
  returns 0. Spec section 7 says a frame with fewer than two layers is
  released without a `recv` upcall. A one-layer frame (Ethernet with an
  unknown EtherType) therefore reaches script_recv. The resolver tests
  `n < 2`.
* **`SpecInvocationAccepted`**. `pktizr 10.0.0.1 --script=x.lua` is
  refused by `argc < 4`. With `Occ <- TwoWordOcc`, `-l` and `-g` from the
  spec's table are rejected, because `short_opts` lacks them.

## 5. Not modelled, and why

* **The status display and the help text.** These are formatting only.
* **Option values as numbers.** Options keeps value classes, and a signed
  value stands for 2^64-1 and the like. `tot_cnt` wrapping modulo 2^64
  (pktizr.c:352) is beyond TLC's 32-bit integers.
* **The targets' position.** They must be argv[1] (pktizr.c:113), because
  getopt's permutation is not used. The model always puts them first.
* **Code outside `src/`.** The script host, netdev, packet codec, range
  lists, queue and bucket are not in `src/`. Their contracts from the spec
  appear only as inputs (outcome sets, frames) or, for the queue and the
  send bucket, as spec-modelled state.
* **lpack floats and the rest of its options.** `f`, `d`, `n` need real
  arithmetic; `h`/`H`/`l`/`L` are `i`/`I` with other sizes, which `i`/`I`
  with a numeral already cover. Multi-digit numerals, `luaL_checkstack`
  and Lua's number/string coercion are not modelled.
* **`resolv_name_to_addr`.** It has no caller in `src/`.
* **Data races on `args` fields.** They are modelled as atomic loads and
  stores of whole values. The fields are word-sized and each loop calls an
  external function per iteration, so the compiler reloads them.

## 6. Plan

The modules are listed in order of importance. Pipeline, Enumeration,
Resolver, Bucket (as RateLimit), Options, LuaPack and the abstract shutdown
specification are done.

1. **Pipeline** (done): the concurrency and shutdown core.
2. **Enumeration** (done): the index formula.
   * Next: add the size_t wrap of `tot_cnt` (`% 2^64`) at sizes where it
     wraps.
3. **Resolver** (done).
   * Next: add a device with a bounded ring that needs `release`, to decide
     the hazard at resolv.c:103.
4. **LuaPack** (done, partly): integers, strings, padding and alignment.
   * Next: the `z` case's next position (#data + 2, lpack.c:449) as a
     property.
5. **Bucket** (done as RateLimit), with discrete time:
   * the grant bound of spec section 8 as a property;
   * composed with Pipeline's loop and send threads, to check the
     send-queue growth hazard.
6. **RangeList** (spec-modelled): parse/coalesce/pick as operators,
   refined against a sorted-set reference. Enumeration would then pick
   real addresses through it.
7. **An abstract shutdown specification** (done: `Shutdown.tla`,
   `ShutdownRefined`).
8. **Options** (done).
9. **An abstract resolver specification** (done: `ArpResolve.tla`,
   `ResolverRefined`).
