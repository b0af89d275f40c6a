------------------------------ MODULE Options ------------------------------
(***************************************************************************)
(* Command-line handling of pktizr's main (src/src/pktizr.c 56-185): the   *)
(* argc test, the positional targets in argv[1], the defaults, and the     *)
(* getopt_long loop over short_opts and long_opts, up to the test that a   *)
(* script was given. What follows (routes, addresses, ARP) is Resolver.    *)
(*                                                                         *)
(* An argument word is abstracted to an option occurrence: the option it  *)
(* names ("x" for one neither table knows), whether it is written in its   *)
(* short or its long form, how many argv words it takes (the value joined, *)
(* as in -r5 or --rate=5, or in a word of its own), and the class of its   *)
(* value: "ok", "junk" (trailing characters after the number, or not a    *)
(* range list or a dotted quad, as the option needs), "signed" (a number   *)
(* with a leading minus, as "-1"), "empty" (an empty word, or "--rate="),  *)
(* "missing" (the option was the last word) or "none" for an option        *)
(* without a value.                                                        *)
(***************************************************************************)
EXTENDS Naturals, Sequences, SequencesExt

CONSTANTS
  Occ,      \* the option occurrences an argv may contain
  MaxOpts   \* bound on the occurrences in one argv

Names == {"S", "p", "r", "s", "w", "c", "l", "g", "q", "h", "x"}
WithArg == {"S", "p", "r", "s", "w", "c", "l", "g"}
Numeric == {"r", "s", "w", "c"}
Forms == {"short", "long"}

\* A script is any path; the other values can be malformed.
Occurrences ==
  [name : {"S"}, form : Forms, words : {1, 2}, val : {"ok"}]
  \cup [name : WithArg \ {"S"}, form : Forms, words : {1, 2}, val : {"ok", "junk"}]
  \cup [name : Numeric, form : Forms, words : {1, 2}, val : {"signed"}]
  \cup {o \in [name : Numeric, form : Forms, words : {1, 2}, val : {"empty"}] :
         o.form = "short" => o.words = 2}
  \cup [name : WithArg, form : Forms, words : {1}, val : {"missing"}]
  \cup [name : Names \ WithArg, form : Forms, words : {1}, val : {"none"}]

ASSUME Occ \subseteq Occurrences /\ MaxOpts \in Nat

\* short_opts = "S:p:r:s:w:c:qh?": -l and -g have no short form.
ShortOpts == {"S", "p", "r", "s", "w", "c", "q", "h"}
\* long_opts: every option of the table.
LongOpts == {"S", "p", "r", "s", "w", "c", "l", "g", "q", "h"}

\* What getopt_long returns for an occurrence: its option, or '?' for an
\* option the tables do not list and for a required argument that is missing.
GetoptResult(o) ==
  IF \/ o.val = "missing"
     \/ o.form = "short" /\ o.name \notin ShortOpts
     \/ o.form = "long" /\ o.name \notin LongOpts
  THEN "?" ELSE o.name

\* The argument vectors main can be given: argv[1] (the targets) and the
\* occurrences after it; getopt can only miss an argument at the end.
Argvs ==
  {a \in SeqOf(Occ, MaxOpts) :
     \A n \in 1..Len(a) : a[n].val = "missing" => n = Len(a)}

VARIABLES
  phase,         \* "argc", "targets", "entropy", "getopt", "script", then
                 \* "started", "help", "failed" or "sysfail"
  argv,          \* the occurrences after argv[1]
  targets,       \* the class of argv[1]: "ok" or "junk"
  k,             \* getopt's position in argv
  script,        \* args->script != NULL
  local_addr,    \* main's local_addr string: "none", "ok" or "junk"
  gateway_addr   \* main's gateway_addr string

vars == <<phase, argv, targets, k, script, local_addr, gateway_addr>>

Argc == 2 + FoldLeft(LAMBDA acc, o : acc + o.words, 0, argv)

Init ==
  /\ phase = "argc"
  /\ argv \in Argvs
  /\ targets \in {"ok", "junk"}
  /\ k = 1
  /\ script = FALSE
  /\ local_addr = "none"
  /\ gateway_addr = "none"

Goto(from, to) == phase = from /\ phase' = to

\* if (argc < 4) { help(); return 0; }
CheckArgc ==
  /\ Goto("argc", IF Argc < 4 THEN "help" ELSE "targets")
  /\ UNCHANGED <<argv, targets, k, script, local_addr, gateway_addr>>

\* args->targets = range_parse_targets(args, argv[1]), which fails on a
\* malformed range list; args->ports = the default "1".
ParseTargets ==
  /\ Goto("targets", IF targets = "ok" THEN "entropy" ELSE "failed")
  /\ UNCHANGED <<argv, targets, k, script, local_addr, gateway_addr>>

\* args->seed = get_entropy(): open or read of /dev/urandom may fail.
GetEntropy ==
  /\ phase = "entropy"
  /\ phase' \in {"getopt", "sysfail"}
  /\ UNCHANGED <<argv, targets, k, script, local_addr, gateway_addr>>

\* strtoull(optarg, &end, 10) followed by the test *end == '\0': strtoull
\* takes an optional sign and negates the value ("-1" is 2^64-1), and on an
\* empty word it stops at once, so end points at the final '\0'; only
\* characters after the number are refused. For -p, validate_optlist and
\* range_parse_ports accept a well-formed list (-p has no other class).
NumberParses(o) == o.val # "junk"

\* One getopt_long call and its case: -S stores the script, -p/-r/-s/-w/-c
\* store a value or fail_printf, -l/-g keep the string, -q sets quiet, and
\* '?' and -h print the help and return 0. At the end of argv, -1.
Getopt ==
  /\ phase = "getopt"
  /\ IF k > Len(argv)
       THEN phase' = "script" /\ UNCHANGED <<k, script, local_addr, gateway_addr>>
       ELSE LET o == argv[k]
                rc == GetoptResult(o)
            IN  /\ k' = k + 1
                /\ phase' = CASE rc \in {"?", "h"}                       -> "help"
                              [] rc \in {"p"} \cup Numeric /\ ~NumberParses(o) -> "failed"
                              [] OTHER                                   -> "getopt"
                /\ script' = (script \/ rc = "S")
                /\ local_addr' = IF rc = "l" THEN o.val ELSE local_addr
                /\ gateway_addr' = IF rc = "g" THEN o.val ELSE gateway_addr
  /\ UNCHANGED <<argv, targets>>

\* if (!args->script) fail_printf("No script provided");
CheckScript ==
  /\ Goto("script", IF script THEN "started" ELSE "failed")
  /\ UNCHANGED <<argv, targets, k, script, local_addr, gateway_addr>>

Next == CheckArgc \/ ParseTargets \/ GetEntropy \/ Getopt \/ CheckScript

\* main is sequential and always reaches one of its exits, where the
\* process stops (the cfgs do not check deadlock).
Spec == Init /\ [][Next]_vars

-----------------------------------------------------------------------------
(* Properties *)

\* The invocation is well formed by the spec's CLI table (section 6).
SpecValid ==
  /\ targets = "ok"
  /\ \A n \in 1..Len(argv) : argv[n].name \notin {"x", "h"}
                             /\ argv[n].val \in {"ok", "none"}
  /\ \E n \in 1..Len(argv) : argv[n].name = "S"

(* No scan starts from a malformed argument: when main gets past the       *)
(* option checks (pktizr.c 104-185), argv[1] is a valid range list and     *)
(* every option value has the type the spec's CLI table gives it (section  *)
(* 6: a uint64 decimal, a dotted quad), since InvalidArgument is fatal.    *)
ValidatedArgs ==
  phase = "started" =>
    /\ targets = "ok"
    /\ \A n \in 1..Len(argv) : argv[n].val \in {"ok", "none"}

(* main exits with status 0 before scanning only when it was asked for the *)
(* help: an argument error exits non-zero (spec section 6, exit codes).    *)
ErrorsExitNonZero ==
  phase = "help" => \E n \in 1..Len(argv) : argv[n].name = "h"

(* Every invocation the spec's table allows is accepted: it is not refused *)
(* by the help or an argument error.                                       *)
SpecInvocationAccepted ==
  SpecValid => phase \notin {"help", "failed"}

=============================================================================
