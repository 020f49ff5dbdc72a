-------------------------------- MODULE Args --------------------------------
(***************************************************************************)
(* Command-line parsing: parse() of src/main/args.zig, one action per      *)
(* iteration of its two loops and one for the checks after them.           *)
(*                                                                         *)
(* A text is a sequence of lexemes: <<"--memory", "=", "8", "KiB">> is the *)
(* argument --memory=8KiB, <<"-", "8">> is -8 and <<>> the empty string.   *)
(* args[0], the program's name, is left out, so argv[1] is args[1].        *)
(***************************************************************************)
EXTENDS Integers, Sequences, TLC

CONSTANTS
    Argvs,              \* the argument vectors a user may give
    Digits,             \* function: the value of every lexeme made of digits
    Kilo,               \* 1024: the scale of KiB; its powers are MiB's and GiB's
    MaxU32, MaxU64,     \* maxInt(u32), maxInt(u64)
    DefaultMemory       \* det.default_memory_size

VARIABLES
    argv,               \* args[1..]
    phase,              \* "scan" and "loop" (the two loops), "checks" or "done"
    i,                  \* the index of the loop
    parser,             \* parse()'s locals: program, demo, options_ended, config
    result              \* what parse() returned

vars == <<argv, phase, i, parser, result>>

\* The null of ?u32, ?u64, ?[]const u8, ?Range and ?Dump.
NONE == -1
NoText == <<"null">>
NoRange == [start |-> NONE, len |-> NONE]
NoDump == [format |-> "null", range |-> NoRange]

validMemorySize(n) == n >= 4 /\ n % 4 = 0 /\ n <= MaxU32

ASSUME ArgsAssumption ==
    /\ MaxU32 \in Nat /\ MaxU64 \in Nat /\ MaxU32 <= MaxU64 /\ Kilo \in Nat
    /\ DefaultMemory \in Nat /\ validMemorySize(DefaultMemory)
    /\ \A x \in DOMAIN Digits : Digits[x] \in Nat

\* "null" is not a lexeme: a text that is there is never the null of ?[]const u8.
ASSUME ArgvsAssumption == Argvs \subseteq Seq(Seq(STRING \ {"null"}))

-----------------------------------------------------------------------------
(* Options, texts and numbers. *)

Valued == {"--memory", "--max-cycles", "--input", "--load-addr", "--dump-range"}
Flags == {"--digest", "--trace", "--disassemble", "--quiet", "--demo", "--help", "--version"}
Names == Valued \cup Flags \cup {"--dump-memory", "-q", "-h"}

\* lookup(): the option of a name (spec.opt), and how it takes a value.
known(name) == Len(name) = 1 /\ name[1] \in Names
optOf(name) == CASE name[1] = "-q" -> "--quiet" [] name[1] = "-h" -> "--help" [] OTHER -> name[1]
valueOf(opt) == CASE opt \in Valued -> "required" [] opt \in Flags -> "none" [] OTHER -> "optional"

\* The lexemes that begin with a dash.
Dashed == Names \cup {"-", "--", "--bogus"}
startsWithDash(t) == t # <<>> /\ t[1] \in Dashed
isOption(t) == startsWithDash(t) /\ t # <<"-">>

\* std.mem.cutScalar: the text before and after the first c, or no cut.
cut(t, c) ==
    IF \A k \in DOMAIN t : t[k] # c THEN [found |-> FALSE, before |-> t, after |-> NoText]
    ELSE LET k == CHOOSE n \in DOMAIN t : t[n] = c /\ \A m \in 1 .. n - 1 : t[m] # c
         IN  [found |-> TRUE, before |-> SubSeq(t, 1, k - 1), after |-> SubSeq(t, k + 1, Len(t))]

\* std.fmt.parseInt(T, text, 0), and number(); NONE for any of their errors.
parseInt(t, max) ==
    IF Len(t) = 1 /\ t[1] \in DOMAIN Digits /\ Digits[t[1]] <= max THEN Digits[t[1]] ELSE NONE
number(t, max) == IF startsWithDash(t) THEN NONE ELSE parseInt(t, max)

\* memorySize(): bytes, or a number with a suffix.
Suffixes == [KiB |-> Kilo, MiB |-> Kilo * Kilo, GiB |-> Kilo * Kilo * Kilo]
trimEnd(t) == SubSeq(t, 1, CHOOSE n \in 0 .. Len(t) :
                               /\ n # 0 => t[n] # " "
                               /\ \A m \in n + 1 .. Len(t) : t[m] = " ")
memorySize(t) ==
    LET suffixed == t # <<>> /\ t[Len(t)] \in DOMAIN Suffixes
        digits   == IF suffixed THEN trimEnd(SubSeq(t, 1, Len(t) - 1)) ELSE t
        n        == number(digits, MaxU64)
        bytes    == n * (IF suffixed THEN Suffixes[t[Len(t)]] ELSE 1)
    IN  IF n = NONE \/ bytes > MaxU64 \/ bytes > MaxU32 \/ ~validMemorySize(bytes)
        THEN NONE ELSE bytes

\* parseRange(): ADDR:LEN, not empty.
parseRange(t) ==
    LET c == cut(t, ":")
        r == [start |-> number(c.before, MaxU32), len |-> number(c.after, MaxU32)]
    IN  IF ~c.found \/ r.start = NONE \/ r.len \in {NONE, 0} THEN NoRange ELSE r

-----------------------------------------------------------------------------
(* One option of the second loop. *)

DefaultConfig ==
    [memory |-> DefaultMemory, max_cycles |-> NONE, input |-> NoText, load_addr |-> NONE,
     dump |-> NoDump, digest |-> FALSE, trace |-> FALSE, disassemble |-> FALSE, quiet |-> FALSE]

\* config.dump orelse Dump{}, with one field set.
dumpOr(d) == IF d = NoDump THEN [format |-> "hexdump", range |-> NoRange] ELSE d
withFormat(d, f) == [dumpOr(d) EXCEPT !.format = f]
withRange_Fresh(d, r) == [dumpOr(NoDump) EXCEPT !.range = r]
withRange(d, r) == [dumpOr(d) EXCEPT !.range = r]

\* The locals after option opt with value v: one, or none for a usage error.
applied(p, opt, v) ==
    LET set(c) == {[p EXCEPT !.config = c]}
        c == p.config
        cycles == number(v, MaxU64)
        addr == number(v, MaxU32)
        format == IF v = NoText THEN "hexdump" ELSE IF Len(v) = 1 THEN v[1] ELSE "none"
    IN  CASE opt = "--memory" ->
               IF memorySize(v) = NONE THEN {} ELSE set([c EXCEPT !.memory = memorySize(v)])
          [] opt = "--max-cycles" ->
               IF cycles = NONE THEN {} ELSE set([c EXCEPT !.max_cycles = cycles])
          [] opt = "--input" -> set([c EXCEPT !.input = IF v = <<"-">> THEN <<"stdin">> ELSE v])
          [] opt = "--load-addr" ->
               IF addr = NONE \/ addr % 2 # 0 THEN {} ELSE set([c EXCEPT !.load_addr = addr])
          [] opt = "--dump-memory" ->
               IF format \notin {"hexdump", "raw"} THEN {}
               ELSE set([c EXCEPT !.dump = withFormat(@, format)])
          [] opt = "--dump-range" ->
               IF parseRange(v) = NoRange THEN {}
               ELSE set([c EXCEPT !.dump = withRange(@, parseRange(v))])
          [] opt = "--digest"      -> set([c EXCEPT !.digest = TRUE])
          [] opt = "--trace"       -> set([c EXCEPT !.trace = TRUE])
          [] opt = "--disassemble" -> set([c EXCEPT !.disassemble = TRUE])
          [] opt = "--quiet"       -> set([c EXCEPT !.quiet = TRUE])
          [] opt = "--demo"        -> {[p EXCEPT !.demo = TRUE]}

-----------------------------------------------------------------------------
(* parse(). *)

NothingRead == [program |-> NoText, demo |-> FALSE, options_ended |-> FALSE, config |-> DefaultConfig]

Init ==
    /\ argv \in Argvs
    /\ phase = "scan" /\ i = 1 /\ parser = NothingRead /\ result = "none"

Returns(r) == phase' = "done" /\ result' = r /\ UNCHANGED <<argv, i, parser>>

\* fail(): the message may not be writable.
Fail == \E r \in {"Usage", "WriteFailed"} : Returns(r)

Enter(ph) == phase' = ph /\ i' = 1 /\ UNCHANGED <<argv, parser, result>>

\* No arguments at all; otherwise the first loop, up to the first "--".
Usage == phase = "scan" /\ argv = <<>> /\ Returns("usage")

Scan ==
    /\ phase = "scan" /\ argv # <<>>
    /\ \/ i > Len(argv) /\ Enter("loop")
       \/ i <= Len(argv) /\ argv[i] = <<"--">> /\ Enter("loop")
       \/ /\ i <= Len(argv) /\ known(argv[i])
          /\ optOf(argv[i]) \in {"--help", "--version"}
          /\ Returns(IF optOf(argv[i]) = "--help" THEN "help" ELSE "version")
       \/ /\ i <= Len(argv) /\ argv[i] # <<"--">>
          /\ ~(known(argv[i]) /\ optOf(argv[i]) \in {"--help", "--version"})
          /\ i' = i + 1 /\ UNCHANGED <<argv, phase, parser, result>>

\* The rest of an iteration of the second loop, which took n arguments.
Took(n, p) == parser' = p /\ i' = i + n /\ UNCHANGED <<argv, phase, result>>

Looping == phase = "loop" /\ i <= Len(argv)

Positional ==
    /\ Looping
    /\ parser.options_ended \/ ~isOption(argv[i])
    /\ IF parser.program # NoText THEN Fail ELSE Took(1, [parser EXCEPT !.program = argv[i]])

Terminator ==
    /\ Looping /\ ~parser.options_ended /\ argv[i] = <<"--">>
    /\ Took(1, [parser EXCEPT !.options_ended = TRUE])

Option ==
    /\ Looping /\ ~parser.options_ended /\ isOption(argv[i]) /\ argv[i] # <<"--">>
    /\ LET c     == cut(argv[i], "=")
           opt   == optOf(c.before)
           takes == valueOf(opt)
           next  == takes = "required" /\ ~c.found      \* the value is the next argument
           value == IF next THEN argv[i + 1] ELSE c.after
       IN  IF \/ ~known(c.before)
              \/ takes = "none" /\ c.found
              \/ next /\ i = Len(argv)
           THEN Fail
           ELSE IF opt \in {"--help", "--version"} THEN Returns("unreachable")
           ELSE IF applied(parser, opt, value) = {} THEN Fail
           ELSE \E p \in applied(parser, opt, value) : Took(IF next THEN 2 ELSE 1, p)

EndOfArguments == phase = "loop" /\ i > Len(argv) /\ Enter("checks")

\* The checks against the memory size, after all the options.
outsideMemory_Default(c) ==
    \/ c.load_addr # NONE /\ c.load_addr >= DefaultMemory
    \/ c.dump.range # NoRange /\ c.dump.range.start + c.dump.range.len > DefaultMemory
outsideMemory(c) ==
    \/ c.load_addr # NONE /\ c.load_addr >= c.memory
    \/ c.dump.range # NoRange /\ c.dump.range.start + c.dump.range.len > c.memory

wrongProgram(p) ==
    IF p.demo THEN p.program # NoText \/ p.config.load_addr # NONE ELSE p.program = NoText

\* --disassemble takes no option that is about running.
wrongListing(c) ==
    c.disassemble /\ (\/ c.max_cycles # NONE \/ c.input # NoText \/ c.dump # NoDump
                      \/ c.digest \/ c.trace \/ c.quiet)

Checks ==
    /\ phase = "checks"
    /\ IF outsideMemory(parser.config) \/ wrongProgram(parser) \/ wrongListing(parser.config)
       THEN Fail ELSE Returns("run")

Next == Usage \/ Scan \/ Positional \/ Terminator \/ Option \/ EndOfArguments \/ Checks

Spec == Init /\ [][Next]_vars

-----------------------------------------------------------------------------
(* Properties. *)

\* A program that parse() lets run fits the memory it is given, wherever among
\* the options --memory stands. The memory is a size RuntimeCpuType.init takes,
\* also where a suffix makes the product exceed its width; the load address is
\* even and inside, and the dump range ends inside (in 64-bit arithmetic:
\* start + len exceeds a u32).
AcceptedFits ==
    result = "run" =>
        LET c == parser.config
        IN  /\ c.memory \in 0 .. MaxU32 /\ validMemorySize(c.memory)
            /\ c.load_addr # NONE => c.load_addr % 2 = 0 /\ c.load_addr < c.memory
            /\ c.dump.range # NoRange =>
                 c.dump.range.start \in 0 .. c.memory - c.dump.range.len

\* What each argument of a vector is: "value" of the option before, the "end"
\* of the options, a "program", or an option that "takes" the next argument as
\* its value or stands "alone".
Roles(a) ==
    LET role[k \in 1 .. Len(a)] ==
          IF k > 1 /\ role[k - 1] = "takes" THEN "value"
          ELSE IF ~isOption(a[k]) \/ \E j \in 1 .. k - 1 : role[j] = "end" THEN "program"
          ELSE IF a[k] = <<"--">> THEN "end"
          ELSE IF a[k][1] \in Valued /\ Len(a[k]) = 1 THEN "takes" ELSE "alone"
    IN  role

\* The configuration parse() returns is what the arguments say: every flag is
\* set exactly if it is given, an option given more than once has its last
\* value, --dump-memory and --dump-range keep each other's setting, and exactly
\* one argument, or --demo, is the program.
ConfigMeansArguments ==
    result = "run" =>
        LET c == parser.config
            role == Roles(argv)
            opts == {k \in DOMAIN argv : role[k] \in {"takes", "alone"}}
            given(o) == {k \in opts : optOf(argv[k]) = o}
            last(o) == CHOOSE k \in given(o) : \A n \in given(o) : n <= k
            text(o) == IF role[last(o)] = "takes" THEN argv[last(o) + 1]
                       ELSE SubSeq(argv[last(o)], 3, Len(argv[last(o)]))
            is(x, o, default, f(_)) == x = IF given(o) = {} THEN default ELSE f(text(o))
            programs == {k \in DOMAIN argv : role[k] = "program"}
        IN  /\ c.digest = (given("--digest") # {}) /\ c.trace = (given("--trace") # {})
            /\ c.quiet = (given("--quiet") # {})
            /\ c.disassemble = (given("--disassemble") # {})
            /\ parser.demo = (given("--demo") # {})
            /\ IF parser.demo THEN programs = {}
               ELSE \E k \in programs : programs = {k} /\ parser.program = argv[k]
            /\ is(c.memory, "--memory", DefaultMemory, memorySize)
            /\ is(c.max_cycles, "--max-cycles", NONE, LAMBDA t : number(t, MaxU64))
            /\ is(c.load_addr, "--load-addr", NONE, LAMBDA t : number(t, MaxU32))
            /\ is(c.input, "--input", NoText, LAMBDA t : IF t = <<"-">> THEN <<"stdin">> ELSE t)
            /\ is(c.dump.range, "--dump-range", NoRange, parseRange)
            /\ is(c.dump.format, "--dump-memory",
                  IF given("--dump-range") = {} THEN "null" ELSE "hexdump",
                  LAMBDA t : IF t = <<>> THEN "hexdump" ELSE t[1])
            /\ given("--help") \cup given("--version") = {}

\* The arm ".help, .version => unreachable, // handled above" of the second
\* loop's switch is never taken: the first loop has returned for them.
HandledAbove == result # "unreachable"

=============================================================================
