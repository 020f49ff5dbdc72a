----------------------------- MODULE ArgsProofs -----------------------------
(***************************************************************************)
(* parse() of module Args, for every argument vector of any length, every  *)
(* width of the integers and every scale of the suffixes: what it lets run *)
(* fits the memory it is given.                                            *)
(***************************************************************************)
EXTENDS Args, SequenceTheorems, WellFoundedInduction, TLAPS

-----------------------------------------------------------------------------
(* The inductive invariant. *)

\* A range that parseRange() can return, or null.
RangeOK(r) == r = NoRange \/ (r.start \in Nat /\ r.len \in Nat \ {0})

\* The configuration as the options leave it, before it is checked as a whole.
ConfigOK(c) ==
    /\ c = [memory |-> c.memory, max_cycles |-> c.max_cycles, input |-> c.input,
            load_addr |-> c.load_addr, dump |-> c.dump, digest |-> c.digest, trace |-> c.trace,
            disassemble |-> c.disassemble, quiet |-> c.quiet]
    /\ c.memory \in 0 .. MaxU32 /\ validMemorySize(c.memory)
    /\ c.load_addr = NONE \/ (c.load_addr \in Nat /\ c.load_addr % 2 = 0)
    /\ c.dump = [format |-> c.dump.format, range |-> c.dump.range]
    /\ RangeOK(c.dump.range)

ParserOK(p) ==
    /\ p = [program |-> p.program, demo |-> p.demo, options_ended |-> p.options_ended,
            config |-> p.config]
    /\ ConfigOK(p.config)

\* parse() returns .run only from its last checks.
ArgsInv ==
    /\ ParserOK(parser)
    /\ result = "run" => phase = "done" /\ ~outsideMemory(parser.config)
    /\ phase # "done" => result = "none"

-----------------------------------------------------------------------------
(* How far a configuration has been read: the second inductive invariant.  *)

\* The options that a name of Names can stand for.
Opts == Valued \cup Flags \cup {"--dump-memory"}

\* The arguments before the n-th that give option o, and the value of one.
Giving(a, o, n) ==
    {k \in 1 .. Len(a) : k < n /\ Roles(a)[k] \in {"takes", "alone"} /\ optOf(a[k]) = o}
TextAt(a, k) == IF Roles(a)[k] = "takes" THEN a[k + 1] ELSE SubSeq(a[k], 3, Len(a[k]))
LastOf(S) == CHOOSE k \in S : \A n \in S : n <= k

\* Which options the arguments before the n-th give, and their last values.
Given(a, n) == [o \in Opts |-> Giving(a, o, n) # {}]
Texts(a, n) == [o \in Opts |-> TextAt(a, LastOf(Giving(a, o, n)))]

\* The arguments before the n-th with role r.
Before(a, r, n) == {k \in 1 .. Len(a) : k < n /\ Roles(a)[k] = r}

\* The locals p of parse() are what the options G with the values T say.
FlagsRead(p, G) ==
    /\ p.config.digest = G["--digest"] /\ p.config.trace = G["--trace"]
    /\ p.config.quiet = G["--quiet"] /\ p.config.disassemble = G["--disassemble"]
    /\ p.demo = G["--demo"]
    /\ ~G["--help"] /\ ~G["--version"]
NumbersRead(c, G, T) ==
    /\ c.memory = IF G["--memory"] THEN memorySize(T["--memory"]) ELSE DefaultMemory
    /\ c.max_cycles = IF G["--max-cycles"] THEN number(T["--max-cycles"], MaxU64) ELSE NONE
    /\ c.load_addr = IF G["--load-addr"] THEN number(T["--load-addr"], MaxU32) ELSE NONE
InputRead(c, G, T) ==
    c.input = IF ~G["--input"] THEN NoText
              ELSE IF T["--input"] = <<"-">> THEN <<"stdin">> ELSE T["--input"]
DumpRead(d, G, T) ==
    /\ d.range = IF G["--dump-range"] THEN parseRange(T["--dump-range"]) ELSE NoRange
    /\ d.format = IF G["--dump-memory"]
                  THEN IF T["--dump-memory"] = <<>> THEN "hexdump" ELSE T["--dump-memory"][1]
                  ELSE IF G["--dump-range"] THEN "hexdump" ELSE "null"
    /\ G["--dump-memory"] => d.format # "null"
    /\ G["--dump-range"] => d.range # NoRange
Reads(p, G, T) ==
    /\ FlagsRead(p, G) /\ NumbersRead(p.config, G, T)
    /\ InputRead(p.config, G, T) /\ DumpRead(p.config.dump, G, T)

\* The locals are what the arguments of vector a before the n-th say.
Means(a, p, n) ==
    /\ Reads(p, Given(a, n), Texts(a, n))
    /\ p.options_ended = (Before(a, "end", n) # {})
    /\ IF p.program = NoText THEN Before(a, "program", n) = {}
       ELSE \E k \in Before(a, "program", n) :
              Before(a, "program", n) = {k} /\ p.program = a[k]

\* The second loop stands before an argument that is no option's value and has
\* read all that come before it.
ReadInv ==
    /\ argv \in Argvs
    /\ phase = "scan" => parser = NothingRead
    /\ phase = "loop" => /\ i \in 1 .. Len(argv) + 1
                         /\ i > 1 => Roles(argv)[i - 1] # "takes"
                         /\ Means(argv, parser, i)
    /\ phase = "checks" => Means(argv, parser, Len(argv) + 1)
    /\ result = "run" => Means(argv, parser, Len(argv) + 1) /\ ~wrongProgram(parser)

-----------------------------------------------------------------------------
(* The conversions. *)

\* number() returns a number of its type, or an error.
LEMMA NumberFits ==
    ASSUME NEW t, NEW max \in Nat, number(t, max) # NONE
    PROVE  number(t, max) \in 0 .. max
  BY ArgsAssumption DEF number, parseInt

\* memorySize() returns a size that RuntimeCpuType.init takes, or an error.
LEMMA MemorySizeFits ==
    ASSUME NEW t, memorySize(t) # NONE
    PROVE  memorySize(t) \in 0 .. MaxU32 /\ validMemorySize(memorySize(t))
<1> DEFINE suffixed == t # <<>> /\ t[Len(t)] \in DOMAIN Suffixes
           digits == IF suffixed THEN trimEnd(SubSeq(t, 1, Len(t) - 1)) ELSE t
           n == number(digits, MaxU64)
           scale == IF suffixed THEN Suffixes[t[Len(t)]] ELSE 1
<1>1. n # NONE /\ ~(n * scale > MaxU32) /\ validMemorySize(n * scale) /\ memorySize(t) = n * scale
  BY DEF memorySize
<1>2. n \in Nat
  <2> HIDE DEF digits
  <2> QED BY <1>1, NumberFits, ArgsAssumption
<1>3. scale \in Nat
  <2>1. Kilo * Kilo \in Nat /\ Kilo * Kilo * Kilo \in Nat /\ Kilo \in Nat
    BY ArgsAssumption
  <2> QED BY <2>1 DEF Suffixes
<1>4. n * scale \in Nat
  <2> HIDE DEF n, scale
  <2> QED BY <1>2, <1>3
<1> HIDE DEF n, scale
<1> QED BY <1>1, <1>4, ArgsAssumption

\* parseRange() returns a range that is not empty, or an error.
LEMMA ParseRangeFits ==
    ASSUME NEW t
    PROVE  RangeOK(parseRange(t))
<1> DEFINE c == cut(t, ":")
           r == [start |-> number(c.before, MaxU32), len |-> number(c.after, MaxU32)]
<1>1. parseRange(t) = IF ~c.found \/ r.start = NONE \/ r.len \in {NONE, 0} THEN NoRange ELSE r
  BY DEF parseRange
<1>2. r.start # NONE => r.start \in Nat
  <2> HIDE DEF c
  <2> QED BY NumberFits, ArgsAssumption
<1>3. r.len # NONE => r.len \in Nat
  <2> HIDE DEF c
  <2> QED BY NumberFits, ArgsAssumption
<1> HIDE DEF r, c
<1> QED BY <1>1, <1>2, <1>3 DEF RangeOK

\* What an option with a value leaves is a configuration the checks can judge.
LEMMA AppliedOK ==
    ASSUME NEW p, ParserOK(p), NEW opt, NEW v, NEW q \in applied(p, opt, v),
           opt \in (Names \ {"-q", "-h", "--help", "--version"})
    PROVE  ParserOK(q)
<1> DEFINE c == p.config
           With(d) == {[p EXCEPT !.config = d]}
<1>0. ConfigOK(c)
  BY DEF ParserOK
<1>1. ASSUME NEW d, ConfigOK(d), q \in With(d)
      PROVE  ParserOK(q)
  BY <1>1 DEF ParserOK
<1>2. CASE opt = "--memory"
  <2>1. memorySize(v) # NONE /\ q \in With([c EXCEPT !.memory = memorySize(v)])
    BY <1>2 DEF applied
  <2>2. ConfigOK([c EXCEPT !.memory = memorySize(v)])
    BY <1>0, <2>1, MemorySizeFits DEF ConfigOK
  <2> QED BY <2>1, <2>2, <1>1
<1>3. CASE opt = "--max-cycles"
  <2>1. q \in With([c EXCEPT !.max_cycles = number(v, MaxU64)])
    BY <1>3 DEF applied
  <2>2. ConfigOK([c EXCEPT !.max_cycles = number(v, MaxU64)])
    BY <1>0 DEF ConfigOK
  <2> QED BY <2>1, <2>2, <1>1
<1>4. CASE opt = "--input"
  <2>1. PICK x : q \in With([c EXCEPT !.input = x])
    BY <1>4 DEF applied
  <2>2. ConfigOK([c EXCEPT !.input = x])
    BY <1>0 DEF ConfigOK
  <2> QED BY <2>1, <2>2, <1>1
<1>5. CASE opt = "--load-addr"
  <2> DEFINE addr == number(v, MaxU32)
  <2>1. addr # NONE /\ addr % 2 = 0 /\ q \in With([c EXCEPT !.load_addr = addr])
    BY <1>5 DEF applied
  <2>2. addr \in Nat
    BY <2>1, NumberFits, ArgsAssumption
  <2> HIDE DEF addr
  <2>3. ConfigOK([c EXCEPT !.load_addr = addr])
    BY <1>0, <2>1, <2>2 DEF ConfigOK
  <2> QED BY <2>1, <2>3, <1>1
<1>6. CASE opt = "--dump-memory"
  <2>1. PICK f : q \in With([c EXCEPT !.dump = withFormat(c.dump, f)])
    BY <1>6 DEF applied
  <2>2. ConfigOK([c EXCEPT !.dump = withFormat(c.dump, f)])
    BY <1>0 DEF ConfigOK, withFormat, dumpOr, RangeOK
  <2> QED BY <2>1, <2>2, <1>1
<1>7. CASE opt = "--dump-range"
  <2>1. q \in With([c EXCEPT !.dump = withRange(c.dump, parseRange(v))])
    BY <1>7 DEF applied
  <2>2. ConfigOK([c EXCEPT !.dump = withRange(c.dump, parseRange(v))])
    BY <1>0, ParseRangeFits DEF ConfigOK, withRange, dumpOr
  <2> QED BY <2>1, <2>2, <1>1
<1>8. CASE opt \in {"--digest", "--trace", "--disassemble", "--quiet"}
  <2>1. \/ q \in With([c EXCEPT !.digest = TRUE]) \/ q \in With([c EXCEPT !.trace = TRUE])
        \/ q \in With([c EXCEPT !.disassemble = TRUE]) \/ q \in With([c EXCEPT !.quiet = TRUE])
    BY <1>8 DEF applied
  <2>2. \A x : /\ ConfigOK([c EXCEPT !.digest = x]) /\ ConfigOK([c EXCEPT !.trace = x])
               /\ ConfigOK([c EXCEPT !.disassemble = x]) /\ ConfigOK([c EXCEPT !.quiet = x])
    BY <1>0 DEF ConfigOK
  <2> HIDE DEF With, c
  <2> QED BY <2>1, <2>2, <1>1, Zenon
<1>9. CASE opt = "--demo"
  BY <1>9 DEF applied, ParserOK
<1> QED BY <1>2, <1>3, <1>4, <1>5, <1>6, <1>7, <1>8, <1>9 DEF Names, Valued, Flags

-----------------------------------------------------------------------------
(* Every step preserves the invariant. *)

LEMMA ReturnsKeeps ==
    ASSUME ArgsInv, NEW r, Returns(r), r = "run" => ~outsideMemory(parser.config)
    PROVE  ArgsInv'
  BY DEF ArgsInv, Returns, outsideMemory

LEMMA FailKeeps ==
    ASSUME ArgsInv, Fail
    PROVE  ArgsInv'
  BY ReturnsKeeps DEF Fail

LEMMA TookKeeps ==
    ASSUME ArgsInv, NEW n, NEW p, ParserOK(p), Took(n, p), phase # "done"
    PROVE  ArgsInv'
  BY DEF ArgsInv, Took

LEMMA GotoKeeps ==
    ASSUME ArgsInv, NEW ph, Enter(ph), ph # "done", phase # "done"
    PROVE  ArgsInv'
  BY DEF ArgsInv, Enter

LEMMA ArgsInvInit == Init => ArgsInv
  BY ArgsAssumption DEF Init, ArgsInv, NothingRead, DefaultConfig, ParserOK, ConfigOK, RangeOK, NoDump,
     NoRange, validMemorySize

LEMMA OptionKeeps ==
    ASSUME ArgsInv, Option
    PROVE  ArgsInv'
<1> DEFINE c == cut(argv[i], "=")
           opt == optOf(c.before)
           next == valueOf(opt) = "required" /\ ~c.found
           value == IF next THEN argv[i + 1] ELSE c.after
<1>0. phase # "done" /\ ParserOK(parser)
  BY DEF Option, Looping, ArgsInv
<1>1. \/ Fail
      \/ Returns("unreachable")
      \/ /\ known(c.before) /\ opt \notin {"--help", "--version"}
         /\ \E p \in applied(parser, opt, value) : Took(IF next THEN 2 ELSE 1, p)
  BY DEF Option
<1>2. CASE Fail
  BY <1>2, FailKeeps
<1>3. CASE Returns("unreachable")
  BY <1>3, ReturnsKeeps
<1>4. CASE /\ known(c.before) /\ opt \notin {"--help", "--version"}
           /\ \E p \in applied(parser, opt, value) : Took(IF next THEN 2 ELSE 1, p)
  <2>1. opt \in (Names \ {"-q", "-h", "--help", "--version"})
    BY <1>4 DEF known, optOf, Names, Flags, Valued
  <2>2. PICK p \in applied(parser, opt, value) : Took(IF next THEN 2 ELSE 1, p)
    BY <1>4
  <2> HIDE DEF opt, value, next
  <2>3. ParserOK(p)
    BY <1>0, <2>1, <2>2, AppliedOK
  <2> QED BY <1>0, <2>2, <2>3, TookKeeps
<1> QED BY <1>1, <1>2, <1>3, <1>4

LEMMA ArgsInvNext == ArgsInv /\ [Next]_vars => ArgsInv'
<1> SUFFICES ASSUME ArgsInv, [Next]_vars PROVE ArgsInv'
  OBVIOUS
<1>1. CASE Usage
  BY <1>1, ReturnsKeeps DEF Usage
<1>2. CASE Scan
  <2>1. phase = "scan"
    BY <1>2 DEF Scan
  <2>2. \/ Enter("loop") \/ Returns("help") \/ Returns("version")
        \/ UNCHANGED <<argv, phase, parser, result>>
    BY <1>2 DEF Scan
  <2>3. CASE Enter("loop")
    BY <2>1, <2>3, GotoKeeps
  <2>4. CASE Returns("help") \/ Returns("version")
    BY <2>4, ReturnsKeeps
  <2>5. CASE UNCHANGED <<argv, phase, parser, result>>
    BY <2>5 DEF ArgsInv, outsideMemory
  <2> QED BY <2>2, <2>3, <2>4, <2>5
<1>3. CASE Positional
  <2>1. phase # "done" /\ ParserOK([parser EXCEPT !.program = argv[i]])
    BY <1>3 DEF Positional, Looping, ArgsInv, ParserOK
  <2> QED BY <1>3, <2>1, FailKeeps, TookKeeps DEF Positional
<1>4. CASE Terminator
  <2>1. phase # "done" /\ ParserOK(parser)
    BY <1>4 DEF Terminator, Looping, ArgsInv
  <2>2. \A x : ParserOK([parser EXCEPT !.options_ended = x])
    BY <2>1 DEF ParserOK
  <2> QED BY <1>4, <2>1, <2>2, TookKeeps, Zenon DEF Terminator
<1>5. CASE Option
  BY <1>5, OptionKeeps
<1>6. CASE EndOfArguments
  BY <1>6, GotoKeeps DEF EndOfArguments
<1>7. CASE Checks
  BY <1>7, FailKeeps, ReturnsKeeps DEF Checks
<1>8. CASE UNCHANGED vars
  BY <1>8 DEF ArgsInv, vars, outsideMemory
<1> QED BY <1>1, <1>2, <1>3, <1>4, <1>5, <1>6, <1>7, <1>8 DEF Next

\* A configuration the options can leave, and that the last checks let pass,
\* fits its memory.
LEMMA CheckedFits == ArgsInv => AcceptedFits
<1> SUFFICES ASSUME ArgsInv, result = "run" PROVE AcceptedFits
  BY DEF AcceptedFits
<1> DEFINE c == parser.config
<1>1. ConfigOK(c) /\ ~outsideMemory(c)
  BY DEF ArgsInv, ParserOK
<1>2. c.load_addr # NONE => c.load_addr % 2 = 0 /\ c.load_addr < c.memory
  BY <1>1, ArgsAssumption DEF ConfigOK, outsideMemory, NONE
<1>3. c.dump.range # NoRange => c.dump.range.start \in 0 .. c.memory - c.dump.range.len
  BY <1>1, ArgsAssumption DEF ConfigOK, RangeOK, outsideMemory
<1> QED BY <1>1, <1>2, <1>3 DEF AcceptedFits, ConfigOK

-----------------------------------------------------------------------------
\* A program that parse() lets run fits the memory it is given: the size is
\* one RuntimeCpuType.init takes, the load address is even and inside, and the
\* dump range ends inside, for every vector of arguments.
THEOREM AcceptedAlwaysFits == Spec => []AcceptedFits
<1>1. Spec => []ArgsInv
  BY ArgsInvInit, ArgsInvNext, PTL DEF Spec
<1> QED BY <1>1, CheckedFits, PTL

-----------------------------------------------------------------------------
(* Induction, and what each argument is. *)

LEMMA LeastNat ==
  ASSUME NEW T \in SUBSET Nat, T # {}
  PROVE  \E n \in T : \A k \in T : n <= k
<1> DEFINE Less == {p \in Nat \X Nat : p[1] < p[2]}
<1>1. IsWellFoundedOn(Less, Nat)
  BY NatLessThanWellFounded DEF OpToRel
<1>2. \A k, n \in Nat : k < n => <<k, n>> \in Less
  OBVIOUS
<1> HIDE DEF Less
<1>3. PICK n \in T : \A k \in T : ~ (<<k, n>> \in Less)
  BY <1>1, WFMin
<1>4. \A k \in T : ~ (k < n)
  BY <1>2, <1>3
<1> QED BY <1>4

\* A set of numbers that has 0 and with each number the next has them all.
LEMMA Induction ==
  ASSUME NEW S \in SUBSET Nat, 0 \in S, \A n \in S : n + 1 \in S
  PROVE  S = Nat
<1> SUFFICES ASSUME NEW m \in Nat, m \notin S PROVE FALSE
  OBVIOUS
<1>1. PICK n \in Nat \ S : \A k \in Nat \ S : n <= k
  BY LeastNat
<1>2. n # 0 /\ n - 1 \in Nat
  BY <1>1
<1>3. n - 1 \in S
  BY <1>1, <1>2
<1>4. (n - 1) + 1 \in S
  BY <1>3
<1> QED BY <1>1, <1>2, <1>4

\* What argument k is, when g tells the arguments before it.
RoleAt(g, a, k) ==
    IF k > 1 /\ g[k - 1] = "takes" THEN "value"
    ELSE IF ~isOption(a[k]) \/ \E j \in 1 .. k - 1 : g[j] = "end" THEN "program"
    ELSE IF a[k] = <<"--">> THEN "end"
    ELSE IF a[k][1] \in Valued /\ Len(a[k]) = 1 THEN "takes" ELSE "alone"

Told(g, a, n) == g = [k \in 1 .. n |-> RoleAt(g, a, k)]

LEMMA RoleAtSame ==
    ASSUME NEW g, NEW h, NEW a, NEW k \in Nat, \A j \in 1 .. k - 1 : g[j] = h[j]
    PROVE  RoleAt(g, a, k) = RoleAt(h, a, k)
<1>1. k > 1 => g[k - 1] = h[k - 1]
  OBVIOUS
<1>2. (\E j \in 1 .. k - 1 : g[j] = "end") = (\E j \in 1 .. k - 1 : h[j] = "end")
  OBVIOUS
<1> QED BY <1>1, <1>2 DEF RoleAt

LEMMA ToldExists ==
    ASSUME NEW a
    PROVE  \A n \in Nat : \E g : Told(g, a, n)
<1> DEFINE S == {n \in Nat : \E g : Told(g, a, n)}
<1>1. 0 \in S
  <2> DEFINE g == [k \in 1 .. 0 |-> "value"]
  <2>1. g = [k \in 1 .. 0 |-> RoleAt(g, a, k)]
    OBVIOUS
  <2> QED BY <2>1 DEF Told
<1>2. ASSUME NEW n \in S PROVE n + 1 \in S
  <2>1. PICK g : Told(g, a, n)
    BY <1>2
  <2> DEFINE h == [k \in 1 .. n + 1 |-> IF k = n + 1 THEN RoleAt(g, a, k) ELSE g[k]]
  <2>2. n \in Nat /\ \A k \in 1 .. n : h[k] = g[k]
    BY <1>2
  <2>3. h = [k \in 1 .. n + 1 |-> h[k]] /\ h[n + 1] = RoleAt(g, a, n + 1)
    BY <2>2
  <2>4. \A k \in 1 .. n : g[k] = RoleAt(g, a, k)
    BY <2>1 DEF Told
  <2> HIDE DEF h
  <2>5. \A k \in 1 .. n + 1 : h[k] = RoleAt(h, a, k)
    <3> SUFFICES ASSUME NEW k \in 1 .. n + 1 PROVE h[k] = RoleAt(h, a, k)
      OBVIOUS
    <3>1. k \in Nat /\ \A j \in 1 .. k - 1 : g[j] = h[j]
      BY <2>2
    <3>2. RoleAt(g, a, k) = RoleAt(h, a, k)
      BY <3>1, RoleAtSame
    <3> QED BY <2>2, <2>3, <2>4, <3>2
  <2>6. Told(h, a, n + 1)
    BY <2>3, <2>5 DEF Told
  <2> QED BY <2>2, <2>6
<1> HIDE DEF S
<1>3. S = Nat
  BY <1>1, <1>2, Induction DEF S
<1> QED BY <1>3 DEF S

\* The roles of a vector satisfy the equation that defines them.
LEMMA RolesAre ==
    ASSUME NEW a, Len(a) \in Nat
    PROVE  \A k \in 1 .. Len(a) : Roles(a)[k] = RoleAt(Roles(a), a, k)
<1> DEFINE n == Len(a)
           f == CHOOSE g : Told(g, a, n)
<1>1. Roles(a) = f
  BY DEF Roles, Told, RoleAt
<1>2. Told(f, a, n)
  BY ToldExists
<1> HIDE DEF f
<1> QED BY <1>1, <1>2 DEF Told

-----------------------------------------------------------------------------
(* What one argument adds to what has been read. *)

LEMMA VectorIs ==
    ASSUME NEW a \in Argvs
    PROVE  /\ Len(a) \in Nat /\ DOMAIN a = 1 .. Len(a)
           /\ \A k \in 1 .. Len(a) : a[k] \in Seq(STRING \ {"null"}) /\ a[k] # NoText
<1>1. a \in Seq(Seq(STRING \ {"null"}))
  BY ArgvsAssumption
<1>2. ASSUME NEW k \in 1 .. Len(a), a[k] = NoText PROVE FALSE
  <2>0. Len(NoText) = 1 /\ NoText[1] = "null"
    BY DEF NoText
  <2>1. a[k] \in Seq(STRING \ {"null"}) /\ Len(a[k]) = 1 /\ a[k][1] = "null"
    BY <1>1, <1>2, <2>0
  <2>2. a[k][1] \in STRING \ {"null"}
    BY <2>1
  <2> QED BY <2>1, <2>2
<1> QED BY <1>1, <1>2

\* An option's text is the option alone, or the option, "=" and its value.
LEMMA CutIs ==
    ASSUME NEW t \in Seq(STRING \ {"null"}), known(cut(t, "=").before)
    PROVE  /\ optOf(cut(t, "=").before) = optOf(t) /\ t[1] \in Names /\ Len(t) \in Nat
           /\ cut(t, "=").found => Len(t) >= 2 /\ cut(t, "=").after = SubSeq(t, 3, Len(t))
           /\ ~cut(t, "=").found => Len(t) = 1 /\ cut(t, "=").after = NoText
<1> DEFINE c == cut(t, "=")
           first(n) == t[n] = "=" /\ \A m \in 1 .. n - 1 : t[m] # "="
<1>0. Len(t) \in Nat /\ DOMAIN t = 1 .. Len(t)
  OBVIOUS
<1>1. CASE \A k \in DOMAIN t : t[k] # "="
  <2>1. c = [found |-> FALSE, before |-> t, after |-> NoText]
    BY <1>1 DEF cut
  <2>2. c.found = FALSE /\ c.before = t /\ c.after = NoText
    BY <2>1
  <2>3. Len(t) = 1 /\ t[1] \in Names
    BY <2>2 DEF known
  <2> QED BY <1>0, <2>2, <2>3
<1>2. CASE \E k \in DOMAIN t : t[k] = "="
  <2>1. \E n \in DOMAIN t : first(n)
    <3> DEFINE S == {k \in DOMAIN t : t[k] = "="}
    <3>1. S \in SUBSET Nat /\ S # {}
      BY <1>0, <1>2
    <3>2. PICK n \in S : \A k \in S : n <= k
      BY <3>1, LeastNat
    <3>3. \A m \in 1 .. n - 1 : t[m] # "="
      BY <1>0, <3>2
    <3> QED BY <3>2, <3>3
  <2> DEFINE k == CHOOSE n \in DOMAIN t : first(n)
  <2>2. k \in DOMAIN t /\ first(k)
    BY <2>1
  <2>3. c = [found |-> TRUE, before |-> SubSeq(t, 1, k - 1), after |-> SubSeq(t, k + 1, Len(t))]
    BY <1>2 DEF cut
  <2> HIDE DEF k
  <2>4. Len(SubSeq(t, 1, k - 1)) = k - 1
    BY <1>0, <2>2
  <2>5. k = 2 /\ SubSeq(t, 1, k - 1)[1] \in Names
    <3>1. c.before = SubSeq(t, 1, k - 1)
      BY <2>3
    <3>2. Len(c.before) = 1 /\ c.before[1] \in Names
      BY DEF known
    <3> HIDE DEF c
    <3> QED BY <1>0, <2>2, <2>4, <3>1, <3>2
  <2>6. SubSeq(t, 1, k - 1)[1] = t[1]
    BY <1>0, <2>2, <2>5
  <2> QED BY <1>0, <2>2, <2>3, <2>5, <2>6 DEF known, optOf
<1> QED BY <1>1, <1>2

\* The roles, one by one.
LEMMA RoleIs ==
    ASSUME NEW a \in Argvs, NEW n \in 1 .. Len(a)
    PROVE  /\ n > 1 /\ Roles(a)[n - 1] = "takes" => Roles(a)[n] = "value"
           /\ ~(n > 1 /\ Roles(a)[n - 1] = "takes") =>
                Roles(a)[n] = IF ~isOption(a[n]) \/ Before(a, "end", n) # {} THEN "program"
                              ELSE IF a[n] = <<"--">> THEN "end"
                              ELSE IF a[n][1] \in Valued /\ Len(a[n]) = 1 THEN "takes" ELSE "alone"
<1>1. Len(a) \in Nat
  BY VectorIs
<1>2. Roles(a)[n] = RoleAt(Roles(a), a, n)
  BY <1>1, RolesAre
<1>3. (\E j \in 1 .. n - 1 : Roles(a)[j] = "end") = (Before(a, "end", n) # {})
  <2>1. \A j : j \in 1 .. n - 1 <=> j \in 1 .. Len(a) /\ j < n
    BY <1>1
  <2> QED BY <2>1, Zenon DEF Before
<1> QED BY <1>2, <1>3 DEF RoleAt

\* An argument that is no option gives none.
LEMMA OtherAdds ==
    ASSUME NEW a \in Argvs, NEW n \in 1 .. Len(a), Roles(a)[n] \in {"end", "program"}
    PROVE  /\ Given(a, n + 1) = Given(a, n) /\ Texts(a, n + 1) = Texts(a, n)
           /\ \A r : Before(a, r, n + 1) = Before(a, r, n) \cup (IF r = Roles(a)[n] THEN {n} ELSE {})
<1>0. Len(a) \in Nat /\ n \in Nat /\ \A k \in 1 .. Len(a) : k < n + 1 <=> k < n \/ k = n
  BY VectorIs
<1>1. \A o : Giving(a, o, n + 1) = Giving(a, o, n)
  BY <1>0 DEF Giving
<1>2. ASSUME NEW r PROVE Before(a, r, n + 1) = Before(a, r, n) \cup (IF r = Roles(a)[n] THEN {n} ELSE {})
  BY <1>0 DEF Before
<1> QED BY <1>1, <1>2, Zenon DEF Given, Texts

\* The argument after argument n, and after its value if it takes one.
After(a, n) == IF Roles(a)[n] = "takes" THEN n + 2 ELSE n + 1

\* Option opt with value t is all that H and U say beyond G and T.
Adds(G, T, H, U, opt, t) ==
    /\ \A o \in Opts \ {opt} : H[o] = G[o] /\ U[o] = T[o]
    /\ H[opt] = TRUE /\ U[opt] = t

\* An option, with its value, gives itself and leaves what the others said.
LEMMA OptionAdds ==
    ASSUME NEW a \in Argvs, NEW n \in 1 .. Len(a), Roles(a)[n] \in {"takes", "alone"},
           optOf(a[n]) \in Opts
    PROVE  /\ Adds(Given(a, n), Texts(a, n), Given(a, After(a, n)), Texts(a, After(a, n)),
                   optOf(a[n]), TextAt(a, n))
           /\ \A r \in {"end", "program"} : Before(a, r, After(a, n)) = Before(a, r, n)
<1> DEFINE opt == optOf(a[n])
           m == After(a, n)
<1>0. Len(a) \in Nat /\ n \in Nat
  BY VectorIs
<1>m. m = IF Roles(a)[n] = "takes" THEN n + 2 ELSE n + 1
  BY DEF After
<1> HIDE DEF m
<1>1. ASSUME NEW k \in 1 .. Len(a), k < m, ~(k < n), k # n PROVE Roles(a)[k] = "value"
  <2>1. k = n + 1 /\ Roles(a)[n] = "takes"
    BY <1>0, <1>m, <1>1
  <2>2. k > 1 /\ k - 1 = n
    BY <1>0, <2>1
  <2> QED BY <2>1, <2>2, RoleIs
<1>2. \A k \in 1 .. Len(a) : k < n \/ k = n => k < m
  BY <1>0, <1>m
<1>3. \A r \in {"end", "program"} : Before(a, r, m) = Before(a, r, n)
  BY <1>1, <1>2 DEF Before
<1>4. ASSUME NEW o \in Opts \ {opt}
      PROVE  Giving(a, o, m) = Giving(a, o, n)
  BY <1>1, <1>2 DEF Giving
<1>5. n \in Giving(a, opt, m) /\ \A k \in Giving(a, opt, m) : k <= n
  BY <1>0, <1>1, <1>2 DEF Giving
<1>6. LastOf(Giving(a, opt, m)) = n
  <2> DEFINE S == Giving(a, opt, m)
  <2>1. S \subseteq Nat
    BY DEF Giving
  <2>2. \A k \in S : (\A j \in S : j <= k) => k = n
    BY <1>0, <1>5, <2>1
  <2> HIDE DEF S
  <2> QED BY <1>5, <2>2 DEF LastOf, S
<1>7. /\ \A o \in Opts : Given(a, m)[o] = (Giving(a, o, m) # {}) /\ Given(a, n)[o] = (Giving(a, o, n) # {})
      /\ \A o \in Opts : /\ Texts(a, m)[o] = TextAt(a, LastOf(Giving(a, o, m)))
                         /\ Texts(a, n)[o] = TextAt(a, LastOf(Giving(a, o, n)))
  BY DEF Given, Texts
<1>8. \A o \in Opts \ {opt} : Given(a, m)[o] = Given(a, n)[o] /\ Texts(a, m)[o] = Texts(a, n)[o]
  BY <1>4, <1>7
<1>9. Given(a, m)[opt] = TRUE /\ Texts(a, m)[opt] = TextAt(a, n)
  BY <1>5, <1>6, <1>7
<1> QED BY <1>3, <1>8, <1>9 DEF Adds, m

\* Text t of the vector is value v of option opt: --dump-memory may have none.
ValueIs(opt, v, t) ==
    /\ opt \in Valued => v = t
    /\ opt = "--dump-memory" => IF v = NoText THEN t = <<>> ELSE v = t

\* An option with its value leaves a configuration that says what the options
\* so far and this one say.
LEMMA AppliedReads ==
    ASSUME NEW p, ParserOK(p), NEW G, NEW T, NEW H, NEW U, Reads(p, G, T),
           NEW opt \in Opts \ {"--help", "--version"}, NEW v, NEW t \in Seq(STRING),
           NEW q \in applied(p, opt, v),
           Adds(G, T, H, U, opt, t), ValueIs(opt, v, t)
    PROVE  Reads(q, H, U) /\ q.program = p.program /\ q.options_ended = p.options_ended
<1> DEFINE c == p.config
           With(d) == {[p EXCEPT !.config = d]}
<1>0. ConfigOK(c)
  BY DEF ParserOK
<1>1. ASSUME NEW d, q \in With(d)
      PROVE  q.config = d /\ q.demo = p.demo /\ q.program = p.program /\ q.options_ended = p.options_ended
  BY <1>1 DEF ParserOK
<1> USE DEF Opts, Valued, Flags, Adds, ValueIs
<1>2. CASE opt = "--memory"
  <2>1. q \in With([c EXCEPT !.memory = memorySize(t)])
    BY <1>2 DEF applied
  <2> HIDE DEF With
  <2>2. q.config = [c EXCEPT !.memory = memorySize(t)] /\ q.demo = p.demo
        /\ q.program = p.program /\ q.options_ended = p.options_ended
    BY <2>1, <1>1
  <2>3. /\ q.config.memory = memorySize(t) /\ q.config.max_cycles = c.max_cycles
        /\ q.config.load_addr = c.load_addr /\ q.config.input = c.input /\ q.config.dump = c.dump
        /\ q.config.digest = c.digest /\ q.config.trace = c.trace /\ q.config.quiet = c.quiet
        /\ q.config.disassemble = c.disassemble
    BY <1>0, <2>2 DEF ConfigOK
  <2> QED BY <1>2, <2>2, <2>3 DEF Reads, FlagsRead, NumbersRead, InputRead, DumpRead
<1>3. CASE opt = "--max-cycles"
  <2>1. q \in With([c EXCEPT !.max_cycles = number(t, MaxU64)])
    BY <1>3 DEF applied
  <2> HIDE DEF With
  <2>2. q.config = [c EXCEPT !.max_cycles = number(t, MaxU64)] /\ q.demo = p.demo
        /\ q.program = p.program /\ q.options_ended = p.options_ended
    BY <2>1, <1>1
  <2>3. /\ q.config.memory = c.memory /\ q.config.max_cycles = number(t, MaxU64)
        /\ q.config.load_addr = c.load_addr /\ q.config.input = c.input /\ q.config.dump = c.dump
        /\ q.config.digest = c.digest /\ q.config.trace = c.trace /\ q.config.quiet = c.quiet
        /\ q.config.disassemble = c.disassemble
    BY <1>0, <2>2 DEF ConfigOK
  <2> QED BY <1>3, <2>2, <2>3 DEF Reads, FlagsRead, NumbersRead, InputRead, DumpRead
<1>4. CASE opt = "--input"
  <2> DEFINE x == IF t = <<"-">> THEN <<"stdin">> ELSE t
  <2>1. q \in With([c EXCEPT !.input = x])
    BY <1>4 DEF applied
  <2> HIDE DEF With
  <2>2. q.config = [c EXCEPT !.input = x] /\ q.demo = p.demo
        /\ q.program = p.program /\ q.options_ended = p.options_ended
    BY <2>1, <1>1
  <2>3. /\ q.config.memory = c.memory /\ q.config.max_cycles = c.max_cycles
        /\ q.config.load_addr = c.load_addr /\ q.config.input = x /\ q.config.dump = c.dump
        /\ q.config.digest = c.digest /\ q.config.trace = c.trace /\ q.config.quiet = c.quiet
        /\ q.config.disassemble = c.disassemble
    BY <1>0, <2>2 DEF ConfigOK
  <2> QED BY <1>4, <2>2, <2>3 DEF Reads, FlagsRead, NumbersRead, InputRead, DumpRead
<1>5. CASE opt = "--load-addr"
  <2>1. q \in With([c EXCEPT !.load_addr = number(t, MaxU32)])
    BY <1>5 DEF applied
  <2> HIDE DEF With
  <2>2. q.config = [c EXCEPT !.load_addr = number(t, MaxU32)] /\ q.demo = p.demo
        /\ q.program = p.program /\ q.options_ended = p.options_ended
    BY <2>1, <1>1
  <2>3. /\ q.config.memory = c.memory /\ q.config.max_cycles = c.max_cycles
        /\ q.config.load_addr = number(t, MaxU32) /\ q.config.input = c.input /\ q.config.dump = c.dump
        /\ q.config.digest = c.digest /\ q.config.trace = c.trace /\ q.config.quiet = c.quiet
        /\ q.config.disassemble = c.disassemble
    BY <1>0, <2>2 DEF ConfigOK
  <2> QED BY <1>5, <2>2, <2>3 DEF Reads, FlagsRead, NumbersRead, InputRead, DumpRead
<1>6. CASE opt = "--dump-memory"
  <2> DEFINE f == IF t = <<>> THEN "hexdump" ELSE t[1]
  <2>1. f # "null" /\ q \in With([c EXCEPT !.dump = withFormat(c.dump, f)])
    <3> DEFINE format == IF v = NoText THEN "hexdump" ELSE IF Len(v) = 1 THEN v[1] ELSE "none"
    <3>1. format \in {"hexdump", "raw"} /\ q \in With([c EXCEPT !.dump = withFormat(c.dump, format)])
      BY <1>6 DEF applied
    <3>2. format = f
      BY <1>6, <3>1
    <3> HIDE DEF format, f
    <3> QED BY <3>1, <3>2
  <2> HIDE DEF With
  <2>2. q.config = [c EXCEPT !.dump = withFormat(c.dump, f)] /\ q.demo = p.demo
        /\ q.program = p.program /\ q.options_ended = p.options_ended
    BY <2>1, <1>1
  <2>3. /\ q.config.memory = c.memory /\ q.config.max_cycles = c.max_cycles
        /\ q.config.load_addr = c.load_addr /\ q.config.input = c.input
        /\ q.config.dump = withFormat(c.dump, f)
        /\ q.config.digest = c.digest /\ q.config.trace = c.trace /\ q.config.quiet = c.quiet
        /\ q.config.disassemble = c.disassemble
    BY <1>0, <2>2 DEF ConfigOK
  <2>4. withFormat(c.dump, f).format = f /\ withFormat(c.dump, f).range = c.dump.range
    BY <1>0 DEF ConfigOK, withFormat, dumpOr, NoDump
  <2>5. FlagsRead(q, H) /\ NumbersRead(q.config, H, U) /\ InputRead(q.config, H, U)
    BY <1>6, <2>2, <2>3 DEF Reads, FlagsRead, NumbersRead, InputRead
  <2>6. DumpRead(q.config.dump, H, U)
    BY <1>6, <2>1, <2>3, <2>4 DEF Reads, DumpRead
  <2> QED BY <2>2, <2>5, <2>6 DEF Reads
<1>7. CASE opt = "--dump-range"
  <2> DEFINE r == parseRange(t)
  <2>1. r # NoRange /\ q \in With([c EXCEPT !.dump = withRange(c.dump, r)])
    BY <1>7 DEF applied
  <2> HIDE DEF With, r
  <2>2. q.config = [c EXCEPT !.dump = withRange(c.dump, r)] /\ q.demo = p.demo
        /\ q.program = p.program /\ q.options_ended = p.options_ended
    BY <2>1, <1>1
  <2>3. /\ q.config.memory = c.memory /\ q.config.max_cycles = c.max_cycles
        /\ q.config.load_addr = c.load_addr /\ q.config.input = c.input
        /\ q.config.dump = withRange(c.dump, r)
        /\ q.config.digest = c.digest /\ q.config.trace = c.trace /\ q.config.quiet = c.quiet
        /\ q.config.disassemble = c.disassemble
    BY <1>0, <2>2 DEF ConfigOK
  <2>4. /\ withRange(c.dump, r).range = r
        /\ withRange(c.dump, r).format = IF c.dump = NoDump THEN "hexdump" ELSE c.dump.format
    BY <1>0 DEF ConfigOK, withRange, dumpOr, NoDump
  <2>5. FlagsRead(q, H) /\ NumbersRead(q.config, H, U) /\ InputRead(q.config, H, U)
    BY <1>7, <2>2, <2>3 DEF Reads, FlagsRead, NumbersRead, InputRead
  <2>6. DumpRead(c.dump, G, T)
    BY DEF Reads
  <2>7. c.dump = NoDump <=> ~G["--dump-memory"] /\ ~G["--dump-range"]
    BY <1>0, <2>6 DEF ConfigOK, DumpRead, NoDump
  <2>8. DumpRead(q.config.dump, H, U)
    BY <1>7, <2>1, <2>3, <2>4, <2>6, <2>7 DEF DumpRead, r
  <2> QED BY <2>2, <2>5, <2>8 DEF Reads
<1>8. ASSUME NEW d,
             \/ opt = "--digest" /\ d = [c EXCEPT !.digest = TRUE]
             \/ opt = "--trace" /\ d = [c EXCEPT !.trace = TRUE]
             \/ opt = "--disassemble" /\ d = [c EXCEPT !.disassemble = TRUE]
             \/ opt = "--quiet" /\ d = [c EXCEPT !.quiet = TRUE],
             q \in With(d)
      PROVE  Reads(q, H, U) /\ q.program = p.program /\ q.options_ended = p.options_ended
  <2>1. q.config = d /\ q.demo = p.demo /\ q.program = p.program /\ q.options_ended = p.options_ended
    BY <1>1, <1>8
  <2> HIDE DEF With
  <2>2. /\ d.memory = c.memory /\ d.max_cycles = c.max_cycles /\ d.load_addr = c.load_addr
        /\ d.input = c.input /\ d.dump = c.dump
        /\ d.digest = IF opt = "--digest" THEN TRUE ELSE c.digest
        /\ d.trace = IF opt = "--trace" THEN TRUE ELSE c.trace
        /\ d.quiet = IF opt = "--quiet" THEN TRUE ELSE c.quiet
        /\ d.disassemble = IF opt = "--disassemble" THEN TRUE ELSE c.disassemble
    BY <1>0, <1>8, ZenonT(30) DEF ConfigOK
  <2>3. opt \in {"--digest", "--trace", "--disassemble", "--quiet"}
    BY <1>8
  <2>4. FlagsRead(q, H)
    BY <2>1, <2>2, <2>3 DEF Reads, FlagsRead
  <2>5. NumbersRead(d, H, U) /\ InputRead(d, H, U) /\ DumpRead(d.dump, H, U)
    BY <2>2, <2>3 DEF Reads, NumbersRead, InputRead, DumpRead
  <2> QED BY <2>1, <2>4, <2>5 DEF Reads
<1>9. CASE opt \in {"--digest", "--trace", "--disassemble", "--quiet"}
  <2>1. PICK d : /\ \/ opt = "--digest" /\ d = [c EXCEPT !.digest = TRUE]
                    \/ opt = "--trace" /\ d = [c EXCEPT !.trace = TRUE]
                    \/ opt = "--disassemble" /\ d = [c EXCEPT !.disassemble = TRUE]
                    \/ opt = "--quiet" /\ d = [c EXCEPT !.quiet = TRUE]
                 /\ q \in With(d)
    BY <1>9 DEF applied
  <2> QED BY <1>8, <2>1
<1>10. CASE opt = "--demo"
  <2>1. q = [p EXCEPT !.demo = TRUE]
    BY <1>10 DEF applied
  <2>2. q.config = c /\ q.demo = TRUE /\ q.program = p.program /\ q.options_ended = p.options_ended
    BY <2>1 DEF ParserOK
  <2> QED BY <1>10, <2>2, ZenonT(30) DEF Reads, FlagsRead, NumbersRead, InputRead, DumpRead
<1> QED BY <1>2, <1>3, <1>4, <1>5, <1>6, <1>7, <1>9, <1>10

-----------------------------------------------------------------------------
(* Every step keeps what has been read. *)

LEMMA StartMeans ==
    ASSUME NEW a \in Argvs
    PROVE  Means(a, NothingRead, 1)
<1>1. \A k \in 1 .. Len(a) : ~(k < 1)
  BY VectorIs
<1>2. /\ \A o : Giving(a, o, 1) = {}
      /\ \A r : Before(a, r, 1) = {}
  BY <1>1 DEF Giving, Before
<1>3. \A o \in Opts : Given(a, 1)[o] = FALSE
  BY <1>2 DEF Given
<1>4. Reads(NothingRead, Given(a, 1), Texts(a, 1))
  BY <1>3 DEF Reads, FlagsRead, NumbersRead, InputRead, DumpRead, NothingRead, DefaultConfig, NoDump, NoRange,
     Opts, Valued, Flags
<1> QED BY <1>2, <1>4 DEF Means, NothingRead

LEMMA ReturnsReads ==
    ASSUME ArgsInv, ReadInv, NEW r, Returns(r), phase # "done",
           r = "run" => phase = "checks" /\ ~wrongProgram(parser)
    PROVE  ReadInv'
<1>1. phase' = "done" /\ result' = r /\ argv' = argv /\ parser' = parser
  BY DEF Returns
<1>2. r = "run" => Means(argv', parser', Len(argv') + 1) /\ ~wrongProgram(parser')
  BY <1>1 DEF ReadInv
<1> QED BY <1>1, <1>2 DEF ReadInv, wrongProgram

LEMMA FailReads ==
    ASSUME ArgsInv, ReadInv, Fail, phase # "done"
    PROVE  ReadInv'
  BY ReturnsReads DEF Fail

LEMMA TookReads ==
    ASSUME ArgsInv, ReadInv, Looping, NEW n \in Nat, NEW p, Took(n, p),
           i + n \in 1 .. Len(argv) + 1, i + n > 1 => Roles(argv)[i + n - 1] # "takes",
           Means(argv, p, i + n)
    PROVE  ReadInv'
<1>1. phase' = "loop" /\ result' = "none" /\ argv' = argv /\ parser' = p /\ i' = i + n
  BY DEF Looping, Took, ArgsInv
<1>2. argv' \in Argvs
  BY <1>1 DEF ReadInv
<1>3. i' \in 1 .. Len(argv') + 1 /\ (i' > 1 => Roles(argv')[i' - 1] # "takes") /\ Means(argv', parser', i')
  <2>1. i \in Int
    BY DEF ReadInv, Looping
  <2> QED BY <1>1, <2>1
<1> QED BY <1>1, <1>2, <1>3 DEF ReadInv

LEMMA GotoReads ==
    ASSUME ArgsInv, ReadInv,
           \/ phase = "scan" /\ Enter("loop")
           \/ phase = "loop" /\ i > Len(argv) /\ Enter("checks")
    PROVE  ReadInv'
<1>1. argv \in Argvs /\ Len(argv) \in Nat /\ result' = "none" /\ argv' = argv /\ parser' = parser /\ i' = 1
  BY VectorIs DEF Enter, ArgsInv, ReadInv
<1>2. CASE phase = "scan" /\ Enter("loop")
  <2>1. phase' = "loop" /\ parser = NothingRead
    BY <1>2 DEF Enter, ReadInv
  <2>2. Means(argv, parser, 1)
    BY <1>1, <2>1, StartMeans
  <2>3. i' \in 1 .. Len(argv) + 1 /\ ~(i' > 1)
    BY <1>1
  <2> QED BY <1>1, <2>1, <2>2, <2>3 DEF ReadInv
<1>3. CASE phase = "loop" /\ i > Len(argv) /\ Enter("checks")
  <2>1. phase' = "checks" /\ i \in 1 .. Len(argv) + 1 /\ Means(argv, parser, i)
    BY <1>3 DEF Enter, ReadInv
  <2>2. i = Len(argv) + 1
    BY <1>1, <1>3, <2>1
  <2>3. Means(argv, parser, Len(argv) + 1)
    BY <2>1, <2>2
  <2> QED BY <1>1, <2>1, <2>3 DEF ReadInv
<1> QED BY <1>2, <1>3

\* Where the second loop stands: the role of the argument it takes next.
LEMMA LoopAt ==
    ASSUME ReadInv, Looping
    PROVE  /\ argv \in Argvs /\ Len(argv) \in Nat /\ i \in 1 .. Len(argv) /\ Means(argv, parser, i)
           /\ Roles(argv)[i] = IF ~isOption(argv[i]) \/ parser.options_ended THEN "program"
                               ELSE IF argv[i] = <<"--">> THEN "end"
                               ELSE IF argv[i][1] \in Valued /\ Len(argv[i]) = 1 THEN "takes" ELSE "alone"
<1>1. /\ argv \in Argvs /\ Means(argv, parser, i) /\ i \in 1 .. Len(argv) + 1 /\ i <= Len(argv)
      /\ i > 1 => Roles(argv)[i - 1] # "takes"
  BY DEF ReadInv, Looping
<1>2. Len(argv) \in Nat /\ i \in 1 .. Len(argv)
  BY <1>1, VectorIs
<1>3. parser.options_ended = (Before(argv, "end", i) # {})
  BY <1>1 DEF Means
<1> QED BY <1>1, <1>2, <1>3, RoleIs

LEMMA PositionalReads ==
    ASSUME ArgsInv, ReadInv, Positional
    PROVE  ReadInv'
<1>1. Looping /\ phase # "done"
  BY DEF Positional, Looping
<1>2. /\ argv \in Argvs /\ Len(argv) \in Nat /\ i \in 1 .. Len(argv) /\ Means(argv, parser, i)
      /\ Roles(argv)[i] = "program"
  BY <1>1, LoopAt DEF Positional
<1>3. CASE parser.program # NoText
  BY <1>1, <1>3, FailReads DEF Positional
<1>4. CASE parser.program = NoText
  <2> DEFINE p == [parser EXCEPT !.program = argv[i]]
  <2>1. Took(1, p)
    BY <1>4 DEF Positional
  <2>2. p.program = argv[i] /\ p.demo = parser.demo /\ p.options_ended = parser.options_ended
        /\ p.config = parser.config
    BY DEF ArgsInv, ParserOK
  <2> HIDE DEF p
  <2>3. /\ Given(argv, i + 1) = Given(argv, i) /\ Texts(argv, i + 1) = Texts(argv, i)
        /\ \A r : Before(argv, r, i + 1) = Before(argv, r, i) \cup (IF r = "program" THEN {i} ELSE {})
    BY <1>2, OtherAdds
  <2>4. Reads(p, Given(argv, i + 1), Texts(argv, i + 1))
    BY <1>2, <2>2, <2>3 DEF Means, Reads, FlagsRead
  <2>5. p.options_ended = (Before(argv, "end", i + 1) # {})
    BY <1>2, <2>2, <2>3 DEF Means
  <2>6. Before(argv, "program", i + 1) = {i}
    BY <1>2, <1>4, <2>3 DEF Means
  <2>7. Means(argv, p, i + 1)
    BY <1>2, <2>2, <2>4, <2>5, <2>6, VectorIs DEF Means
  <2>8. i + 1 \in 1 .. Len(argv) + 1 /\ Roles(argv)[i + 1 - 1] # "takes"
    BY <1>2
  <2> QED BY <1>1, <2>1, <2>7, <2>8, TookReads
<1> QED BY <1>3, <1>4

LEMMA TerminatorReads ==
    ASSUME ArgsInv, ReadInv, Terminator
    PROVE  ReadInv'
<1>1. Looping
  BY DEF Terminator
<1>2. /\ argv \in Argvs /\ Len(argv) \in Nat /\ i \in 1 .. Len(argv) /\ Means(argv, parser, i)
      /\ Roles(argv)[i] = "end"
  <2>1. isOption(argv[i]) /\ ~parser.options_ended /\ argv[i] = <<"--">>
    <3>1. argv[i] = <<"--">> /\ ~parser.options_ended
      BY DEF Terminator
    <3>2. isOption(<<"--">>)
      BY DEF isOption, startsWithDash, Dashed
    <3> QED BY <3>1, <3>2
  <2> QED BY <1>1, <2>1, LoopAt
<1> DEFINE p == [parser EXCEPT !.options_ended = TRUE]
<1>3. Took(1, p)
  BY DEF Terminator
<1>4. p.program = parser.program /\ p.demo = parser.demo /\ p.options_ended = TRUE
      /\ p.config = parser.config
  BY DEF ArgsInv, ParserOK
<1> HIDE DEF p
<1>5. /\ Given(argv, i + 1) = Given(argv, i) /\ Texts(argv, i + 1) = Texts(argv, i)
      /\ \A r : Before(argv, r, i + 1) = Before(argv, r, i) \cup (IF r = "end" THEN {i} ELSE {})
  BY <1>2, OtherAdds
<1>6. Reads(p, Given(argv, i + 1), Texts(argv, i + 1))
  BY <1>2, <1>4, <1>5 DEF Means, Reads, FlagsRead
<1>7. Before(argv, "end", i + 1) # {} /\ Before(argv, "program", i + 1) = Before(argv, "program", i)
  BY <1>5
<1>8. Means(argv, p, i + 1)
  BY <1>2, <1>4, <1>6, <1>7 DEF Means
<1>9. i + 1 \in 1 .. Len(argv) + 1 /\ Roles(argv)[i + 1 - 1] # "takes"
  BY <1>2
<1> QED BY <1>1, <1>3, <1>8, <1>9, TookReads

LEMMA OptionReads ==
    ASSUME ArgsInv, ReadInv, Option
    PROVE  ReadInv'
<1> DEFINE c == cut(argv[i], "=")
           opt == optOf(c.before)
           next == valueOf(opt) = "required" /\ ~c.found
           value == IF next THEN argv[i + 1] ELSE c.after
<1>1. Looping /\ phase # "done" /\ ParserOK(parser)
  BY DEF Option, Looping, ArgsInv
<1>2. \/ Fail
      \/ Returns("unreachable")
      \/ /\ known(c.before) /\ opt \notin {"--help", "--version"} /\ ~(next /\ i = Len(argv))
         /\ valueOf(opt) = "none" => ~c.found
         /\ \E p \in applied(parser, opt, value) : Took(IF next THEN 2 ELSE 1, p)
  BY DEF Option
<1>3. CASE Fail
  BY <1>1, <1>3, FailReads
<1>4. CASE Returns("unreachable")
  BY <1>1, <1>4, ReturnsReads
<1>5. CASE /\ known(c.before) /\ opt \notin {"--help", "--version"} /\ ~(next /\ i = Len(argv))
           /\ valueOf(opt) = "none" => ~c.found
           /\ \E p \in applied(parser, opt, value) : Took(IF next THEN 2 ELSE 1, p)
  <2>1. /\ argv \in Argvs /\ Len(argv) \in Nat /\ i \in 1 .. Len(argv) /\ Means(argv, parser, i)
        /\ Roles(argv)[i] = IF argv[i][1] \in Valued /\ Len(argv[i]) = 1 THEN "takes" ELSE "alone"
    BY <1>1, LoopAt DEF Option
  <2>2. /\ argv[i] \in Seq(STRING \ {"null"})
        /\ i + 1 <= Len(argv) => argv[i + 1] \in Seq(STRING \ {"null"})
    BY <2>1, VectorIs
  <2> DEFINE t == TextAt(argv, i)
             n == IF next THEN 2 ELSE 1
  <2>3. /\ opt = optOf(argv[i]) /\ argv[i][1] \in Names /\ Len(argv[i]) \in Nat
        /\ c.found => Len(argv[i]) >= 2 /\ c.after = SubSeq(argv[i], 3, Len(argv[i]))
        /\ ~c.found => Len(argv[i]) = 1 /\ c.after = NoText
    BY <1>5, <2>2, CutIs
  <2>4. opt \in Opts \ {"--help", "--version"} /\ (opt \in Valued <=> argv[i][1] \in Valued)
    BY <1>5, <2>3 DEF optOf, Names, Opts, Valued, Flags
  <2>5. next <=> Roles(argv)[i] = "takes"
    <3> HIDE DEF opt, c
    <3>1. valueOf(opt) = "required" <=> opt \in Valued
      BY DEF valueOf, Valued, Flags
    <3>2. ~c.found <=> Len(argv[i]) = 1
      BY <2>3
    <3> QED BY <2>1, <2>4, <3>1, <3>2
  <2>6. PICK p \in applied(parser, opt, value) : Took(n, p)
    BY <1>5
  <2>7. t \in Seq(STRING)
    <3>1. CASE next
      BY <1>5, <2>1, <2>2, <2>5, <3>1 DEF TextAt
    <3>2. CASE ~next
      <4>1. t = SubSeq(argv[i], 3, Len(argv[i]))
        BY <2>5, <3>2 DEF TextAt
      <4>2. argv[i] \in Seq(STRING) /\ Len(argv[i]) >= 1
        BY <2>2, <2>3
      <4>3. SubSeq(argv[i], 3, Len(argv[i])) \in Seq(STRING)
        BY <4>2
      <4> QED BY <4>1, <4>3
    <3> QED BY <3>1, <3>2
  <2>8. opt \in Valued => value = t
    <3> SUFFICES ASSUME opt \in Valued PROVE value = t
      OBVIOUS
    <3>1. CASE next
      BY <2>5, <3>1 DEF TextAt
    <3>2. CASE ~next
      <4>0. valueOf(opt) = "required"
        <5> HIDE DEF opt
        <5> QED BY DEF valueOf, Valued, Flags
      <4>1. c.found /\ value = c.after
        <5> HIDE DEF opt, c
        <5> QED BY <3>2, <4>0
      <4>2. t = SubSeq(argv[i], 3, Len(argv[i]))
        BY <2>5, <3>2 DEF TextAt
      <4> HIDE DEF c, t
      <4> QED BY <2>3, <4>1, <4>2
    <3> QED BY <3>1, <3>2
  <2>9. opt = "--dump-memory" => IF value = NoText THEN t = <<>> ELSE value = t
    <3> SUFFICES ASSUME opt = "--dump-memory" PROVE IF value = NoText THEN t = <<>> ELSE value = t
      OBVIOUS
    <3>1. ~next /\ value = c.after /\ t = SubSeq(argv[i], 3, Len(argv[i]))
      BY <2>5 DEF valueOf, Valued, TextAt
    <3>2. CASE c.found
      <4>1. value = t
        BY <2>3, <3>1, <3>2
      <4>2. t \in Seq(STRING \ {"null"})
        BY <2>2, <2>3, <3>1, <3>2
      <4>3. t # NoText
        <5>1. Len(NoText) = 1 /\ NoText[1] = "null"
          BY DEF NoText
        <5> HIDE DEF t
        <5> QED BY <4>2, <5>1, SMTT(30)
      <4> QED BY <4>1, <4>3
    <3>3. CASE ~c.found
      <4>1. Len(argv[i]) = 1
        BY <2>3, <3>3
      <4>2. SubSeq(argv[i], 3, 1) = <<>>
        BY <2>2
      <4> QED BY <2>3, <3>1, <3>3, <4>1, <4>2
    <3> QED BY <3>2, <3>3
  <2> HIDE DEF t, value, next, opt, c
  <2>10. /\ Adds(Given(argv, i), Texts(argv, i), Given(argv, i + n), Texts(argv, i + n), opt, t)
         /\ \A r \in {"end", "program"} : Before(argv, r, i + n) = Before(argv, r, i)
    <3>1. i + n = After(argv, i)
      BY <2>1, <2>5 DEF After
    <3>2. Roles(argv)[i] \in {"takes", "alone"} /\ optOf(argv[i]) \in Opts
      BY <2>1, <2>3, <2>4
    <3> HIDE DEF n
    <3> QED BY <2>1, <2>3, <3>1, <3>2, OptionAdds DEF t
  <2>11. /\ Reads(p, Given(argv, i + n), Texts(argv, i + n))
         /\ p.program = parser.program /\ p.options_ended = parser.options_ended
    <3>1. Reads(parser, Given(argv, i), Texts(argv, i)) /\ ValueIs(opt, value, t)
      BY <2>1, <2>8, <2>9 DEF Means, ValueIs
    <3> HIDE DEF n
    <3> QED BY <1>1, <2>4, <2>6, <2>7, <2>10, <3>1, AppliedReads
  <2>12. Means(argv, p, i + n)
    BY <2>1, <2>10, <2>11 DEF Means
  <2>13. i + n \in 1 .. Len(argv) + 1
    BY <1>5, <2>1
  <2>14. Roles(argv)[i + n - 1] # "takes"
    <3>1. CASE next
      <4>1. i + 1 \in 1 .. Len(argv) /\ (i + 1) - 1 = i /\ i + 1 > 1 /\ i + n - 1 = i + 1
        BY <1>5, <2>1, <3>1
      <4>2. Roles(argv)[i + 1] = "value"
        BY <2>1, <2>5, <3>1, <4>1, RoleIs
      <4> QED BY <4>1, <4>2
    <3>2. CASE ~next
      <4>1. i + n - 1 = i
        BY <2>1, <3>2
      <4> QED BY <2>5, <3>2, <4>1
    <3> QED BY <3>1, <3>2
  <2>15. n \in Nat
    OBVIOUS
  <2> HIDE DEF n
  <2> QED BY <1>1, <2>6, <2>12, <2>13, <2>14, <2>15, TookReads
<1> QED BY <1>2, <1>3, <1>4, <1>5

LEMMA ReadInvInit == Init => ReadInv
  BY DEF Init, ReadInv

LEMMA ReadInvNext == ArgsInv /\ ReadInv /\ [Next]_vars => ReadInv'
<1> SUFFICES ASSUME ArgsInv, ReadInv, [Next]_vars PROVE ReadInv'
  OBVIOUS
<1>1. CASE Usage
  BY <1>1, ReturnsReads DEF Usage
<1>2. CASE Scan
  <2>1. phase = "scan"
    BY <1>2 DEF Scan
  <2>2. \/ Enter("loop") \/ Returns("help") \/ Returns("version")
        \/ UNCHANGED <<argv, phase, parser, result>>
    BY <1>2 DEF Scan
  <2>3. CASE Enter("loop")
    BY <2>1, <2>3, GotoReads
  <2>4. CASE Returns("help") \/ Returns("version")
    BY <2>1, <2>4, ReturnsReads
  <2>5. CASE UNCHANGED <<argv, phase, parser, result>>
    BY <2>1, <2>5 DEF ReadInv, ArgsInv
  <2> QED BY <2>2, <2>3, <2>4, <2>5
<1>3. CASE Positional
  BY <1>3, PositionalReads
<1>4. CASE Terminator
  BY <1>4, TerminatorReads
<1>5. CASE Option
  BY <1>5, OptionReads
<1>6. CASE EndOfArguments
  BY <1>6, GotoReads DEF EndOfArguments
<1>7. CASE Checks
  BY <1>7, FailReads, ReturnsReads DEF Checks
<1>8. CASE UNCHANGED vars
  BY <1>8 DEF ReadInv, vars, wrongProgram
<1> QED BY <1>1, <1>2, <1>3, <1>4, <1>5, <1>6, <1>7, <1>8 DEF Next

LEMMA ReadMeans == ReadInv => ConfigMeansArguments
<1> SUFFICES ASSUME ReadInv, result = "run" PROVE ConfigMeansArguments
  BY DEF ConfigMeansArguments
<1> DEFINE n == Len(argv) + 1
           p == parser
<1>1. argv \in Argvs /\ Means(argv, p, n) /\ ~wrongProgram(p)
  BY DEF ReadInv
<1>2. Len(argv) \in Nat /\ DOMAIN argv = 1 .. Len(argv) /\ \A k \in 1 .. Len(argv) : k < n /\ argv[k] # NoText
  BY <1>1, VectorIs
<1> DEFINE role == Roles(argv)
           opts == {k \in DOMAIN argv : role[k] \in {"takes", "alone"}}
           given(o) == {k \in opts : optOf(argv[k]) = o}
           last(o) == CHOOSE k \in given(o) : \A m \in given(o) : m <= k
           text(o) == IF role[last(o)] = "takes" THEN argv[last(o) + 1]
                      ELSE SubSeq(argv[last(o)], 3, Len(argv[last(o)]))
           programs == {k \in DOMAIN argv : role[k] = "program"}
<1>3. \A o : given(o) = Giving(argv, o, n)
  BY <1>2 DEF Giving
<1>4. programs = Before(argv, "program", n)
  BY <1>2 DEF Before
<1>5. ASSUME NEW o PROVE text(o) = TextAt(argv, LastOf(Giving(argv, o, n)))
  <2>1. given(o) = Giving(argv, o, n)
    BY <1>3
  <2> HIDE DEF given
  <2>2. last(o) = LastOf(Giving(argv, o, n))
    BY <2>1 DEF LastOf
  <2> HIDE DEF last
  <2> QED BY <2>2 DEF TextAt
<1> HIDE DEF n, given
<1>6. \A o \in Opts : Given(argv, n)[o] = (given(o) # {}) /\ Texts(argv, n)[o] = text(o)
  BY <1>3, <1>5 DEF Given, Texts
<1> HIDE DEF text, programs
<1>7. Reads(p, Given(argv, n), Texts(argv, n))
  BY <1>1 DEF Means
<1>8. /\ p.config.digest = (given("--digest") # {}) /\ p.config.trace = (given("--trace") # {})
      /\ p.config.quiet = (given("--quiet") # {}) /\ p.config.disassemble = (given("--disassemble") # {})
      /\ p.demo = (given("--demo") # {})
      /\ given("--help") = {} /\ given("--version") = {}
  BY <1>6, <1>7 DEF Reads, FlagsRead, Opts, Valued, Flags
<1>9. /\ p.config.memory = IF given("--memory") = {} THEN DefaultMemory ELSE memorySize(text("--memory"))
      /\ p.config.max_cycles = IF given("--max-cycles") = {} THEN NONE
                               ELSE number(text("--max-cycles"), MaxU64)
      /\ p.config.load_addr = IF given("--load-addr") = {} THEN NONE
                              ELSE number(text("--load-addr"), MaxU32)
  BY <1>6, <1>7 DEF Reads, NumbersRead, Opts, Valued, Flags
<1>10. p.config.input = IF given("--input") = {} THEN NoText
                        ELSE IF text("--input") = <<"-">> THEN <<"stdin">> ELSE text("--input")
  BY <1>6, <1>7 DEF Reads, InputRead, Opts, Valued, Flags
<1>11. /\ p.config.dump.range = IF given("--dump-range") = {} THEN NoRange ELSE parseRange(text("--dump-range"))
       /\ p.config.dump.format = IF given("--dump-memory") = {}
                                 THEN IF given("--dump-range") = {} THEN "null" ELSE "hexdump"
                                 ELSE IF text("--dump-memory") = <<>> THEN "hexdump" ELSE text("--dump-memory")[1]
  BY <1>6, <1>7 DEF Reads, DumpRead, Opts, Valued, Flags
<1>12. IF p.demo THEN programs = {}
       ELSE \E k \in programs : programs = {k} /\ p.program = argv[k]
  BY <1>1, <1>4 DEF Means, wrongProgram
<1> QED BY <1>8, <1>9, <1>10, <1>11, <1>12 DEF ConfigMeansArguments, given, text, programs

\* The configuration parse() returns is what the arguments say: every flag is
\* set exactly if it is given, an option given more than once has its last
\* value, --dump-memory and --dump-range keep each other's setting, and exactly
\* one argument, or --demo, is the program; for every vector of arguments.
THEOREM ConfigAlwaysMeansArguments == Spec => []ConfigMeansArguments
<1>1. Init => ArgsInv /\ ReadInv
  BY ArgsInvInit, ReadInvInit
<1>2. ArgsInv /\ ReadInv /\ [Next]_vars => ArgsInv' /\ ReadInv'
  BY ArgsInvNext, ReadInvNext
<1> QED BY <1>1, <1>2, ReadMeans, PTL DEF Spec

=============================================================================
