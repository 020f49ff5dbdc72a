----------------------------- MODULE MCCommand -----------------------------
(***************************************************************************)
(* The command-line program: parse() of an argument vector, and, for the   *)
(* vectors that steer the output, what command() then does with the        *)
(* result. The vectors are all short ones, and longer ones over the        *)
(* arguments whose order matters.  The integers are scaled: u32 has 31     *)
(* values, KiB is 4.                                                       *)
(***************************************************************************)
EXTENDS Args, Cli

SX == INSTANCE SequencesExt

MCDigits == [x \in {"0", "3", "8", "12", "40", "99"} |->
               CASE x = "0" -> 0 [] x = "3" -> 3 [] x = "8" -> 8 [] x = "12" -> 12
                 [] x = "40" -> 40 [] OTHER -> 99]

W(x) == <<x>>
E(x, v) == <<x, "=">> \o v

Texts ==
    {W("p.bin"), W("-"), W("--"), W("8"), W("12"), <<>>, <<"-", "8">>, W("--bogus"),
     W("-h"), W("--version"), E("--help", W("8")), W("--demo"), W("-q"), W("--digest"),
     W("--disassemble"), W("--memory"), W("--max-cycles"), W("--input"), W("--load-addr"),
     W("--dump-memory"), W("--dump-range"),
     E("--memory", <<"3", " ", "KiB">>), E("--memory", W("3")), E("--memory", W("40")),
     E("--memory", <<"3", "GiB">>), E("--memory", W("KiB")),
     E("--max-cycles", W("40")), E("--max-cycles", W("99")), E("--load-addr", W("3")),
     E("--dump-memory", W("raw")), E("--dump-memory", W("8")),
     E("--dump-range", <<"8", ":", "8">>), E("--dump-range", <<"8", ":", "0">>)}

\* The arguments whose order or repetition could matter.
Ordered ==
    {W("p.bin"), W("--"), W("--trace"), W("--input"), E("--memory", W("12")), E("--memory", W("8")),
     E("--load-addr", W("8")), E("--dump-memory", W("raw")),
     E("--dump-range", <<"0", ":", "12">>), E("--dump-range", <<"8", ":", "3">>)}

\* Every combination of the options that steer the output, with a program or
\* the demo; no arguments, help, and a vector that is refused.
Steering == {W("-q"), W("--trace"), W("--disassemble"), W("--dump-memory"), W("--digest")}
CliArgvs ==
    {Append(SX!SetToSeq(s), x) : s \in SUBSET Steering, x \in {W("p.bin"), W("--demo")}}
      \cup {<<>>, <<W("-h")>>, <<W("--bogus")>>}

Vectors(s, n) == UNION {[1 .. k -> s] : k \in 0 .. n}
MCArgvs ==
    Vectors(Texts, 3) \cup [1 .. 4 -> Ordered] \cup [1 .. 5 -> Ordered \ {W("--trace"), W("--")}]
      \cup CliArgvs

\* A value that looks like the end of the options, and a request for help.
HelpArgvs == Vectors({W("--input"), W("--"), W("--help"), W("p.bin")}, 3)

\* What the output depends on, of the arguments and of parse()'s locals.
Asked(a) ==
    LET has(t) == \E k \in DOMAIN a : a[k] = t
    IN  [quiet |-> has(W("-q")), trace |-> has(W("--trace")), demo |-> has(W("--demo")),
         disassemble |-> has(W("--disassemble")), dump |-> has(W("--dump-memory")),
         digest |-> has(W("--digest"))]
Returned(p) ==
    [quiet |-> p.config.quiet, trace |-> p.config.trace, demo |-> p.demo,
     disassemble |-> p.config.disassemble, dump |-> p.config.dump # NoDump,
     digest |-> p.config.digest]

\* command() goes on with what parse() returned. Its WriteFailed is, in Cli, the
\* message of a usage error that a stream does not take.
Goes ==
    \/ result = "run" /\ config = Returned(parser) /\ at' = "load"
    \/ result \in {"help", "version"} /\ at' = "ok"
    \/ result = "usage" /\ at' = "userError" /\ Len(todo') = 1
    \/ result = "Usage" /\ at' = "userError" /\ Len(todo') = 2

MCInit == Init /\ config = Asked(argv) /\ CliInit
MCNext ==
    \/ Next /\ UNCHANGED cliVars
    \/ /\ phase = "done" /\ argv \in CliArgvs
       /\ CliNext /\ (at = "command" => Goes)
       /\ UNCHANGED vars
MCSpec == MCInit /\ [][MCNext]_<<vars, cliVars>>

=============================================================================
