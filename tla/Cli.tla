-------------------------------- MODULE Cli --------------------------------
(***************************************************************************)
(* The command-line program of src/main.zig as what it does with its two   *)
(* buffered streams: the program's output goes to stdout and stderr, the   *)
(* report and the trace to stderr, and any write or flush may fail.        *)
(*                                                                         *)
(* The text of a message is left out.  A piece of output is the number of  *)
(* the write that produced it, so that the order in which the pieces       *)
(* arrive can be compared with the order in which they were written.  The  *)
(* machine is its outcomes: what run() returns, which host call an ECALL   *)
(* is (modules Cpu and HostCalls).  What the arguments, the program file   *)
(* and the input turn out to be is chosen when they are read.              *)
(***************************************************************************)
EXTENDS Naturals, Sequences

CONSTANTS
    Capacity,       \* pieces a stream's buffer holds (4096 bytes each stream)
    MaxLines,       \* bound: trace lines of one run
    MaxHostCalls    \* bound: host calls after which the guest stops

ASSUME CliAssumption == Capacity \in Nat /\ MaxLines \in Nat /\ MaxHostCalls \in Nat

VARIABLES
    config,     \* args.Config: the options that steer the output
    at,         \* where the program is
    todo,       \* the writes and flushes it makes before it goes on
    buf,        \* the buffers of the two writers
    shown,      \* what arrived, of both streams together (as with 2>&1)
    made,       \* how many pieces were written so far
    started,    \* Report.started
    status,     \* what run() returns; NoStatus before
    calls,      \* host calls made so far
    told,       \* history: pieces that report an error
    lost        \* history: the streams that failed

cliVars == <<config, at, todo, buf, shown, made, started, status, calls, told, lost>>

Streams == {"stdout", "stderr"}
NoStatus == "none"

Other(s) == IF s = "stdout" THEN "stderr" ELSE "stdout"

-----------------------------------------------------------------------------
(* Writers.  A write that fits is buffered; one that does not drains the    *)
(* buffer, with the new piece or without it; a flush drains it.  A drain    *)
(* that fails has sent some of the pieces, and keeps the rest.              *)

Put(s)      == [op |-> "put", to |-> s, error |-> FALSE]
PutError(s) == [op |-> "put", to |-> s, error |-> TRUE]
Flush(s)    == [op |-> "flush", to |-> s, error |-> FALSE]

Drain(s, sent, kept) ==
    /\ shown' = shown \o sent
    /\ buf' = [buf EXCEPT ![s] = kept]

piece == made + 1

Made(o) ==
    IF o.op = "put" THEN /\ made' = piece
                         /\ told' = IF o.error THEN told \cup {piece} ELSE told
    ELSE UNCHANGED <<made, told>>

Succeeds(o) ==
    LET b == buf[o.to]
    IN  /\ \/ o.op = "flush" /\ Drain(o.to, b, <<>>)
           \/ o.op = "put" /\ Len(b) < Capacity /\ Drain(o.to, <<>>, Append(b, piece))
           \/ o.op = "put" /\ Len(b) >= Capacity /\ Drain(o.to, Append(b, piece), <<>>)
           \/ o.op = "put" /\ Len(b) >= Capacity /\ Capacity > 0 /\ Drain(o.to, b, <<piece>>)
        /\ Made(o)
        /\ UNCHANGED lost

Fails(o) ==
    LET b == buf[o.to]
    IN  /\ \/ o.op = "flush" /\ b # <<>>
           \/ o.op = "put" /\ Len(b) >= Capacity
        /\ \E n \in 0 .. Len(b) : Drain(o.to, SubSeq(b, 1, n), SubSeq(b, n + 1, Len(b)))
        /\ lost' = lost \cup {o.to}
        /\ Made(o)

-----------------------------------------------------------------------------
(* Control. *)

Goto(where, ops) == at' = where /\ todo' = ops

Ready(where) == at = where /\ todo = <<>>

\* What is left alone by a step that only decides what comes next.
Quiet == UNCHANGED <<config, buf, shown, made, calls, told, lost>>

\* outputFailed(): both results are ignored.
outputFailed_NoFlush == <<PutError("stderr")>>
outputFailed == <<PutError("stderr"), Flush("stderr")>>

\* The next write or flush.  One that fails ends command() with WriteFailed, so
\* that run() goes to outputFailed(); the message of run()'s own handler and
\* those of outputFailed() may fail; a failing last flush of stderr ends run().
Io ==
    /\ todo # <<>> /\ Succeeds(Head(todo))
    /\ todo' = Tail(todo)
    /\ UNCHANGED <<config, at, started, status, calls>>

\* What run() does when the final flush of a stream fails.
flushFailed_Ignored(s) == Goto("flushed", Tail(todo)) /\ UNCHANGED status
flushFailed(s) ==
    IF s = "stdout" THEN Goto("failed", outputFailed) /\ UNCHANGED status
    ELSE Goto("done", <<>>) /\ status' = "usage_or_io"

IoFails ==
    /\ todo # <<>> /\ Fails(Head(todo))
    /\ \/ at \in {"failed", "caught"} /\ Goto(at, Tail(todo)) /\ UNCHANGED status
       \/ at = "flushed" /\ flushFailed(Head(todo).to)
       \/ at \notin {"failed", "caught", "flushed"} /\ Goto("failed", outputFailed) /\ UNCHANGED status
    /\ UNCHANGED <<config, started, calls>>

\* Report.section(): stdout first, and a blank line unless it is the first.
section(lines) ==
    <<Flush("stdout")>> \o (IF started THEN <<Put("stderr")>> ELSE <<>>) \o lines

CliInit ==
    /\ config \in [quiet: BOOLEAN, trace: BOOLEAN, demo: BOOLEAN, disassemble: BOOLEAN,
                   dump: BOOLEAN, digest: BOOLEAN]
    /\ at = "command" /\ todo = <<>>
    /\ buf = [s \in Streams |-> <<>>]
    /\ shown = <<>> /\ made = 0 /\ started = FALSE
    /\ status = NoStatus /\ calls = 0 /\ told = {} /\ lost = {}

\* command(): parse() has written its message if it fails, and the hint follows;
\* no arguments give the usage; help and version go to stdout.
Command ==
    /\ Ready("command")
    /\ \/ Goto("userError", <<PutError("stderr"), Put("stderr")>>)
       \/ Goto("userError", <<PutError("stderr")>>)
       \/ Goto("ok", <<Put("stdout")>>)
       \/ Goto("load", <<>>)
    /\ Quiet /\ UNCHANGED <<started, status>>

\* Any other error: run() reports it itself.
OutOfMemory ==
    /\ Ready("load")
    /\ Goto("caught", <<PutError("stderr")>>)
    /\ status' = "usage_or_io"
    /\ Quiet /\ UNCHANGED started

\* runProgram(): memory, program and input, each of which may be refused; then
\* the listing, or the first section of the report.
Refused ==
    /\ Ready("load")
    /\ Goto("userError", <<PutError("stderr")>>)
    /\ Quiet /\ UNCHANGED <<started, status>>

Listing ==
    /\ Ready("load") /\ config.disassemble
    /\ Goto("ok", <<Put("stdout"), Put("stdout")>>)
    /\ Quiet /\ UNCHANGED <<started, status>>

\* The demo's listing is a section of its own; stderr is flushed before the run.
header ==
    IF config.demo
    THEN section(<<Put("stderr"), Put("stderr")>>) \o <<Flush("stdout"), Put("stderr"), Put("stderr")>>
    ELSE section(<<Put("stderr")>>)

Start ==
    /\ Ready("load") /\ ~config.disassemble
    /\ Goto("execute", IF config.quiet THEN <<>> ELSE header \o <<Flush("stderr")>>)
    /\ started' = (~config.quiet \/ config.trace)
    /\ Quiet /\ UNCHANGED status

\* One vm.run() or traceRun(): it ends at the limit, at an EBREAK or ECALL, whose
\* trace line is printed, or with a fault, whose is not.
traceLines(end, n) ==
    IF config.trace THEN [i \in 1 .. n + (IF end \in {"ebreak", "ecall"} THEN 1 ELSE 0) |-> Put("stderr")]
    ELSE <<>>

Run ==
    /\ Ready("execute")
    /\ \E end \in {"cycle_limit", "ebreak", "ecall", "fault"}, n \in 0 .. MaxLines :
         /\ end = "ecall" => calls < MaxHostCalls
         /\ Goto(end, traceLines(end, n))
    /\ Quiet /\ UNCHANGED <<started, status>>

\* After an ECALL.  A write on fd 1 or 2 flushes the other stream first, even if
\* handle() then rejects its buffer; after a call that resumes, a trace flushes
\* stdout before the next line.
flushOther_None(s) == <<>>
flushOther(s) == <<Flush(Other(s))>>
afterResume == IF config.trace THEN <<Flush("stdout")>> ELSE <<>>

HostCall ==
    /\ Ready("ecall")
    /\ \/ \E s \in Streams : Goto("execute", flushOther(s) \o <<Put(s)>> \o afterResume)
       \/ \E s \in Streams : Goto("execute", flushOther(s) \o afterResume)   \* EFAULT
       \/ Goto("execute", afterResume)                     \* read, or a bad fd
       \/ Goto("stopped_ecall", <<>>)                      \* not a host call
       \/ Goto("exit", <<>>)
    /\ calls' = calls + 1
    /\ UNCHANGED <<config, buf, shown, made, told, lost, started, status>>

\* The report of the stop: always for a fault, otherwise unless --quiet.
stopStatus(end) ==
    CASE end \in {"ebreak", "stopped_ecall"} -> "ok"
      [] end = "cycle_limit" -> "cycle_limit"
      [] end = "fault" -> "vm_fault"
      [] OTHER -> "exit"

Stop ==
    /\ \E end \in {"ebreak", "stopped_ecall", "cycle_limit", "exit", "fault"} :
         /\ Ready(end)
         /\ status' = stopStatus(end)
         /\ LET reported == end = "fault" \/ ~config.quiet
            IN  /\ Goto(IF end # "fault" /\ reported /\ config.demo THEN "demo" ELSE "dump",
                        IF reported THEN section(<<Put("stderr"), Put("stderr")>>) ELSE <<>>)
                /\ started' = (started \/ reported)
    /\ Quiet

\* The word the demo stored, if the memory has its address.
Demo ==
    /\ Ready("demo")
    /\ Goto("dump", section(<<Put("stderr")>>)) \/ Goto("dump", <<>>)
    /\ Quiet /\ UNCHANGED <<started, status>>

Dump ==
    /\ Ready("dump")
    /\ Goto("digest", IF config.dump THEN section(<<Put("stderr"), Put("stderr")>>) ELSE <<>>)
    /\ started' = (started \/ config.dump)
    /\ Quiet /\ UNCHANGED status

Digest ==
    /\ Ready("digest")
    /\ Goto("returned", IF config.digest THEN section(<<Put("stderr")>>) ELSE <<>>)
    /\ Quiet /\ UNCHANGED <<started, status>>

\* command() returned a status, or an error that was reported: run() flushes both
\* streams, stdout first, and returns.
FlushAll ==
    /\ \/ Ready("ok") /\ status' = "ok"
       \/ Ready("userError") /\ status' = "usage_or_io"
       \/ (Ready("caught") \/ Ready("returned")) /\ UNCHANGED status
    /\ Goto("flushed", <<Flush("stdout"), Flush("stderr")>>)
    /\ Quiet /\ UNCHANGED started

Failed == Ready("failed") /\ Goto("done", <<>>) /\ status' = "usage_or_io" /\ Quiet /\ UNCHANGED started
Exit == Ready("flushed") /\ Goto("done", <<>>) /\ UNCHANGED status /\ Quiet /\ UNCHANGED started

CliNext ==
    \/ Io \/ IoFails
    \/ Command \/ OutOfMemory \/ Refused \/ Listing \/ Start
    \/ Run \/ HostCall \/ Stop \/ Demo \/ Dump \/ Digest
    \/ FlushAll \/ Failed \/ Exit

CliSpec == CliInit /\ [][CliNext]_cliVars

-----------------------------------------------------------------------------
(* Properties. *)

\* What the program, the trace and the report write arrives in the order in which
\* it was written, on two streams with a buffer each: for every combination of
\* options, full buffers, and drains that fail half way and succeed later.
InOrder == \A i, j \in 1 .. Len(shown) : i < j => shown[i] < shown[j]

\* "Output that cannot be written must not end in a zero exit status": any status
\* but usage_or_io means that every piece written arrived.
NothingLost == at = "done" /\ status # "usage_or_io" => shown = [i \in 1 .. made |-> i]

\* "Failures are reported on stderr": the status usage_or_io means that a message
\* about it arrived, unless stderr itself failed.
FailureReported ==
    at = "done" /\ status = "usage_or_io" =>
        "stderr" \in lost \/ \E i \in 1 .. Len(shown) : shown[i] \in told

=============================================================================
