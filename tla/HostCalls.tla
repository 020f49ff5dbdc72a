----------------------------- MODULE HostCalls -----------------------------
(***************************************************************************)
(* The host-call ABI of src/hostcall.zig on top of the machine: handle()   *)
(* performs the read, write or exit of the ECALL that just stopped the     *)
(* machine.  The host it composes with may also make every other call of   *)
(* module Cpu between two host calls.                                      *)
(***************************************************************************)
EXTENDS Cpu

CONSTANTS
    A0, A1, A2, A7,             \* register numbers: 10, 11, 12 and 17
    ReadCall, WriteCall,        \* call numbers 63, 64
    ExitCalls,                  \* 93 and 94
    Ebadf, Efault,              \* -9 and -14 as words
    Input                       \* Env.input: fixed before the run

VARIABLES
    env,        \* Env: input_pos, and what was written to fd 1 and fd 2
    outcome,    \* what handle() returned; "none" if the last call was another
    received    \* history: the input bytes found in guest memory after each read

hostVars == <<vm, call, ret, image, env, outcome, received>>

ASSUME HostCallAssumption ==
    /\ {A0, A1, A2, A7} \subseteq Regs \ {0}
    /\ A0 \notin {A1, A2, A7} /\ A1 \notin {A2, A7} /\ A2 # A7
    /\ {ReadCall, WriteCall, Ebadf, Efault} \cup ExitCalls \subseteq Word
    /\ ReadCall # WriteCall /\ {ReadCall, WriteCall} \cap ExitCalls = {}
    /\ Input \in Seq(Byte) /\ Len(Input) < WordMod

Bytes(m, a, n) == [k \in 1 .. n |-> m[a + k - 1]]

-----------------------------------------------------------------------------

\* guestBytes(vm, addr, len) is not null.
guestBytes(a, n) == n <= MemSize /\ a <= MemSize - n

\* The arguments, as handle() reads them before anything changes.
a0 == vm.regs[A0]
a1 == vm.regs[A1]
a2 == vm.regs[A2]

readLength(n, pos) == IF n < Len(Input) - pos THEN n ELSE Len(Input) - pos

\* The bytes a read call copies: loadProgram, so that a reservation on an
\* overwritten word is dropped.
copyIn_Direct(s, bytes, at) ==
    [s EXCEPT !.memory = [x \in Addrs |-> IF at <= x /\ x < at + Len(bytes)
                                          THEN bytes[x - at + 1] ELSE @[x]]]
copyIn_Clears(s, bytes, at) ==
    [loadProgram(s, [at |-> at, bytes |-> bytes]).vm EXCEPT !.reservation = NoReservation]
copyIn(s, bytes, at) == loadProgram(s, [at |-> at, bytes |-> bytes]).vm

\* How far a read call moves input_pos.
advance_Set(n, pos) == readLength(n, pos)
advance(n, pos) == pos + readLength(n, pos)

\* setResult(): the machine s with v in a0, and the host may resume it.
Resumed(s, v) ==
    /\ vm' = writeReg(s, A0, v)
    /\ ret' = Return("writeReg", "ok", NoError)
    /\ outcome' = "resumed"

\* handle() is called once for an ECALL that stopped step() or run().
Handling(numbers) ==
    /\ ~call.active /\ ret.result = "ecall" /\ outcome = "none"
    /\ vm.regs[A7] \in numbers
    /\ call' = Idle
    /\ UNCHANGED image

Exit ==
    /\ Handling(ExitCalls)
    /\ outcome' = "exit"
    /\ UNCHANGED <<vm, ret, env, received>>

\* The checks of a call: a bad fd, then a buffer outside memory.
fdError(fds) == IF a0 \notin fds THEN Ebadf ELSE Efault
rejected(fds) == a0 \notin fds \/ ~guestBytes(a1, a2)

RejectedCall ==
    /\ \/ Handling({WriteCall}) /\ rejected({1, 2}) /\ Resumed(vm, fdError({1, 2}))
       \/ Handling({ReadCall}) /\ rejected({0}) /\ Resumed(vm, fdError({0}))
    /\ UNCHANGED <<env, received>>

\* What out.writeAll hands to the writer when it succeeds.
writeAll_Short(m, a, n) == Bytes(m, a, IF n > 2 THEN 2 ELSE n)
writeAll(m, a, n) == Bytes(m, a, n)

WriteOk ==
    /\ Handling({WriteCall}) /\ ~rejected({1, 2})
    /\ env' = [env EXCEPT !.out[a0] = @ \o writeAll(vm.memory, a1, a2)]
    /\ Resumed(vm, a2)
    /\ UNCHANGED received

\* The writer fails after some of the bytes; handle() returns its error.
WriteFailed ==
    /\ Handling({WriteCall}) /\ ~rejected({1, 2})
    /\ \E n \in 0 .. a2 : env' = [env EXCEPT !.out[a0] = @ \o Bytes(vm.memory, a1, n)]
    /\ outcome' = "WriteFailed"
    /\ UNCHANGED <<vm, ret, received>>

ReadOk ==
    /\ Handling({ReadCall}) /\ ~rejected({0})
    /\ LET n == readLength(a2, env.input_pos)
           s == copyIn(vm, SubSeq(Input, env.input_pos + 1, env.input_pos + n), a1)
       IN  /\ Resumed(s, n)
           /\ env' = [env EXCEPT !.input_pos = advance(a2, @)]
           /\ received' = received \o Bytes(vm'.memory, a1, n)

Unknown ==
    /\ Handling(Word \ ({ReadCall, WriteCall} \cup ExitCalls))
    /\ outcome' = "unknown"
    /\ UNCHANGED <<vm, ret, env, received>>

Handle == Exit \/ RejectedCall \/ WriteOk \/ WriteFailed \/ ReadOk \/ Unknown

HostInit ==
    /\ Init
    /\ env = [input_pos |-> 0, out |-> [fd \in {1, 2} |-> <<>>]]
    /\ outcome = "none" /\ received = <<>>

OtherCall == Next /\ outcome' = "none" /\ UNCHANGED <<env, received>>

HostNext == Handle \/ OtherCall

HostSpec == HostInit /\ [][HostNext]_hostVars

-----------------------------------------------------------------------------
(* Properties. *)

\* The program's reads deliver the input once and in order, whatever fails in
\* between and however short the rest: what the guest found in its buffers so
\* far is exactly the part of the input before input_pos, which stays inside it.
InputReadOnce ==
    env.input_pos <= Len(Input) /\ received = SubSeq(Input, 1, env.input_pos)

\* A host call is the guest's to see only through a0 and, for a read, its
\* buffer: nothing outside the bytes that took input changes in memory, a
\* rejected or failing call changes no memory and drops no reservation, and pc,
\* cycle_count, mscratch and the other registers stay. Only a read takes input,
\* and a0 then says how much.
HandleIsLocal ==
    [][Handle =>
        LET count  == env'.input_pos - env.input_pos
            buffer == a1 .. a1 + count - 1
        IN  /\ Arch(vm') = [Arch(vm) EXCEPT !.regs = vm'.regs, !.memory = vm'.memory,
                                            !.reservation = vm'.reservation]
            /\ \A r \in Regs \ {A0} : vm'.regs[r] = vm.regs[r]
            /\ outcome' # "resumed" => vm' = vm
            /\ count # 0 =>
                 outcome' = "resumed" /\ vm.regs[A7] = ReadCall /\ vm'.regs[A0] = count
            /\ buffer \subseteq Addrs
            /\ \A x \in Addrs \ buffer : vm'.memory[x] = vm.memory[x]
            /\ vm'.reservation # vm.reservation =>
                 buffer \cap vm.reservation .. vm.reservation + 3 # {}]_hostVars

\* The output is what the guest wrote.  A write call to fd 1 or 2 of a buffer
\* that lies in memory either resumes the guest with its length in a0, and has
\* appended all of the buffer to that file and nothing to the other, or fails in
\* the writer, and has appended a beginning of it.  Any other write call reports
\* an error, and neither it nor any other call appends anything.
OutputIsGuestMemory ==
    [][LET asked  == Handle /\ vm.regs[A7] = WriteCall
           Got(n) == \A fd \in {1, 2} :
                        env'.out[fd] = IF fd = a0 THEN env.out[fd] \o Bytes(vm.memory, a1, n)
                                                  ELSE env.out[fd]
       IN  IF asked /\ a0 \in {1, 2} /\ a1 + a2 <= MemSize
           THEN \/ outcome' = "resumed" /\ vm'.regs[A0] = a2 /\ Got(a2)
                \/ outcome' = "WriteFailed" /\ vm' = vm /\ \E n \in 0 .. a2 : Got(n)
           ELSE /\ env'.out = env.out
                /\ asked => outcome' = "resumed" /\ vm'.regs[A0] \in {Ebadf, Efault}]_hostVars

\* "A write is all-or-nothing" (docs/design/host-calls.md): a write call leaves
\* all of its buffer in the file or none of it, also when the writer fails.
\* writeAll hands the buffer to a writer that may accept a part and then fail.
WriteAllOrNothing ==
    [][\A fd \in {1, 2} : env'.out[fd] # env.out[fd] =>
          env'.out[fd] = env.out[fd] \o Bytes(vm.memory, a1, a2)]_hostVars

=============================================================================
