----------------------------- MODULE IsaMachine -----------------------------
(***************************************************************************)
(* The reference interpreter: what one instruction does to a machine.  A   *)
(* machine is a MachineState without its registers, which several machines *)
(* may share.  Mailboxes and agent ids are written by AGENT_SEND and       *)
(* AGENT_SPAWN but read by nothing, and are left out.                      *)
(***************************************************************************)
EXTENDS IsaProgram

NewMachine == [stack |-> <<>>, memory |-> [addr \in {} |-> 0], pc |-> 0,
               eq |-> FALSE, lt |-> FALSE, gt |-> FALSE, status |-> "READY", halted |-> FALSE,
               channels |-> <<>>]

NewRegisters == [r \in 0..31 |-> 0]

Arg(instr, k) == instr.args[k].val

\* int(a / b): towards zero. The code divides as floats, which is exact up to 2^53; beyond, it rounds
\* (and overflows at last), which is left out.
Quotient(a, b) ==
    LET abs(x) == IF x < 0 THEN -x ELSE x
    IN  IF (a < 0) = (b < 0) THEN abs(a) \div abs(b) ELSE -(abs(a) \div abs(b))

\* Interpreter.step finds nothing to execute.
Finished(prog, m) == m.halted \/ m.pc >= Size(prog)

\* _exec raises, or the index of a machine that returned to a negative address is out of range.
\* AGENT_SPAWN asserts that its label is a register, and TENSOR_ADD has no branch.
Raises(prog, m, regs) ==
    m.pc >= -Size(prog) =>
        LET instr == InstrAt(prog, m.pc)
            r(k) == regs[Arg(instr, k)]
        IN  \/ instr.op \in {"AGENT_SPAWN", "TENSOR_ADD"}
            \/ instr.op \in {"POP", "RET"} /\ m.stack = <<>>
            \/ instr.op = "DIV" /\ r(3) = 0
            \/ instr.op = "LOAD" /\ r(2) \notin DOMAIN m.memory
            \/ instr.op = "CHAN_WRITE" /\ r(1) \notin DOMAIN m.channels

\* The first word a channel holds; 0 when there is none.
Received(m, c) == IF c \in DOMAIN m.channels /\ m.channels[c] # <<>> THEN Head(m.channels[c]) ELSE 0

Swaps(m, instr, regs) ==
    LET addr == regs[Arg(instr, 1)]
    IN  (IF addr \in DOMAIN m.memory THEN m.memory[addr] ELSE 0) = regs[Arg(instr, 2)]

\* The register an instruction sets is its first operand, whatever it was used for before.
Result(m, instr, regs) ==
    LET r(k) == regs[Arg(instr, k)]
    IN  CASE instr.op = "MOVE" -> r(2)
          [] instr.op = "LOAD_IMM" -> Arg(instr, 2)
          [] instr.op = "POP" -> Last(m.stack)
          [] instr.op = "ADD" -> r(2) + r(3)
          [] instr.op = "SUB" -> r(2) - r(3)
          [] instr.op = "MUL" -> r(2) * r(3)
          [] instr.op = "DIV" -> Quotient(r(2), r(3))
          [] instr.op = "LOAD" -> m.memory[r(2)]
          [] instr.op = "CHAN_CREATE" -> Len(m.channels) + 1
          [] instr.op = "CHAN_READ" -> Received(m, r(2))
          [] instr.op = "CAS" -> IF Swaps(m, instr, regs) THEN 1 ELSE 0

Setters == {"MOVE", "LOAD_IMM", "POP", "ADD", "SUB", "MUL", "DIV", "LOAD", "CHAN_CREATE", "CHAN_READ", "CAS"}

NextRegisters(m, instr, regs) ==
    IF instr.op \in Setters THEN [regs EXCEPT ![Arg(instr, 1)] = Result(m, instr, regs)] ELSE regs

NextPc(prog, m, instr) ==
    LET taken == \/ instr.op \in {"JMP", "CALL"}
                 \/ instr.op = "JE" /\ m.eq
                 \/ instr.op = "JNE" /\ ~m.eq
                 \/ instr.op = "JL" /\ m.lt
                 \/ instr.op = "JG" /\ m.gt
    IN  IF taken THEN prog.labels[Arg(instr, 1)]
        ELSE IF instr.op = "RET" THEN Last(m.stack) ELSE m.pc + 1

NextStack(m, instr, regs) ==
    CASE instr.op = "PUSH" -> Append(m.stack, regs[Arg(instr, 1)])
      [] instr.op = "CALL" -> Append(m.stack, m.pc + 1)
      [] instr.op \in {"POP", "RET"} -> Front(m.stack)
      [] OTHER -> m.stack

NextMemory(m, instr, regs) ==
    LET put(addr, val) == [x \in DOMAIN m.memory \cup {addr} |-> IF x = addr THEN val ELSE m.memory[x]]
    IN  CASE instr.op = "STORE" -> put(regs[Arg(instr, 1)], regs[Arg(instr, 2)])
          [] instr.op = "CAS" /\ Swaps(m, instr, regs) -> put(regs[Arg(instr, 1)], regs[Arg(instr, 3)])
          [] OTHER -> m.memory

\* Channel ids count from 1, so a machine's channels are a sequence; capacities are ignored.
NextChannels(m, instr, regs) ==
    LET c(k) == regs[Arg(instr, k)]
    IN  CASE instr.op = "CHAN_CREATE" -> Append(m.channels, <<>>)
          [] instr.op = "CHAN_WRITE" -> [m.channels EXCEPT ![c(1)] = Append(@, c(2))]
          [] instr.op = "CHAN_READ" /\ c(2) \in DOMAIN m.channels /\ m.channels[c(2)] # <<>> ->
                 [m.channels EXCEPT ![c(2)] = Tail(@)]
          [] OTHER -> m.channels

\* The machine after an instruction; TEST leaves lt and gt as the last CMP set them.
NextMachine(prog, m, instr, regs) ==
    LET r(k) == regs[Arg(instr, k)]
        halts == instr.op \in {"HALT", "AGENT_HALT", "AGENT_YIELD"}
    IN  [stack |-> NextStack(m, instr, regs), memory |-> NextMemory(m, instr, regs),
         channels |-> NextChannels(m, instr, regs), pc |-> NextPc(prog, m, instr),
         eq |-> IF instr.op = "CMP" THEN r(1) = r(2) ELSE IF instr.op = "TEST" THEN r(1) = 0 ELSE m.eq,
         lt |-> IF instr.op = "CMP" THEN r(1) < r(2) ELSE m.lt,
         gt |-> IF instr.op = "CMP" THEN r(1) > r(2) ELSE m.gt,
         halted |-> m.halted \/ halts,
         status |-> IF ~halts THEN m.status
                    ELSE IF instr.op = "AGENT_YIELD" THEN "SUSPENDED" ELSE "TERMINATED"]
=============================================================================
