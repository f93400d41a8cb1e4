---------------------------- MODULE MCIsaAgents ----------------------------
(***************************************************************************)
(* The agent scheduler on two agents.  A behaviour begins with no agent,   *)
(* or with one whose program is any that combines three lines of calls,    *)
(* returns, jumps and pushes around one label.  The sources spawned later  *)
(* are longer ones for the remaining instructions and the errors.          *)
(***************************************************************************)
EXTENDS IsaAgents

Reg(n) == [kind |-> "REG", val |-> n]
Imm(n) == [kind |-> "IMM", val |-> n]
Lab(l) == [kind |-> "LABEL", val |-> l]

Line(op, args) == [label |-> NoLabel, op |-> op, args |-> args]
At(l, line) == [line EXCEPT !.label = l]
LabelOnly(l) == At(l, Line("", <<>>))

Load(r, n) == Line("LOAD_IMM", <<Reg(r), Imm(n)>>)
Op(op, regs) == Line(op, [i \in DOMAIN regs |-> Reg(regs[i])])
Jump(op, l) == Line(op, <<Lab(l)>>)
Halt == Line("HALT", <<>>)

Pieces == {Jump("CALL", "x"), Line("RET", <<>>), Jump("JNE", "x"), Op("PUSH", <<0>>)}

\* The label stands before each of the three instructions, or behind the last one.
Short ==
    {<<At("x", p), q, r>> : p, q, r \in Pieces} \cup {<<p, q, At("x", r)>> : p, q, r \in Pieces}
    \cup {<<p, q, LabelOnly("x")>> : p, q \in Pieces}

\* A loop that counts down, memory, channels, agents and every error.
Long ==
    {<<Load(0, 2), Load(1, 1), At("x", Op("SUB", <<0, 0, 1>>)), Op("TEST", <<0>>), Jump("JNE", "x"), Halt>>,
     <<Load(0, -7), Load(1, 2), Op("DIV", <<2, 0, 1>>), Op("MUL", <<2, 2, 2>>), Op("CMP", <<0, 1>>),
       Jump("JG", "x"), Jump("JL", "x"), Line("NOP", <<>>), At("x", Op("MOVE", <<3, 2>>)), Halt>>,
     <<Load(0, 5), Op("STORE", <<0, 0>>), Op("LOAD", <<1, 0>>), Op("CAS", <<0, 1, 2>>),
       Op("CAS", <<0, 1, 2>>), Op("LOAD", <<1, 2>>)>>,
     <<Line("CHAN_CREATE", <<Reg(0), Imm(1)>>), Op("CHAN_WRITE", <<0, 0>>), Op("CHAN_READ", <<1, 0>>),
       Op("CHAN_READ", <<2, 0>>), Line("SYNC", <<>>), Op("AGENT_SEND", <<0, 1>>),
       Op("PUSH", <<1>>), Op("POP", <<2>>), Op("CHAN_WRITE", <<2, 0>>)>>,
     <<Load(0, -2), Op("PUSH", <<0>>), Line("RET", <<>>)>>,
     <<Load(0, -5), Op("PUSH", <<0>>), Line("RET", <<>>)>>,
     <<Op("ADD", <<0, 0, 1>>), Line("AGENT_YIELD", <<>>), Halt>>,
     <<Op("CMP", <<0, 1>>), Jump("JE", "x"), At("x", Line("AGENT_HALT", <<>>))>>,
     <<Op("DIV", <<0, 0, 1>>)>>, <<Op("TENSOR_ADD", <<0, 1, 2>>)>>,
     <<At("x", Jump("AGENT_SPAWN", "x"))>>, <<At("x", Jump("JMP", "x"))>>,
     <<Jump("JMP", "nowhere")>>, <<Op("MOVE", <<32, 0>>)>>, <<Op("MOVE", <<0>>)>>, <<LabelOnly("x")>>,
     <<At("x", Halt), At("x", Halt)>>}

MCSources == Long

Spawned(prog) ==
    /\ agents = <<[program |-> prog, machine |-> NewMachine, status |-> "READY", file |-> 1]>>
    /\ files = <<NewRegisters>> /\ turns = <<0>>
    /\ limit = 0 /\ steps = 0 /\ round = <<>> /\ calls = 0

Init == AgentsInit \/ \E src \in Short : Parses(src) /\ Spawned(ParseProgram(src))

Spec == Init /\ [][AgentsNext]_agentVars /\ WF_agentVars(RunNext)
=============================================================================
