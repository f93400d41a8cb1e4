----------------------------- MODULE IsaAgents -----------------------------
(***************************************************************************)
(* The agent scheduler of the ISA runtime: agents, each with a program and *)
(* a machine, and run_round_robin, which gives every runnable agent one    *)
(* instruction per round until a limit of steps is reached or none is      *)
(* left.  An error in an agent's instruction goes through run_round_robin  *)
(* and leaves the agent RUNNING, that is, runnable.  An agent spawned from *)
(* a parent's machine uses the parent's register file, not a copy: a       *)
(* RegisterFile has no copy().                                             *)
(***************************************************************************)
EXTENDS IsaMachine

CONSTANTS
    Sources,    \* program texts that may be parsed and spawned
    Limits,     \* values of max_steps callers pass
    MaxAgents,  \* bound: agents spawned
    MaxCalls    \* bound: calls of run_round_robin

\* Sources are lists of lines; what is not a label is a number.
ASSUME IsaAssumption ==
    /\ Limits \subseteq Nat
    /\ \A src \in Sources :
          /\ src \in Seq({src[k] : k \in DOMAIN src})
          /\ \A k \in DOMAIN src :
                /\ src[k].args \in Seq({src[k].args[i] : i \in DOMAIN src[k].args})
                /\ \A i \in DOMAIN src[k].args :
                      src[k].args[i].kind \in {"REG", "IMM"} => src[k].args[i].val \in Int

VARIABLES
    agents,     \* AgentScheduler.agents, by id
    files,      \* the register files
    limit,      \* max_steps of the call under way, or 0
    steps,      \* its step count
    round,      \* the agents whose turn is still to come in this round
    turns,      \* turns each agent has had in the last call (history)
    calls       \* calls made

agentVars == <<agents, files, limit, steps, round, turns, calls>>

Ids == DOMAIN agents

Programs == {ParseProgram(src) : src \in {src \in Sources : Parses(src)}}

AgentsInit ==
    /\ agents = <<>> /\ files = <<>> /\ limit = 0 /\ steps = 0
    /\ round = <<>> /\ turns = <<>> /\ calls = 0

\* spawn, of a program that was verified, with registers of its own or its parent's.
Spawn(prog, parent) ==
    /\ limit = 0 /\ Len(agents) < MaxAgents
    /\ Verifies(prog)
    /\ agents' = Append(agents,
           [program |-> prog, machine |-> NewMachine, status |-> "READY",
            file |-> IF parent = 0 THEN Len(files) + 1 ELSE agents[parent].file])
    /\ files' = IF parent = 0 THEN Append(files, NewRegisters) ELSE files
    /\ turns' = Append(turns, 0)
    /\ UNCHANGED <<limit, steps, round, calls>>

Runnable == {a \in Ids : agents[a].status \in {"READY", "RUNNING"}}

Call(max) ==
    /\ limit = 0 /\ calls < MaxCalls
    /\ limit' = max /\ steps' = 0 /\ round' = <<>> /\ calls' = calls + 1
    /\ turns' = [a \in Ids |-> 0]
    /\ UNCHANGED <<agents, files>>

NewRound ==
    /\ limit # 0 /\ steps < limit /\ round = <<>> /\ Runnable # {}
    /\ round' = InOrder(Runnable)
    /\ UNCHANGED <<agents, files, limit, steps, turns, calls>>

\* How Agent.step leaves the agent's status: a machine that yielded has halted.
StatusAfter(machine) ==
    IF machine.halted THEN "TERMINATED"
    ELSE IF machine.status = "SUSPENDED" THEN "SUSPENDED" ELSE "READY"

Turn(a) ==
    LET agent == agents[a]
        regs == files[agent.file]
        instr == InstrAt(agent.program, agent.machine.pc)
        machine == IF Finished(agent.program, agent.machine)
                   THEN [agent.machine EXCEPT !.halted = TRUE]
                   ELSE NextMachine(agent.program, agent.machine, instr, regs)
    IN  /\ agents' = [agents EXCEPT ![a].machine = machine, ![a].status = StatusAfter(machine)]
        /\ files' = IF Finished(agent.program, agent.machine) THEN files
                    ELSE [files EXCEPT ![agent.file] = NextRegisters(agent.machine, instr, regs)]

Fails(a) == /\ ~Finished(agents[a].program, agents[a].machine)
            /\ Raises(agents[a].program, agents[a].machine, files[agents[a].file])

\* Variant: an agent runs on while it can.
TakeTurnAgain ==
    /\ round # <<>> /\ steps < limit /\ ~Fails(Head(round))
    /\ Turn(Head(round))
    /\ steps' = steps + 1
    /\ round' = IF agents'[Head(round)].status = "READY" THEN round ELSE Tail(round)
    /\ turns' = [turns EXCEPT ![Head(round)] = @ + 1]
    /\ UNCHANGED <<limit, calls>>


TakeTurn ==
    /\ round # <<>> /\ steps < limit /\ ~Fails(Head(round))
    /\ Turn(Head(round))
    /\ steps' = steps + 1 /\ round' = Tail(round)
    /\ turns' = [turns EXCEPT ![Head(round)] = @ + 1]
    /\ UNCHANGED <<limit, calls>>

\* Both ways out: an exception, or the end of the loop.
Leave == limit' = 0 /\ steps' = 0 /\ round' = <<>> /\ UNCHANGED <<turns, calls>>

TurnRaises ==
    /\ round # <<>> /\ steps < limit /\ Fails(Head(round))
    /\ agents' = [agents EXCEPT ![Head(round)].status = "RUNNING"]
    /\ UNCHANGED files
    /\ Leave

\* Variant: the loop goes on when no agent is left.
ReturnAtLimit ==
    /\ limit # 0 /\ steps >= limit
    /\ UNCHANGED <<agents, files>>
    /\ Leave


Return ==
    /\ limit # 0
    /\ steps >= limit \/ (round = <<>> /\ Runnable = {})
    /\ UNCHANGED <<agents, files>>
    /\ Leave

RunNext == NewRound \/ TakeTurn \/ TurnRaises \/ Return

AgentsNext ==
    \/ \E prog \in Programs, parent \in Ids \cup {0} : Spawn(prog, parent)
    \/ \E max \in Limits : Call(max)
    \/ RunNext

\* run_round_robin is a loop in its caller's thread.
AgentsSpec == AgentsInit /\ [][AgentsNext]_agentVars /\ WF_agentVars(RunNext)

-----------------------------------------------------------------------------
(***************************************************************************)
(* The control flow graph of verify() covers what the interpreter does:    *)
(* a turn stays in its block, or goes on with the start of a successor.    *)
(* Calls and returns leave the graph, and it does not hold the end.        *)
(***************************************************************************)
FollowsGraph(prog, from, to) ==
    \/ to >= Size(prog)
    \/ BlockOf(prog, to) = BlockOf(prog, from) /\ to = from + 1
    \/ to \in Successors(prog, BlockOf(prog, from)) /\ from = BlockEnd(prog, BlockOf(prog, from)) - 1

GraphCoversRuns ==
    [][\A a \in Ids :
          LET prog == agents[a].program
              from == agents[a].machine.pc
          IN  (/\ turns'[a] > turns[a] /\ from \in 0..(Size(prog) - 1)
               /\ ~agents'[a].machine.halted
               /\ InstrAt(prog, from).op \notin {"CALL", "RET"})
              => FollowsGraph(prog, from, agents'[a].machine.pc)]_agentVars

(***************************************************************************)
(* Within one call no runnable agent is ever more than a turn behind or    *)
(* ahead of another, and the older one goes first: neither agents that     *)
(* terminate nor the limit of steps disturb the round robin.               *)
(***************************************************************************)
RoundRobin ==
    limit # 0 => \A a, b \in Runnable : a < b => turns[a] - turns[b] \in {0, 1}

(***************************************************************************)
(* Return addresses share the stack with data.  A program that never       *)
(* pushes data keeps its program counter in the program or at its end,     *)
(* whatever it calls and returns from.                                     *)
(***************************************************************************)
ConfinedWithoutPush ==
    \A a \in Ids :
        LET prog == agents[a].program
        IN  (\A i \in 1..Size(prog) : prog.instructions[i].op # "PUSH")
            => agents[a].machine.pc \in 0..Size(prog)

\* Every call of run_round_robin ends, whatever loops the programs are in.
EveryCallEnds == limit # 0 ~> limit = 0
=============================================================================
