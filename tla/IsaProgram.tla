----------------------------- MODULE IsaProgram -----------------------------
(***************************************************************************)
(* Programs of the hand-rolled ISA: what the parser makes of a source text *)
(* and which control flow graph the verifier builds.                       *)
(*                                                                         *)
(* A source is a sequence of lines, each with a label or NoLabel, an `op`  *)
(* or "" and its operands, records of a kind and a value.  Comments and    *)
(* blank lines are gone.  Instructions are counted from 0, as in the code; *)
(* basic blocks are named by the instruction they start with.              *)
(***************************************************************************)
EXTENDS Integers, SequencesExt

NoLabel == ""

\* The numbers of a finite set from the smallest up, each at the place its rank gives it.
InOrder(S) == [i \in 1..Cardinality(S) |-> CHOOSE x \in S : Cardinality({y \in S : y < x}) = i - 1]

\* The operand kinds of every opcode.
OperandKinds ==
    LET none == <<>>  r == <<"REG">>  rr == <<"REG", "REG">>  rrr == <<"REG", "REG", "REG">>
        ri == <<"REG", "IMM">>  l == <<"LABEL">>
    IN  [NOP |-> none, MOVE |-> rr, LOAD_IMM |-> ri, PUSH |-> r, POP |-> r,
         ADD |-> rrr, SUB |-> rrr, MUL |-> rrr, DIV |-> rrr, CMP |-> rr, TEST |-> r,
         JMP |-> l, JE |-> l, JNE |-> l, JL |-> l, JG |-> l, CALL |-> l, RET |-> none,
         HALT |-> none, LOAD |-> rr, STORE |-> rr, SYNC |-> none, CAS |-> rrr,
         CHAN_CREATE |-> ri, CHAN_WRITE |-> rr, CHAN_READ |-> rr, AGENT_SPAWN |-> l,
         AGENT_SEND |-> rr, AGENT_YIELD |-> none, AGENT_HALT |-> none, TENSOR_ADD |-> rrr]

Branches == {"JMP", "JE", "JNE", "JL", "JG"}    \* effect "branch"
Calls == {"CALL", "RET", "AGENT_SPAWN"}         \* effect "call"

-----------------------------------------------------------------------------
Holds(line) == line.op # ""     \* the line has an instruction
HoldingLines(src) == {k \in DOMAIN src : Holds(src[k])}

\* Variant: instructions counted from 1.
BeforeFromOne(src, k) == 1 + Cardinality({j \in 1..(k - 1) : Holds(src[j])})


\* Instructions before a line: what its label stands for.
Before(src, k) == Cardinality({j \in 1..(k - 1) : Holds(src[j])})

LabelLines(src) == {k \in DOMAIN src : src[k].label # NoLabel}

\* A label is a duplicate once an instruction has claimed the first one.
Duplicate(src) ==
    \E j, k \in LabelLines(src) :
        /\ j < k /\ src[j].label = src[k].label
        /\ Before(src, k) > Before(src, j)

Targets(instr) == {instr.args[i].val : i \in {i \in DOMAIN instr.args : instr.args[i].kind = "LABEL"}}

WellFormed(line) ==
    /\ line.op \in DOMAIN OperandKinds
    /\ [i \in DOMAIN line.args |-> line.args[i].kind] = OperandKinds[line.op]
    /\ \A i \in DOMAIN line.args : line.args[i].kind = "REG" => line.args[i].val >= 0

\* parse_program either raises ParseError ...
Parses(src) ==
    /\ ~Duplicate(src)
    /\ \A k \in DOMAIN src : Holds(src[k]) => WellFormed(src[k])
    /\ \A k \in DOMAIN src : Holds(src[k]) =>
           Targets(src[k]) \subseteq {src[j].label : j \in LabelLines(src)}

\* ... or returns the instructions and the place each label stands for.
ParseProgram(src) ==
    [instructions |-> [i \in 1..Cardinality(HoldingLines(src)) |-> src[InOrder(HoldingLines(src))[i]]],
     labels |-> [l \in {src[k].label : k \in LabelLines(src)} |->
                    Before(src, CHOOSE k \in LabelLines(src) : src[k].label = l)]]

-----------------------------------------------------------------------------
Size(prog) == Len(prog.instructions)

\* instructions[pc], where a negative index counts from the end.
InstrAt(prog, pc) == prog.instructions[(IF pc < 0 THEN Size(prog) + pc ELSE pc) + 1]

\* verify: not empty, registers R0..R31.
Verifies(prog) ==
    /\ Size(prog) > 0
    /\ \A i \in 1..Size(prog) : \A k \in DOMAIN prog.instructions[i].args :
           LET arg == prog.instructions[i].args[k] IN arg.kind = "REG" => arg.val \in 0..31

Leaders(prog) ==
    LET transfers == {i \in 0..(Size(prog) - 1) : InstrAt(prog, i).op \in Branches \cup Calls}
    IN  {0} \cup {i + 1 : i \in transfers \ {Size(prog) - 1}}
            \cup (UNION {{prog.labels[l] : l \in Targets(InstrAt(prog, i))} : i \in transfers})
            \cup {prog.labels[l] : l \in {l \in DOMAIN prog.labels : prog.labels[l] < Size(prog)}}

\* The block of an instruction, and where a block ends.
BlockOf(prog, i) == Max({b \in Leaders(prog) : b <= i})
BlockEnd(prog, b) == Min({e \in Leaders(prog) \cup {Size(prog)} : e > b})

\* Variant: no branch falls through.
SuccessorsOfBranches(prog, b) ==
    LET end == BlockEnd(prog, b)
        last == InstrAt(prog, end - 1)
    IN  {i \in IF last.op \in Branches THEN {prog.labels[l] : l \in Targets(last)}
               ELSE IF last.op \in {"RET", "HALT"} THEN {} ELSE {end} : i < Size(prog)}


\* The successors verify() gives a block that is not empty.
Successors(prog, b) ==
    LET end == BlockEnd(prog, b)
        last == InstrAt(prog, end - 1)
        inside(i) == i < Size(prog)
    IN  {i \in IF last.op \in Branches THEN {prog.labels[l] : l \in Targets(last)} ELSE {} : inside(i)}
        \cup {i \in IF last.op \in {"JMP", "RET", "HALT"} THEN {} ELSE {end} : inside(i)}
=============================================================================
