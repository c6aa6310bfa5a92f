---------------------------- MODULE Statements ----------------------------
(***************************************************************************)
(* gen_stmt and gen_func_def of src/src/gen.c turn the tree of             *)
(* StatementParser into labels and jumps, and a machine runs them.         *)
(* src/src/gen_i386.c and src/src/gen_riscv32.c have the same statements   *)
(* with the compare and jump instructions of their machines.               *)
(*                                                                         *)
(* The three phases follow one another: the file is read, all of it is     *)
(* generated, one of its functions is called.  Expressions are opaque:     *)
(* each is one instruction that leaves some value in the result register.  *)
(***************************************************************************)
EXTENDS StatementParser

VARIABLES
  code,   \* the instructions and labels written, in their order
  pc,     \* of the machine: an expression, a return or a silent loop
  acc     \* the result register

vars == <<parser, code, pc, acc>>

-----------------------------------------------------------------------------
\* Instructions.
Mark(l)       == [op |-> "label", at |-> l]
Jump(op, l)   == [op |-> op, to |-> l]               \* jmp, je 0, jne 0
JumpIf(v, l)  == [op |-> "case", val |-> v, to |-> l]
Eval(n, part) == [op |-> "eval", place |-> [node |-> n, part |-> part]]
Return        == [op |-> "ret"]

User(name) == <<".L_user_", name>>   \* the assembler name of a label

(***************************************************************************)
(* The state of the generator: the code so far, the two stacks, the number *)
(* of the next label, the return label of the function.                    *)
(***************************************************************************)
Emit(g, is) == [g EXCEPT !.code = @ \o is]

EvalPart(g, n, part) ==
  IF part \in ast[n].parts THEN Emit(g, <<Eval(n, part)>>) ELSE g

\* Mutant: a switch pushes its break label for continue too.
PushBoth(g, n, loop) ==
  [g EXCEPT !.breaks = Append(@, ast[n].brk),
            !.continues = Append(@, IF loop THEN ast[n].cnt ELSE ast[n].brk)]

\* break_stack and continue_stack: a switch has a part in the first only.
Push(g, n, loop) ==
  [g EXCEPT !.breaks = Append(@, ast[n].brk),
            !.continues = IF loop THEN Append(@, ast[n].cnt) ELSE @]
Pop(g, loop) ==
  [g EXCEPT !.breaks = Front(@),
            !.continues = IF loop THEN Front(@) ELSE @]

\* A jump to the label on top of a stack, nothing when the stack is empty.
JumpTop(g, stack) ==
  IF stack = <<>> THEN g ELSE Emit(g, <<Jump("jmp", Last(stack))>>)

RECURSIVE GenStmt(_, _)

RECURSIVE GenBlock(_, _)
GenBlock(g, kids) ==
  IF kids = <<>> THEN g ELSE GenBlock(GenStmt(g, Head(kids)), Tail(kids))

\* Mutant: the test of an if always jumps to the else.
IfFalseElse(n, else, end) == else

\* Where the test of an if goes when it fails.
IfFalse(n, else, end) == IF Len(ast[n].kids) = 2 THEN else ELSE end

GenIf(g, n) ==
  LET node == ast[n]
      else == Label("if_else", g.labels)
      end  == Label("if_end", g.labels + 1)
      two  == Len(node.kids) = 2
      test == Emit([g EXCEPT !.labels = @ + 2],
                   <<Eval(n, "cond"), Jump("jz", IfFalse(n, else, end))>>)
      then == GenStmt(test, node.kids[1])
  IN Emit(IF two
          THEN GenStmt(Emit(then, <<Jump("jmp", end), Mark(else)>>), node.kids[2])
          ELSE then,
          <<Mark(end)>>)

GenWhile(g, n) ==
  LET node  == ast[n]
      start == Label("while_start", g.labels)
      test  == Emit(Push([g EXCEPT !.labels = @ + 1], n, TRUE),
                    <<Mark(start), Mark(node.cnt), Eval(n, "cond"),
                      Jump("jz", node.brk)>>)
  IN Pop(Emit(GenStmt(test, node.kids[1]),
              <<Jump("jmp", start), Mark(node.brk)>>), TRUE)

GenDoWhile(g, n) ==
  LET node  == ast[n]
      start == Label("do_start", g.labels)
      body  == GenStmt(Emit(Push([g EXCEPT !.labels = @ + 1], n, TRUE),
                            <<Mark(start)>>), node.kids[1])
  IN Pop(Emit(body, <<Mark(node.cnt), Eval(n, "cond"), Jump("jnz", start),
                      Mark(node.brk)>>), TRUE)

GenFor(g, n) ==
  LET node  == ast[n]
      start == Label("for_start", g.labels)
      init  == EvalPart(Push([g EXCEPT !.labels = @ + 1], n, TRUE), n, "init")
      test  == EvalPart(Emit(init, <<Mark(start)>>), n, "cond")
      body  == GenStmt(IF "cond" \in node.parts
                       THEN Emit(test, <<Jump("jz", node.brk)>>) ELSE test,
                       node.kids[1])
      step  == EvalPart(Emit(body, <<Mark(node.cnt)>>), n, "step")
  IN Pop(Emit(step, <<Jump("jmp", start), Mark(node.brk)>>), TRUE)

GenSwitch(g, n) ==
  LET node  == ast[n]
      tests == [k \in 1..Len(node.cases) |->
                  JumpIf(ast[node.cases[k]].val, ast[node.cases[k]].label)]
      other == IF node.default_label # None THEN node.default_label ELSE node.brk
      head  == Emit(Push(g, n, FALSE),
                    <<Eval(n, "cond")>> \o tests \o <<Jump("jmp", other)>>)
  IN Pop(Emit(GenStmt(head, node.kids[1]), <<Mark(node.brk)>>), FALSE)

GenStmt(g, n) ==
  LET node == ast[n]
  IN CASE node.kind = "block"    -> GenBlock(g, node.kids)
       [] node.kind \in {"expr", "decl"} -> EvalPart(g, n, "expr")
       [] node.kind = "if"       -> GenIf(g, n)
       [] node.kind = "while"    -> GenWhile(g, n)
       [] node.kind = "do"       -> GenDoWhile(g, n)
       [] node.kind = "for"      -> GenFor(g, n)
       [] node.kind = "switch"   -> GenSwitch(g, n)
       [] node.kind \in {"case", "default"} ->
            GenStmt(Emit(g, <<Mark(node.label)>>), node.kids[1])
       [] node.kind = "break"    -> JumpTop(g, g.breaks)
       [] node.kind = "continue" -> JumpTop(g, g.continues)
       [] node.kind = "return"   ->
            Emit(EvalPart(g, n, "expr"), <<Jump("jmp", g.func_ret_label)>>)
       [] node.kind = "goto"     -> Emit(g, <<Jump("jmp", User(node.name))>>)
       [] node.kind = "label"    ->
            GenStmt(Emit(g, <<Mark(User(node.name))>>), node.kids[1])

\* The function's own name is a label too.
GenFuncDef(g, n) ==
  LET ret  == Label("ret", g.labels)
      body == GenStmt(Emit([g EXCEPT !.labels = @ + 1, !.func_ret_label = ret],
                           <<Mark(<<"func", n>>)>>), ast[n].kids[1])
  IN Emit(body, <<Mark(ret), Return>>)

RECURSIVE GenFunctions(_, _)
GenFunctions(g, fs) ==
  IF fs = <<>> THEN g ELSE GenFunctions(GenFuncDef(g, Head(fs)), Tail(fs))

\* codegen_generate: the variables come first, then the functions.
CodegenNew == [code |-> <<>>, breaks |-> <<>>, continues |-> <<>>,
               labels |-> 1, func_ret_label |-> None]

Generated ==
  GenFunctions(Emit(CodegenNew, [k \in 1..Len(globals) |-> Mark(globals[k])]),
               Functions(ast))

Generate == /\ code = <<>> /\ open = <<>> /\ ast # <<>>
            /\ code' = Generated.code
            /\ UNCHANGED <<parser, pc, acc>>

-----------------------------------------------------------------------------
\* The assembler and the machine.
Marked(l) == {i \in 1..Len(code) : code[i] = Mark(l)}
Labels == {code[i].at : i \in {j \in 1..Len(code) : code[j].op = "label"}}
Targets == {code[i].to : i \in {j \in 1..Len(code) : "to" \in DOMAIN code[j]}}

(***************************************************************************)
(* The assembler takes the file: no label is defined twice and no jump     *)
(* goes to a label that is not there.                                      *)
(***************************************************************************)
Assembles == /\ \A l \in Labels : Cardinality(Marked(l)) = 1
             /\ Targets \subseteq Labels

\* From instruction i on to the next expression or return, or round a loop.
Settle(i, a) ==
  LET taken(ins) == CASE ins.op = "jmp"  -> TRUE
                      [] ins.op = "jz"   -> a = 0
                      [] ins.op = "jnz"  -> a # 0
                      [] ins.op = "case" -> a = ins.val
                      [] OTHER -> FALSE
      after(j) == IF code[j].op \in {"eval", "ret"} THEN j
                  ELSE IF taken(code[j])
                  THEN CHOOSE k \in Marked(code[j].to) : TRUE ELSE j + 1
      walk[j \in 1..Len(code), left \in 0..Len(code)] ==
        IF left = 0 \/ code[j].op \in {"eval", "ret"} THEN j
        ELSE walk[after(j), left - 1]
  IN walk[i, Len(code)]

\* A function of the program is called, when the assembler has taken it.
Call == /\ code # <<>> /\ pc = 0 /\ Assembles
        /\ \E f \in Range(Functions(ast)) :
             pc' = Settle(CHOOSE i \in Marked(<<"func", f>>) : TRUE, acc)
        /\ UNCHANGED <<parser, code, acc>>

\* An expression is evaluated, and the machine goes on to the next.
Execute == /\ pc # 0 /\ code[pc].op = "eval"
           /\ \E v \in Values : acc' = v /\ pc' = Settle(pc + 1, v)
           /\ UNCHANGED <<parser, code>>

-----------------------------------------------------------------------------
SInit == Init /\ code = <<>> /\ pc = 0 /\ acc = 0

Reading == code = <<>> /\ Read /\ UNCHANGED <<code, pc, acc>>

Next == Reading \/ Generate \/ Call \/ Execute

Spec == SInit /\ [][Next]_vars

-----------------------------------------------------------------------------
\* Where the machine is, in terms of the source.
Place == IF pc = 0 THEN [node |-> 0, part |-> "idle"]
         ELSE CASE code[pc].op = "eval" -> code[pc].place
                [] code[pc].op = "ret"  -> [node |-> 0, part |-> "done"]
                [] OTHER -> [node |-> 0, part |-> "silent"]

Structured == INSTANCE StructuredControl WITH at <- Place

(***************************************************************************)
(* The code of gen_stmt evaluates the expressions of a function in the     *)
(* order of its statements: loops, switches that fall through, break and   *)
(* continue out of what is nested, goto into and out of it.                *)
(***************************************************************************)
ImplementsStructure == Structured!Spec

(***************************************************************************)
(* The parser's stack of switches is the switches that are open, so that a *)
(* case goes to the innermost one (parse.c:1529-1560).                     *)
(***************************************************************************)
SwitchesOpen ==
  switch_stack = SelectSeq(open, LAMBDA n : ast[n].kind = "switch")
=============================================================================
