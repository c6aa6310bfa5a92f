-------------------------- MODULE StatementParser --------------------------
(***************************************************************************)
(* parse_stmt, parse_compound_stmt and the function definitions of         *)
(* parser_parse (src/src/parse.c): the tree of the statements of a file,   *)
(* with the labels that the parser hands to the code generator.            *)
(*                                                                         *)
(* Every action reads the tokens up to the next statement; which tokens    *)
(* come is a choice.  The programs are those that C90 allows: that a       *)
(* break has a loop to leave, that cases and labels are new and that gotos *)
(* have a label is not looked at by the parser and is left to the input.   *)
(***************************************************************************)
EXTENDS Naturals, Sequences, FiniteSets, SequencesExt

CONSTANTS
  Values,        \* the values of cases, and of expressions
  Names,         \* the names of labels in the first function, in the second ...
  Statics,       \* the names of static local variables
  Bounds         \* a program stays in one of them: the kinds of statements,
                 \* the numbers of nodes, of functions, of static variables

ASSUME StatementsAssumption ==
  /\ 0 \in Values
  /\ \A b \in Bounds : b.functions <= Len(Names)

VARIABLES
  ast,           \* the nodes, in the order of their first tokens
  open,          \* the nodes of the activations of parse_stmt, outermost first
  switch_stack,
  label_seq,
  globals        \* the labels of the static local variables

parser == <<ast, open, switch_stack, label_seq, globals>>

Loops == {"while", "do", "for"}
Leaves == {"expr", "decl", "break", "continue", "return", "goto"}

\* gen_label: a prefix and a number.  No label yet.
Label(prefix, number) == <<prefix, number>>
None == <<>>

Node(kind, parts) ==
  [kind |-> kind, parts |-> parts, parent |-> 0, kids |-> <<>>, val |-> 0,
   name |-> "", brk |-> None, cnt |-> None, label |-> None,
   cases |-> <<>>, default_label |-> None]

Top == Last(open)
Function == Head(open)

\* parse_stmt is called for the node on top: a block takes any number of
\* statements, an if with an else two.
Expected ==
  /\ open # <<>>
  /\ LET node == ast[Top]
     IN CASE node.kind = "block" -> TRUE
          [] node.kind \in Leaves -> FALSE
          [] "else" \in node.parts -> Len(node.kids) < 2
          [] OTHER -> node.kids = <<>>

\* ... and the token it sees starts a statement of this kind.
Statement(kind) == Expected /\ (ast[Top].kind = "func" => kind = "block")

Functions(nodes) ==
  SelectSeq([n \in 1..Len(nodes) |-> n], LAMBDA n : nodes[n].kind = "func")

Within(nodes, statics) ==
  \E b \in Bounds :
    /\ Len(nodes) <= b.nodes /\ Len(statics) <= b.statics
    /\ Len(Functions(nodes)) <= b.functions
    /\ {nodes[n].kind : n \in 1..Len(nodes)} \subseteq b.kinds \cup {"func", "block"}

\* The names for labels of the function that is read.
NamesHere == Names[Len(Functions(ast))]

\* The node is made and becomes a part of the one on top, of the tree given.
Make(node, tree) ==
  LET new == Len(tree) + 1
      grown == Append([tree EXCEPT ![Top].kids = Append(@, new)],
                      [node EXCEPT !.parent = Top])
  IN /\ Within(grown, globals)
     /\ ast' = grown
     /\ open' = Append(open, new)

-----------------------------------------------------------------------------
Init == /\ ast = <<>> /\ open = <<>> /\ switch_stack = <<>>
        /\ label_seq = 1 /\ globals = <<>>

\* The head of a function definition.
ReadFunction ==
  /\ open = <<>>
  /\ ast' = Append(ast, Node("func", {}))
  /\ Within(ast', globals)
  /\ open' = <<Len(ast')>>
  /\ UNCHANGED <<switch_stack, label_seq, globals>>

\* An opening brace; a null statement is an empty block.
ReadBlock == /\ Statement("block")
             /\ Make(Node("block", {}), ast)
             /\ UNCHANGED <<switch_stack, label_seq, globals>>

\* An expression statement, or a declaration with an initializer.
ReadExpression ==
  \E kind \in {"expr", "decl"} :
    /\ Statement(kind)
    /\ kind = "decl" => ast[Top].kind = "block"
    /\ Make(Node(kind, {"expr"}), ast)
    /\ UNCHANGED <<switch_stack, label_seq, globals>>

\* The declaration of a static variable leaves nothing in the block.
ReadStatic ==
  \E name \in Statics :
    /\ Expected /\ ast[Top].kind = "block"
    /\ globals' = Append(globals, Label(name, label_seq))
    /\ Within(ast, globals')
    /\ label_seq' = label_seq + 1
    /\ UNCHANGED <<ast, open, switch_stack>>

ReadJump ==
  \E kind \in {"break", "continue"} :
    /\ Statement(kind)
    /\ \E n \in Range(open) :
         ast[n].kind \in IF kind = "break" THEN Loops \cup {"switch"} ELSE Loops
    /\ Make(Node(kind, {}), ast)
    /\ UNCHANGED <<switch_stack, label_seq, globals>>

ReadReturn ==
  \E parts \in {{}, {"expr"}} :
    /\ Statement("return")
    /\ Make(Node("return", parts), ast)
    /\ UNCHANGED <<switch_stack, label_seq, globals>>

ReadGoto ==
  /\ Statement("goto")
  /\ \E name \in NamesHere :
       Make([Node("goto", {}) EXCEPT !.name = name], ast)
  /\ UNCHANGED <<switch_stack, label_seq, globals>>

ReadLabel ==
  /\ Statement("label")
  /\ \E name \in NamesHere :
    /\ \A n \in Function..Len(ast) : ast[n].kind = "label" => ast[n].name # name
    /\ Make([Node("label", {}) EXCEPT !.name = name], ast)
  /\ UNCHANGED <<switch_stack, label_seq, globals>>

ReadIf == /\ Statement("if")
          /\ Make(Node("if", {"cond"}), ast)
          /\ UNCHANGED <<switch_stack, label_seq, globals>>

\* else follows the first statement of the if on top.
ReadElse == /\ open # <<>>
            /\ ast[Top].kind = "if" /\ Len(ast[Top].kids) = 1
            /\ "else" \notin ast[Top].parts
            /\ ast' = [ast EXCEPT ![Top].parts = @ \cup {"else"}]
            /\ UNCHANGED <<open, switch_stack, label_seq, globals>>

ReadLoop ==
  \E kind \in Loops :
    \E parts \in IF kind = "for" THEN SUBSET {"init", "cond", "step"}
                 ELSE {{"cond"}} :
      /\ Statement(kind)
      /\ Make([Node(kind, parts) EXCEPT !.brk = Label("brk", label_seq),
                                        !.cnt = Label("cnt", label_seq + 1)], ast)
      /\ label_seq' = label_seq + 2
      /\ UNCHANGED <<switch_stack, globals>>

ReadSwitch ==
  /\ Statement("switch")
  /\ Make([Node("switch", {"cond"}) EXCEPT !.brk = Label("brk", label_seq)], ast)
  /\ label_seq' = label_seq + 1
  /\ switch_stack' = Append(switch_stack, Len(ast'))
  /\ UNCHANGED globals

\* The node goes to the vector of the innermost switch, whatever is between.
ReadCase ==
  \E v \in Values :
    /\ Statement("case")
    /\ switch_stack # <<>>
    /\ LET sw == Last(switch_stack)
       IN /\ \A c \in Range(ast[sw].cases) : ast[c].val # v
          /\ Make([Node("case", {}) EXCEPT !.val = v,
                                           !.label = Label("case", label_seq)],
                  [ast EXCEPT ![sw].cases = Append(@, Len(ast) + 1)])
    /\ label_seq' = label_seq + 1
    /\ UNCHANGED <<switch_stack, globals>>

ReadDefault ==
  /\ Statement("default")
  /\ switch_stack # <<>>
  /\ LET sw == Last(switch_stack)
         label == Label("default", label_seq)
     IN /\ ast[sw].default_label = None
        /\ Make([Node("default", {}) EXCEPT !.label = label],
                [ast EXCEPT ![sw].default_label = label])
  /\ label_seq' = label_seq + 1
  /\ UNCHANGED <<switch_stack, globals>>

\* Mutant: the switch stays on the stack.
NeverPopped == switch_stack

\* vec_pop when the parse of a switch returns.
Popped == IF ast[Top].kind = "switch" THEN Front(switch_stack) ELSE switch_stack

\* The innermost activation returns: a block at its closing brace, an if where
\* no else follows, the others when they have what they take.
ReadEnd ==
  /\ open # <<>>
  /\ ast[Top].kind = "block" \/ ~Expected
  /\ ast[Top].kind = "func" =>
       \A n \in Top..Len(ast) : ast[n].kind = "goto" =>
         \E l \in Top..Len(ast) : ast[l].kind = "label" /\ ast[l].name = ast[n].name
  /\ open' = Front(open)
  /\ switch_stack' = Popped
  /\ UNCHANGED <<ast, label_seq, globals>>

Read == \/ ReadFunction \/ ReadBlock \/ ReadExpression \/ ReadStatic
        \/ ReadJump \/ ReadReturn \/ ReadGoto \/ ReadLabel
        \/ ReadIf \/ ReadElse \/ ReadLoop
        \/ ReadSwitch \/ ReadCase \/ ReadDefault \/ ReadEnd
=============================================================================
