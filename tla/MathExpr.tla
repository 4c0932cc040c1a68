------------------------------ MODULE MathExpr ------------------------------
(***************************************************************************)
(* The mathematical expressions of Parsers/MExpr.c: from the tokens on the *)
(* undo stack to postfix, from there to a tree, and the tree's value, with *)
(* the bounded stack of stack/stack.c.                                     *)
(*                                                                         *)
(* Numbers are doubles in the program.  Here they are integers that        *)
(* Computed does the arithmetic on; which number is the larger, and what   *)
(* may not be divided by, the code says itself.                            *)
(***************************************************************************)
EXTENDS Integers, Sequences, SequencesExt

CONSTANTS
  MAX_STACK_SIZE,
  Computed(_, _, _),  \* +, -, *, /, pow, sin and sqrt of doubles; the last two of the first only
  atoi(_),            \* of the text of a number
  NULL

ASSUME StackAssumption == MAX_STACK_SIZE \in Nat \ {0}

UnaryOperators == {"SQL_MATH_SIN", "SQL_MATH_SQR", "SQL_MATH_SQRT"}
BinaryOperators == {"SQL_MATH_MAX", "SQL_MATH_MIN", "SQL_MATH_PLUS", "SQL_MATH_MINUS",
                    "SQL_MATH_MUL", "SQL_MATH_DIV", "SQL_MATH_POW"}
Variables == {"SQL_IDENTIFIER", "SQL_IDENTIFIER_IDENTIFIER"}
Numbers == {"SQL_INTEGER_VALUE", "SQL_DOUBLE_VALUE"}

Math_is_unary_operator(x) == x.code \in UnaryOperators
Math_is_binary_operator(x) == x.code \in BinaryOperators
Math_is_operator(x) == Math_is_unary_operator(x) \/ Math_is_binary_operator(x) \/ x.code = "BRACK_START"

Math_operator_precedence(x) ==
  CASE x.code = "BRACK_START" -> 0
    [] x.code \in UnaryOperators -> 1
    [] x.code \in {"SQL_MATH_PLUS", "SQL_MATH_MINUS"} -> 2
    [] x.code \in {"SQL_MATH_MUL", "SQL_MATH_DIV"} -> 3
    [] OTHER -> 4

mexpr_is_white_space(x) == x.code \in {"0", "YY_NULL", "EOL", "WHITE_SPACE"}

-----------------------------------------------------------------------------
(* stack.c, with a flag for a write behind the slots: there is room for    *)
(* MAX_STACK_SIZE, and push still takes one more.                          *)

get_new_stack == [slot |-> <<>>, wild |-> FALSE]

push(stack, node) ==
  IF Len(stack.slot) > MAX_STACK_SIZE THEN stack
  ELSE [slot |-> Append(stack.slot, node), wild |-> stack.wild \/ Len(stack.slot) = MAX_STACK_SIZE]

isStackEmpty(stack) == stack.slot = <<>>
StackGetTopElem(stack) == IF isStackEmpty(stack) THEN NULL ELSE Last(stack.slot)

\* pop, as often as n says; from an empty stack it takes nothing.
Popped(stack, n) ==
  [stack EXCEPT !.slot = SubSeq(@, 1, IF n > Len(@) THEN 0 ELSE Len(@) - n)]

-----------------------------------------------------------------------------
(* Infix to postfix.  The state is what has been put out, and the stack of *)
(* operators and brackets.                                                 *)

IsBracket(x) == x.code = "BRACK_START"

PushOperator(p, x) == [p EXCEPT !.stack = push(@, x)]
PutOut(p, x) == [p EXCEPT !.out = Append(@, x)]

\* What is on the top, as long as it is Due, is put out.
PopWhile(p, Due(_)) ==
  LET slot == p.stack.slot
      kept == CHOOSE k \in 0 .. Len(slot) : /\ \A i \in k + 1 .. Len(slot) : Due(slot[i])
                                            /\ k > 0 => ~Due(slot[k])
  IN  [out |-> p.out \o Reverse(SubSeq(slot, kept + 1, Len(slot))),
       stack |-> Popped(p.stack, Len(slot) - kept)]

UpToBracket(p) == PopWhile(p, LAMBDA y : ~IsBracket(y))
DropBracket(p) == [p EXCEPT !.stack = Popped(@, 1)]
BracketClosed(p) == PopWhile(DropBracket(UpToBracket(p)), Math_is_unary_operator)

(* Wrong: operators of the same precedence wait for the later one.         *)
WaitsForEqual(x, y) ==
  ~Math_is_unary_operator(x) /\ Math_operator_precedence(x) < Math_operator_precedence(y)

\* Operator y, on the stack, is carried out before the new one.
GoesBefore(x, y) ==
  ~Math_is_unary_operator(x) /\ Math_operator_precedence(x) <= Math_operator_precedence(y)

IsOperand(x) ==
  ~Math_is_operator(x) /\ ~mexpr_is_white_space(x) /\ x.code \notin {"BRACK_END", "COMMA"}

Converted(p, x) ==
  CASE mexpr_is_white_space(x)  -> p
    [] IsBracket(x)             -> PushOperator(p, x)
    [] x.code = "BRACK_END"     -> BracketClosed(p)
    [] x.code = "COMMA"         -> UpToBracket(p)
    [] IsOperand(x)             -> PutOut(p, x)
    [] OTHER -> PushOperator(PopWhile(p, LAMBDA y : GoesBefore(x, y)), x)

mexpr_convert_infix_to_postfix(infix) ==
  PopWhile(FoldLeft(Converted, [out |-> <<>>, stack |-> get_new_stack], infix), LAMBDA y : TRUE)

-----------------------------------------------------------------------------
(* Postfix to the tree.  A node keeps its token.  The open brackets that   *)
(* were left over are passed over.                                         *)

Leaf(x) == [token |-> x, left |-> NULL, right |-> NULL]
UnaryNode(x, stack) == [token |-> x, left |-> StackGetTopElem(stack), right |-> NULL]
BinaryNode(x, stack) ==
  [token |-> x, left |-> StackGetTopElem(Popped(stack, 1)), right |-> StackGetTopElem(stack)]

Built(stack, x) ==
  CASE ~Math_is_operator(x)       -> push(stack, Leaf(x))
    [] Math_is_binary_operator(x) -> push(Popped(stack, 2), BinaryNode(x, stack))
    [] Math_is_unary_operator(x)  -> push(Popped(stack, 1), UnaryNode(x, stack))
    [] OTHER                      -> stack

NodesBuilt(postfix) == FoldLeft(Built, get_new_stack, postfix)

\* The two asserts on the way: an operand is a number or a name, and one node is left.
mexpr_create_mexpt_node_asserts(postfix) ==
  \A k \in DOMAIN postfix : Math_is_operator(postfix[k]) \/ postfix[k].code \in Variables \cup Numbers
OneNodeLeft(stack) == isStackEmpty(Popped(stack, 1))

-----------------------------------------------------------------------------
(* The value: rc is "true", "false" if there is none, or "assert" when an  *)
(* assert of the evaluation fails.                                         *)

Resolved(v) == [rc |-> "true", ovalue |-> v]
NoValue == [rc |-> "false", ovalue |-> 0]
Asserted == [rc |-> "assert", ovalue |-> 0]

\* Nothing ever resolves a name.
LeafValue(x) ==
  IF Math_is_operator(x) THEN Asserted
  ELSE IF x.code \in Variables THEN NoValue ELSE Resolved(atoi(x.val))

Applied(op, l, r) ==
  CASE op = "SQL_MATH_MAX" -> IF l < r THEN r ELSE l
    [] op = "SQL_MATH_MIN" -> IF l < r THEN l ELSE r
    [] op = "SQL_MATH_SQR" -> Computed("SQL_MATH_MUL", l, l)
    [] OTHER -> Computed(op, l, r)

NodeValue(x, lrc, rrc) ==
  IF lrc.rc # "true" \/ rrc.rc # "true" \/ (x.code = "SQL_MATH_DIV" /\ rrc.ovalue = 0)
    THEN NoValue ELSE Resolved(Applied(x.code, lrc.ovalue, rrc.ovalue))

\* A node with a right child only is a full one, and only a binary operator has one.
FromChildren(root, lrc, rrc) ==
  IF "assert" \in {lrc.rc, rrc.rc} THEN Asserted
  ELSE IF root.left = NULL /\ root.right = NULL THEN LeafValue(root.token)
  ELSE IF root.right # NULL THEN NodeValue(root.token, lrc, rrc)
  ELSE IF Math_is_unary_operator(root.token) THEN NodeValue(root.token, lrc, lrc) ELSE Asserted

RECURSIVE mexpt_evaluate(_)
mexpt_evaluate(root) ==
  IF root = NULL THEN NoValue
  ELSE FromChildren(root, mexpt_evaluate(root.left), mexpt_evaluate(root.right))

=============================================================================
