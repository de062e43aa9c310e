---------------------------- MODULE CodegenStack ----------------------------
(***************************************************************************)
(* The code generator (gen_func, gen_stmt, gen_expr, gen_lval in           *)
(* codegen.c) as an emitter for a stack machine: how far rsp is below the  *)
(* frame at each emitted instruction, the generator's own stack_depth, the *)
(* labels placed and jumped to, and whether rax still agrees with the top  *)
(* of the stack.                                                           *)
(*                                                                         *)
(* The syntax tree is not a constant: at each place the generator may meet *)
(* any node that parser and semantic pass allow there.  A node's emission  *)
(* is a sequence of steps; instructions that leave rsp, the top word and   *)
(* the correspondence of rax to it alone are left out.                     *)
(***************************************************************************)
EXTENDS Integers, SequencesExt

CONSTANTS MaxArgs,      \* arguments of a call
          MaxParams,    \* parameters of a function
          MaxParts,     \* statements of a block or switch, elements of an array
          LocalBytes,   \* frame bytes of a function's local variables
          Variadic,     \* whether functions are: {FALSE}, {TRUE} or both
          Shapes,       \* which of the expressions below the trees contain
          MaxFuncs, MaxDepth, MaxLabels    \* bounds of the instance

ASSUME CodegenAssumption ==
  /\ LocalBytes \subseteq Nat
  /\ Variadic \subseteq BOOLEAN
  /\ {MaxArgs, MaxParams, MaxParts, MaxFuncs, MaxDepth, MaxLabels} \subseteq Nat

VARIABLES
  phase,         \* "next": between functions, "body": inside gen_func
  todo,          \* functions main has still to generate
  offset,        \* func->offset, from the semantic pass
  calls,         \* active gen_stmt, gen_expr and gen_lval calls
  rsp,           \* bytes from rsp up to rbp where the emitted code stands, Dead if it cannot stand there
  agrees,        \* how rax relates to the word at rsp
  stack_depth,
  label_num,
  names,         \* numbers the semantic pass has given to loops and switches so far
  placed,        \* the labels written to the assembly file
  arrivals       \* how control reaches the labels of the active calls, by a jump or by falling through

emitted == <<rsp, agrees>>
numbers == <<label_num, names>>
labels == <<placed, arrivals>>
vars == <<phase, todo, offset, calls, emitted, stack_depth, numbers, labels>>

-----------------------------------------------------------------------------
(* The steps a node's emission is made of.                                 *)

Dead == -1
Word == 8

\* A label is a base, a suffix and the number its base carries.
Label(base, suffix, n) == [base |-> base, suffix |-> suffix, num |-> n]
NoLabel == Label("none", "none", 0)

Step(op) == [op |-> op, label |-> NoLabel]
Expr == Step("expr")         \* gen_expr on a child
Lval == Step("lval")         \* gen_lval on a child
Stmt == Step("stmt")         \* gen_stmt on a child
ForInit == Step("init")      \* gen_stmt on what a for starts with
Push == Step("push")         \* push rax, or push the constant just moved to rax
Pop == Step("pop")           \* pop into a register
SetOne == Step("one")        \* pop rax, push 1: the word popped is known to be nonzero
Top == Step("top")           \* the word at rsp and rax made equal
Other == Step("other")       \* a register other than rax written to the word at rsp
Test == Step("test")         \* rax compared with 0, its word still on the stack
Use == Step("use")           \* rax used as the value of the child just generated
Load == Step("load")         \* rax read as the address that a child, or gen_lval, has pushed
Track == Step("track")       \* stack_depth += 8
Untrack == Step("untrack")   \* stack_depth -= 8
Call == Step("call")         \* sub rsp, diff; call; add rsp, diff
Number == Step("number")     \* label_num++ that names nothing
Pass == Step("pass")         \* a clause that is missing, a statement that is no case

JumpIf(l) == [op |-> "jumpif", label |-> l]
Jump(l) == [op |-> "jump", label |-> l]
Place(l) == [op |-> "place", label |-> l]

\* The same steps for each of n children.
Each(n, steps) == [k \in 1..(n * Len(steps)) |-> steps[((k - 1) % Len(steps)) + 1]]

\* A step of a clause that may be missing.
When(present, step) == IF present THEN step ELSE Pass

-----------------------------------------------------------------------------
(* gen_lval and gen_expr.                                                  *)

\* Constants and variables, sizeof, va_start; as lvalues, variables.
Leaf == <<Push>>

LvalDeref == <<Expr>>
LvalAttr == <<Lval, Pop, Push>>

\* Mutant: the value of the left operand stays on the stack.
CommaKept == <<Expr, Expr>>

Comma == <<Expr, Pop, Expr>>

Assign == <<Lval, Track, Expr, Untrack, Pop, Top>>

\* Arguments stay on the stack until all are there.
CallWith(arg, args) == Each(args, arg) \o Each(args, <<Pop>>) \o <<Call, Push>>

CallOf(args) == CallWith(<<Expr>>, args)

\* A char argument of a wider parameter is extended in rax and written back.
WideningCall(args) == CallWith(<<Expr, Use, Top>>, args)

Deref == <<Expr, Load, Top>>
AddrOf == <<Lval>>
Attr == <<Lval, Load, Top>>
Cast == <<Expr>>
Not == <<Expr, Test, Top>>
Complement == <<Expr, Use, Top>>

Cond(n) == <<Expr, Pop, JumpIf(Label("cond", "_else", n)),
             Expr, Jump(Label("cond", "_end", n)), Place(Label("cond", "_else", n)),
             Expr, Place(Label("cond", "_end", n))>>

\* Mutant: the left operand is popped ahead of the jump that keeps it.
LogAndPopped(n) == <<Expr, Test, Pop, JumpIf(Label("Land", "_end", n)),
                     Expr, Test, JumpIf(Label("Land", "_end", n)), SetOne,
                     Place(Label("Land", "_end", n))>>

LogAnd(n) == <<Expr, Test, JumpIf(Label("Land", "_end", n)), Pop,
               Expr, Test, JumpIf(Label("Land", "_end", n)), SetOne,
               Place(Label("Land", "_end", n))>>

LogOr(n) == <<Expr, Test, JumpIf(Label("Lor", "_true", n)), Pop,
              Expr, Test, JumpIf(Label("Lor", "_end", n)),
              Place(Label("Lor", "_true", n)), SetOne,
              Place(Label("Lor", "_end", n))>>

PreIncr == <<Lval, Load, Top>>

\* Mutant: rax is left with the address.
PostIncrNoReload == <<Lval, Load, Other>>

PostIncr == <<Lval, Load, Other, Top>>

\* Mutant: stack_depth is not taken back.
ShiftDrift == <<Expr, Track, Expr, Pop, Top>>

Shift == <<Expr, Track, Expr, Untrack, Pop, Top>>
ShiftAssign == <<Lval, Track, Expr, Untrack, Pop, Top>>

Binary == <<Expr, Expr, Pop, Top>>
BinaryAssign == <<Lval, Expr, Pop, Top>>

Lvals == {Leaf, LvalDeref, LvalAttr}

Exprs == {Leaf, Comma, Assign, Deref, AddrOf, Attr, Cast, Not, Complement,
          PreIncr, PostIncr, Shift, ShiftAssign, Binary, BinaryAssign}
           \cup {CallOf(args) : args \in 0..MaxArgs}
           \cup {WideningCall(args) : args \in 1..MaxArgs}

ASSUME ShapesAssumption == Shapes \subseteq Exprs

NumberedExprs(n) == {Cond(n), LogAnd(n), LogOr(n)}

-----------------------------------------------------------------------------
(* gen_stmt.                                                               *)

ExprStmt == <<Expr, Pop>>

\* Mutant: stack_depth is taken back although it was not raised.
VarDeclUntracked == <<Push, Expr, Untrack, Pop, Pop>>

\* The variable itself is the lvalue: gen_lval pushes its address.
VarDecl == <<Push, Track, Expr, Untrack, Pop, Pop>>

VarDeclBare == <<>>

\* Mutant: stack_depth is not taken back after an element.
VarDeclArrayDrift(elems) == Each(elems, <<Push, Top, Track, Expr, Pop, Pop>>)

VarDeclArray(elems) == Each(elems, <<Push, Top, Track, Expr, Untrack, Pop, Pop>>)

ReturnLabel == Label("f", "_return", todo)

Return == <<Expr, Use, Jump(ReturnLabel)>>
ReturnVoid == <<Jump(ReturnLabel)>>

If(n) == <<Expr, Pop, JumpIf(Label("end_if", "none", n)), Stmt, Place(Label("end_if", "none", n))>>

IfElse(n) == <<Expr, Pop, JumpIf(Label("else", "none", n)),
               Stmt, Jump(Label("end_if", "none", n)), Place(Label("else", "none", n)),
               Stmt, Place(Label("end_if", "none", n))>>

\* Loops and switches have the name the semantic pass gave them.
Cont(base, n) == Label(base, "_cont", n)
End(base, n) == Label(base, "_end", n)
Start(base, n) == Label(base, "none", n)

While(n) == <<Place(Cont("while", n)), Expr, Pop, JumpIf(End("while", n)),
              Stmt, Jump(Cont("while", n)), Place(End("while", n))>>

\* The clauses a for statement has.
For(clauses, n) ==
  <<When("init" \in clauses, ForInit), Place(Start("for", n)),
    When("cond" \in clauses, Expr), When("cond" \in clauses, Pop),
    When("cond" \in clauses, JumpIf(End("for", n))),
    Stmt, Place(Cont("for", n)),
    When("step" \in clauses, Expr), When("step" \in clauses, Pop),
    Jump(Start("for", n)), Place(End("for", n))>>

DoWhile(n) == <<Place(Start("dowhile", n)), Stmt, Place(Cont("dowhile", n)),
                Expr, Pop, JumpIf(Start("dowhile", n)), Place(End("dowhile", n)), Number>>

Block(stmts) == Each(stmts, <<Stmt>>)

\* The case labels have the numbers after the one of their switch.
Switch(items, n) ==
  LET label(i) == Label(items[i], "none", n + i)
      Default(i) == items[i] = "default" /\ \A j \in 1..(i - 1) : items[j] # "default"
      fallback == IF \E i \in DOMAIN items : Default(i)
                  THEN label(CHOOSE i \in DOMAIN items : Default(i))
                  ELSE End("switch", n)
  IN  <<Expr, Pop>>
        \o [i \in DOMAIN items |-> When(items[i] = "case", JumpIf(label(i)))]
        \o <<Jump(fallback)>>
        \o [i \in DOMAIN items |-> IF items[i] = "stmt" THEN Stmt ELSE Place(label(i))]
        \o <<Place(End("switch", n))>>

\* What a for may start with: a declaration of one variable, with a list too.
Inits == {ExprStmt, VarDecl, VarDeclBare} \cup {VarDeclArray(elems) : elems \in 0..MaxParts}

Stmts == {ExprStmt, VarDecl, VarDeclBare, Return, ReturnVoid}
           \cup {VarDeclArray(elems) : elems \in 0..MaxParts}
           \cup {Block(stmts) : stmts \in 0..MaxParts}

NumberedStmts(n) == {If(n), IfElse(n)}

-----------------------------------------------------------------------------
(* The recursion of the generator.                                         *)

\* base and depth are rsp and stack_depth when the call is made; breaks and
\* continues are the labels that a break or continue directly inside jumps to.
Frame(kind, steps, breaks, continues) ==
  [kind |-> kind, steps |-> steps, pc |-> 1,
   base |-> rsp, depth |-> IF calls = <<>> THEN offset ELSE stack_depth,
   breaks |-> breaks, continues |-> continues]

Running == calls # <<>> /\ Last(calls).pc <= Len(Last(calls).steps)
Current == Last(calls).steps[Last(calls).pc]
At(op) == Running /\ Current.op = op

Advanced == [calls EXCEPT ![Len(calls)].pc = @ + 1]

Childless(steps) == \A i \in DOMAIN steps : steps[i].op \notin {"expr", "lval", "stmt", "init"}

\* A call for a child, or for the next statement of the function.
Enter(op, frame) ==
  /\ Len(calls) < MaxDepth \/ Childless(frame.steps)
  /\ \/ /\ At(op)
        /\ calls' = Append(Advanced, frame)
        /\ UNCHANGED stack_depth
     \/ /\ op = "stmt" /\ phase = "body" /\ calls = <<>>
        /\ calls' = <<frame>>
        /\ stack_depth' = offset
  /\ UNCHANGED <<phase, todo, offset, emitted, labels>>

Plain(kind, steps) == Frame(kind, steps, NoLabel, NoLabel)

GenLval(steps) == Enter("lval", Plain("lval", steps)) /\ UNCHANGED numbers

GenExpr(steps) == Enter("expr", Plain("expr", steps)) /\ UNCHANGED numbers

GenInit(steps) == Enter("init", Plain("stmt", steps)) /\ UNCHANGED numbers

GenStmt(steps) == Enter("stmt", Plain("stmt", steps)) /\ UNCHANGED numbers

\* Mutant: the number is read and not used up.
TakeLabelRead == label_num < MaxLabels /\ UNCHANGED numbers

TakeLabel == label_num < MaxLabels /\ label_num' = label_num + 1 /\ UNCHANGED names

GenNumberedExpr(steps) == Enter("expr", Plain("expr", steps)) /\ TakeLabel

GenNumberedStmt(steps) == Enter("stmt", Plain("stmt", steps)) /\ TakeLabel

GenLoop(base, steps) ==
  /\ Enter("stmt", Frame("stmt", steps, End(base, names), Cont(base, names)))
  /\ names < MaxLabels /\ names' = names + 1 /\ UNCHANGED label_num

GenSwitch(items) ==
  /\ Enter("stmt", Frame("stmt", Switch(items, names), End("switch", names), NoLabel))
  /\ names < MaxLabels /\ names' = names + 1 + Len(items) /\ UNCHANGED label_num

\* node->name of a break or continue is the label of the innermost target.
GenBreak ==
  \E i \in DOMAIN calls :
    /\ calls[i].breaks # NoLabel
    /\ \A j \in (i + 1)..Len(calls) : calls[j].breaks = NoLabel
    /\ GenStmt(<<Jump(calls[i].breaks)>>)

GenContinue ==
  \E i \in DOMAIN calls :
    /\ calls[i].continues # NoLabel
    /\ \A j \in (i + 1)..Len(calls) : calls[j].continues = NoLabel
    /\ GenStmt(<<Jump(calls[i].continues)>>)

Names(call, l) == \E i \in DOMAIN call.steps : call.steps[i].label = l

Leave == /\ calls # <<>> /\ ~Running
         /\ calls' = Front(calls)
         /\ arrivals' = {a \in arrivals : \E i \in DOMAIN calls' : Names(calls[i], a.label)}
         /\ UNCHANGED <<phase, todo, offset, emitted, stack_depth, numbers, placed>>

-----------------------------------------------------------------------------
(* The instructions.                                                       *)

Quiet == UNCHANGED <<phase, todo, offset, stack_depth, numbers>>

Moved(bytes) == IF rsp = Dead THEN Dead ELSE rsp + bytes

\* Where rsp and rax stand after an instruction.
Emit(bytes, relation) ==
  /\ calls' = Advanced
  /\ rsp' = Moved(bytes)
  /\ agrees' = relation
  /\ UNCHANGED labels
  /\ Quiet

EmitPush == At("push") /\ Emit(Word, "same")

EmitPop == At("pop") /\ Emit(-Word, "no")

EmitOne == At("one") /\ Emit(0, "truth")

EmitTop == At("top") /\ Emit(0, "same")

EmitOther == At("other") /\ Emit(0, "no")

EmitRead == (At("test") \/ At("use") \/ At("load") \/ At("pass")) /\ Emit(0, agrees)

\* The call clobbers rax and leaves rsp where it was.
EmitCall == At("call") /\ Emit(0, "no")

TrackDepth == /\ At("track") \/ At("untrack")
              /\ calls' = Advanced
              /\ stack_depth' = stack_depth + (IF At("track") THEN Word ELSE -Word)
              /\ UNCHANGED <<phase, todo, offset, emitted, numbers, labels>>

SkipNumber == /\ At("number")
              /\ label_num' = label_num + 1
              /\ calls' = Advanced
              /\ UNCHANGED <<phase, todo, offset, emitted, stack_depth, names, labels>>

\* Control reaches a label from here, unless the place itself is never reached.
\* Behind the return label rsp is taken from rbp: how it is reached does not matter.
Arrival(l) == IF rsp = Dead \/ l = ReturnLabel THEN {}
              ELSE {[label |-> l, rsp |-> rsp, agrees |-> agrees]}

EmitJump == /\ At("jump") \/ At("jumpif")
            /\ calls' = Advanced
            /\ arrivals' = arrivals \cup Arrival(Current.label)
            /\ rsp' = IF At("jump") THEN Dead ELSE rsp
            /\ UNCHANGED <<agrees, placed>>
            /\ Quiet

Weakest(relations) == IF "no" \in relations THEN "no"
                      ELSE IF "truth" \in relations THEN "truth" ELSE "same"

EmitLabel == /\ At("place")
             /\ calls' = Advanced
             /\ placed' = placed \cup {Current.label}
             /\ arrivals' = arrivals \cup Arrival(Current.label)
             /\ LET here == {a \in arrivals' : a.label = Current.label}
                IN  /\ rsp' = IF here = {} THEN Dead ELSE (CHOOSE a \in here : TRUE).rsp
                    /\ agrees' = Weakest({a.agrees : a \in here})
             /\ Quiet

-----------------------------------------------------------------------------
(* gen_func, and the loop of main over the functions.                      *)

VarargsBytes == 56

\* push rbp is above the frame; the parameters are pushed from their registers.
GenFunc(params, varargs, locals) ==
  LET saved == IF varargs THEN VarargsBytes ELSE 0
      frame == saved + Word * params + locals
      local_vars_space == frame - Word * params - saved
  IN  /\ phase = "next" /\ todo > 0
      /\ phase' = "body"
      /\ offset' = frame
      /\ rsp' = saved + Word * params + local_vars_space
      /\ agrees' = "no"
      /\ stack_depth' = 0
      /\ arrivals' = {}
      /\ UNCHANGED <<todo, calls, numbers, placed>>

\* The return label; rsp and rbp are restored behind it.
FinishFunc == /\ phase = "body" /\ calls = <<>>
              /\ phase' = "next"
              /\ todo' = todo - 1
              /\ rsp' = Dead
              /\ placed' = placed \cup {ReturnLabel}
              /\ arrivals' = {}
              /\ UNCHANGED <<offset, calls, agrees, stack_depth, numbers>>

SkipExtern == /\ phase = "next" /\ todo > 0
              /\ todo' = todo - 1
              /\ stack_depth' = 0
              /\ UNCHANGED <<phase, offset, calls, emitted, numbers, labels>>

-----------------------------------------------------------------------------
(* The specification.                                                      *)

SwitchItems == UNION {[1..n -> {"case", "default", "stmt"}] : n \in 0..MaxParts}

Init == /\ phase = "next" /\ todo = MaxFuncs
        /\ offset = 0 /\ calls = <<>>
        /\ rsp = Dead /\ agrees = "no"
        /\ stack_depth = 0
        /\ label_num = 0 /\ names = 0
        /\ placed = {} /\ arrivals = {}

Functions == \/ \E params \in 0..MaxParams, varargs \in Variadic, locals \in LocalBytes :
                  GenFunc(params, varargs, locals)
             \/ FinishFunc
             \/ SkipExtern

Expressions == \/ \E steps \in Lvals : GenLval(steps)
               \/ \E steps \in Shapes : GenExpr(steps)
               \/ \E steps \in NumberedExprs(label_num) : GenNumberedExpr(steps)

Statements == \/ \E steps \in Inits : GenInit(steps)
              \/ \E steps \in Stmts : GenStmt(steps)
              \/ \E steps \in NumberedStmts(label_num) : GenNumberedStmt(steps)
              \/ GenLoop("while", While(names))
              \/ GenLoop("dowhile", DoWhile(names))
              \/ \E clauses \in SUBSET {"init", "cond", "step"} : GenLoop("for", For(clauses, names))
              \/ \E items \in SwitchItems : GenSwitch(items)
              \/ GenBreak
              \/ GenContinue

Instructions == \/ EmitPush \/ EmitPop \/ EmitOne \/ EmitTop \/ EmitOther
                \/ EmitRead \/ EmitCall \/ TrackDepth \/ SkipNumber
                \/ EmitJump \/ EmitLabel

Stop == phase = "next" /\ todo = 0 /\ UNCHANGED vars

Next == Functions \/ Expressions \/ Statements \/ Leave \/ Instructions \/ Stop

Spec == Init /\ [][Next]_vars

-----------------------------------------------------------------------------
(* Properties.                                                             *)

\* The generator's state is well-formed: rsp is never above rbp and stack_depth
\* never negative, whatever the tree.
TypeOK ==
  /\ phase \in {"next", "body"}
  /\ todo \in Nat /\ offset \in Nat
  /\ rsp \in Nat \cup {Dead}
  /\ agrees \in {"no", "truth", "same"}
  /\ stack_depth \in Nat
  /\ label_num \in Nat /\ names \in Nat
  /\ \A i \in DOMAIN calls : calls[i].pc \in 1..(Len(calls[i].steps) + 1)

\* gen_expr and gen_lval leave exactly one word on the stack and gen_stmt none,
\* on every path through the code they emit, and no step in between takes a word
\* that was there before; and they leave stack_depth as they found it.
Balanced ==
  \A i \in DOMAIN calls :
    LET c == calls[i]
        net == IF c.kind = "stmt" THEN 0 ELSE Word
    IN  rsp # Dead /\ c.base # Dead =>
          /\ rsp >= c.base
          /\ i = Len(calls) /\ ~Running => rsp = c.base + net /\ stack_depth = c.depth

\* Every way to reach a label, by a jump from before or behind it or by falling
\* through, finds the stack at the same height.
LabelHeights ==
  \A a, b \in arrivals : a.label = b.label => a.rsp = b.rsp

\* Every label jumped to has been placed or is still to be placed by a call that
\* is active: no break, continue, case or operator is left without its target.
JumpsResolved ==
  \A a \in arrivals :
    \/ a.label \in placed
    \/ \E i \in DOMAIN calls : \E k \in calls[i].pc..Len(calls[i].steps) :
         calls[i].steps[k] = Place(a.label)

\* No label is placed twice in the assembly file, across all functions.
LabelsPlacedOnce == At("place") => Current.label \notin placed

\* Every jump has exactly one target.
JumpsHaveOneTarget == JumpsResolved /\ LabelsPlacedOnce

\* Each statement starts with rsp at the end of the frame that func->offset
\* reserves and with stack_depth saying so, although stack_depth is only set by
\* gen_func, for the outermost ones.
StatementsAtFrame ==
  \A i \in DOMAIN calls :
    i = Len(calls) /\ calls[i].kind = "stmt" /\ calls[i].pc = 1 =>
      /\ stack_depth = offset
      /\ rsp # Dead => rsp = offset

\* !, && and || compare rax with zero instead of the word gen_expr pushed: both
\* are zero or neither is, whatever the operand. And where *, . and ++ read rax as an
\* address it is no leftover of an earlier instruction.
TestsSeeTruth == (At("test") \/ At("load")) /\ rsp # Dead => agrees # "no"

\* What keeps the words of earlier children on the stack while the next child is
\* generated, without adding them to stack_depth: binary operators and calls.
Holding(steps) == steps \in {Binary, BinaryAssign} \/ Contains(steps, Call)

\* The children whose words are on the stack before step k of such a node.
Held(steps, k) == {j \in 1..(k - 1) : Holding(steps) /\ steps[j] \in {Expr, Lval}}

\* The words that the calls around the n-th one hold, by the call and its step.
HeldAround(n) == UNION {{i} \X Held(calls[i].steps, calls[i].pc - 1) : i \in 1..(n - 1)}

Pending == Cardinality(HeldAround(Len(calls)))

Diff == (16 - (stack_depth % 16)) % 16

\* The padding before a call brings rsp to a multiple of 16, up to the words that
\* enclosing binary operators and argument lists hold: stack_depth accounts for
\* every other word on the stack.
PaddingUpToPending ==
  At("call") /\ rsp # Dead => (rsp + Diff - Word * Pending) % 16 = 0

\* The comment at the padding: rsp is on a "16-bit boundary" at every call.
CallsOnBoundary == At("call") /\ rsp # Dead => (rsp + Diff) % 16 = 0

\* Where rax is used as the value of an expression without popping it (by return,
\* ~, and an argument that is widened), it is the value gen_expr pushed.
UsesSeeValue == At("use") /\ rsp # Dead => agrees = "same"
=============================================================================
