------------------------------ MODULE SemaFunc ------------------------------
(***************************************************************************)
(* The semantic pass over function definitions (sema_func, sema_block,     *)
(* sema_stmt, sema_switch, sema_type in semantic.c): scopes, frame slots,  *)
(* jump targets and labels.                                                *)
(*                                                                         *)
(* The syntax tree is not a constant: each action analyses one statement   *)
(* that the tree may hold at that place, so that every tree within the     *)
(* bounds is covered.  The recursion of the C code is the sequence calls.  *)
(* Types are abstracted to their sizes, and an expression to whether its   *)
(* analysis succeeds: sema_expr changes none of the state below.           *)
(***************************************************************************)
EXTENDS Integers, SequencesExt

CONSTANTS Names,         \* identifiers of parameters, variables and enumerators
          Sizes,         \* type_size of the variables declared
          ParamSizes,    \* type_size of the parameters
          EnumLists,     \* the enumerators a declared type may introduce (<<>>: none)
          MaxParams, MaxFuncs, MaxDepth, MaxLabels, MaxBytes    \* bounds of the instance

ASSUME SemaAssumption ==
  /\ Sizes \subseteq Nat
  /\ ParamSizes \subseteq Nat
  /\ EnumLists \subseteq Seq(Names)
  /\ <<>> \in EnumLists
  /\ {MaxParams, MaxFuncs, MaxDepth, MaxLabels, MaxBytes} \subseteq Nat

VARIABLES
  phase,                     \* "next": between sema_func calls, "body": inside one, "exit": error_loc
  todo,                      \* function definitions main has still to analyse
  calls,                     \* active sema_block, sema_switch and compound sema_stmt calls
  local_vars,                \* the Environment chain, innermost scope last
  scoped_stack_space,
  max_scoped_stack_space,
  break_labels,
  continue_labels,
  jump_id,
  labelled,                  \* node->name of every node that received a label of its own
  offset                     \* func->offset of the function last analysed

space == <<scoped_stack_space, max_scoped_stack_space>>
targets == <<break_labels, continue_labels>>
naming == <<jump_id, labelled>>
vars == <<phase, todo, calls, local_vars, space, targets, naming, offset>>

-----------------------------------------------------------------------------
(* Activations of the recursive analysis.                                  *)

Kinds == {"block", "for", "switch", "while", "dowhile", "if"}
Scoping == {"block", "for", "switch"}       \* calls that open a scope
Restoring == {"block", "for"}               \* calls that run inside sema_block
Loops == {"for", "while", "dowhile"}
Breakable == Loops \cup {"switch"}

LabelPrefixes == Breakable \cup {"case", "default"}
Label == [prefix : LabelPrefixes, id : Nat]
NoLabel == [prefix |-> "none", id |-> 0]

\* saved is revert_scoped_stack_space, left the number of statements of a
\* fixed-arity construct not yet analysed.
Activation == [kind : Kinds, label : Label \cup {NoLabel}, saved : Nat, left : Nat]

Entry == [name : Names, kind : {"var", "param", "enum"}, val : Nat, size : Nat]

\* map_find in one scope, as far as it is used here: is the name there?
Declared(scope, n) == \E i \in DOMAIN scope : scope[i].name = n

\* A block and a switch take any number of statements, the others a fixed one.
Listing(a) == a.kind \in {"block", "switch"}

\* The initialisation of a for statement precedes its body in for_block.
AwaitsInit == Last(calls).kind = "for" /\ Last(calls).left = 2

Ready == /\ phase = "body"
         /\ Listing(Last(calls)) \/ Last(calls).left > 0

\* The calls once the statement being analysed is accounted for in its parent.
Counted == IF Listing(Last(calls)) THEN calls
           ELSE [calls EXCEPT ![Len(calls)].left = @ - 1]

Opened(kind, label, saved, left) ==
  Append(Counted, [kind |-> kind, label |-> label, saved |-> saved, left |-> left])

-----------------------------------------------------------------------------
(* Errors: error_loc prints and exits, wherever the analysis stands.       *)

Exit == /\ phase' = "exit"
        /\ UNCHANGED <<todo, calls, local_vars, space, targets, naming, offset>>

\* A type error, an undefined variable, a conflict of signatures: whatever
\* the sizes and names above do not decide.
Reject == /\ phase \in {"next", "body"}
          /\ todo > 0
          /\ Exit

-----------------------------------------------------------------------------
(* Functions.                                                              *)

RegisterBytes == 8

VarargsBytes == 56     \* the register save area of a variadic function

Distinct(ps) == \A i, j \in DOMAIN ps : i # j => ps[i].name # ps[j].name

ParamSlot(base, i) == base + RegisterBytes * i

\* sema_func on a definition: parameters get one register-sized slot each,
\* above the save area of a variadic function, and the body is entered.
SemaFunc(ps, varargs) ==
  LET stack_offset == IF varargs THEN VarargsBytes ELSE 0
      used == ParamSlot(stack_offset, Len(ps))
      params == [i \in DOMAIN ps |->
                   [name |-> ps[i].name, kind |-> "param",
                    val |-> ParamSlot(stack_offset, i), size |-> ps[i].size]]
  IN  /\ phase = "next" /\ todo > 0
      /\ Distinct(ps)
      /\ phase' = "body"
      /\ local_vars' = <<params, <<>>>>
      /\ scoped_stack_space' = used
      /\ max_scoped_stack_space' = used
      /\ break_labels' = <<>> /\ continue_labels' = <<>>
      /\ calls' = <<[kind |-> "block", label |-> NoLabel, saved |-> used, left |-> 0]>>
      /\ UNCHANGED <<todo, naming, offset>>

\* An extern declaration only enters func_env.
ExternDecl == /\ phase = "next" /\ todo > 0
              /\ todo' = todo - 1
              /\ UNCHANGED <<phase, calls, local_vars, space, targets, naming, offset>>

DuplicateParams(ps) == /\ phase = "next" /\ todo > 0
                       /\ ~Distinct(ps)
                       /\ Exit

\* Mutant: the mark of the last scope left instead of the maximum.
FrameNeededNow == scoped_stack_space

FrameNeeded == max_scoped_stack_space

\* The outermost sema_block returns to sema_func, which records the offset.
FinishFunc ==
  /\ phase = "body" /\ Len(calls) = 1
  /\ phase' = "next"
  /\ todo' = todo - 1
  /\ calls' = <<>>
  /\ local_vars' = Front(local_vars)
  /\ scoped_stack_space' = calls[1].saved
  /\ offset' = FrameNeeded
  /\ UNCHANGED <<max_scoped_stack_space, targets, naming>>

-----------------------------------------------------------------------------
(* Declarations.                                                           *)

Enumerators(es) == [i \in DOMAIN es |->
                      [name |-> es[i], kind |-> "enum", val |-> 0, size |-> 0]]

\* sema_type fails on an enumerator already in the innermost scope, itself included.
EnumClash(scope, es) ==
  \E i \in DOMAIN es : \/ Declared(scope, es[i])
                       \/ \E j \in 1..(i - 1) : es[j] = es[i]

Grown(size) == scoped_stack_space + size

\* Mutant: the comparison of the conditional is the wrong way round.
RaisedSwapped(space_used) ==
  IF space_used < max_scoped_stack_space THEN space_used ELSE max_scoped_stack_space

Raised(space_used) ==
  IF space_used > max_scoped_stack_space THEN space_used ELSE max_scoped_stack_space

\* sema_stmt on ND_VARDECL.  The variable is looked up before the enumerators
\* of its own type are entered, so it may share the name of one of them.
VarDecl(n, size, es) ==
  LET scope == Last(local_vars)
      var == [name |-> n, kind |-> "var", val |-> Grown(size), size |-> size]
  IN  /\ Ready
      /\ ~Declared(scope, n)
      /\ ~EnumClash(scope, es)
      /\ Grown(size) <= calls[1].saved + MaxBytes
      /\ scoped_stack_space' = Grown(size)
      /\ max_scoped_stack_space' = Raised(Grown(size))
      /\ local_vars' = [local_vars EXCEPT ![Len(local_vars)] =
                          Append(@ \o Enumerators(es), var)]
      /\ calls' = Counted
      /\ UNCHANGED <<phase, todo, targets, naming, offset>>

DuplicateDecl(n, es) == /\ Ready
                        /\ \/ Declared(Last(local_vars), n)
                           \/ EnumClash(Last(local_vars), es)
                        /\ Exit

-----------------------------------------------------------------------------
(* Compound statements.                                                    *)

\* gen_loop_label: the label goes on a node, the counter moves on.
NewLabel(prefix) == [prefix |-> prefix, id |-> jump_id]

\* Mutant: a case takes a number without using it up.
GenLoopLabelShared(prefix) ==
  /\ jump_id < MaxLabels
  /\ jump_id' = IF prefix \in {"case", "default"} THEN jump_id ELSE jump_id + 1
  /\ labelled' = Append(labelled, NewLabel(prefix))

GenLoopLabel(prefix) == /\ jump_id < MaxLabels
                        /\ jump_id' = jump_id + 1
                        /\ labelled' = Append(labelled, NewLabel(prefix))

MayOpen == Ready /\ ~AwaitsInit /\ Len(calls) < MaxDepth

EnterBlock ==
  /\ MayOpen
  /\ local_vars' = Append(local_vars, <<>>)
  /\ calls' = Opened("block", NoLabel, scoped_stack_space, 0)
  /\ UNCHANGED <<phase, todo, space, targets, naming, offset>>

\* else is 1 when the statement has an else branch.
EnterIf(else) ==
  /\ MayOpen
  /\ calls' = Opened("if", NoLabel, 0, 1 + else)
  /\ UNCHANGED <<phase, todo, local_vars, space, targets, naming, offset>>

\* while and do-while analyse their body in the scope they stand in.
EnterLoop(kind) ==
  /\ MayOpen
  /\ GenLoopLabel(kind)
  /\ break_labels' = Append(break_labels, NewLabel(kind))
  /\ continue_labels' = Append(continue_labels, NewLabel(kind))
  /\ calls' = Opened(kind, NewLabel(kind), 0, 1)
  /\ UNCHANGED <<phase, todo, local_vars, space, offset>>

\* for analyses init, cond, rhs and body as one block; init is 1 when the
\* initialisation declares a variable.
EnterFor(init) ==
  /\ MayOpen
  /\ GenLoopLabel("for")
  /\ break_labels' = Append(break_labels, NewLabel("for"))
  /\ continue_labels' = Append(continue_labels, NewLabel("for"))
  /\ local_vars' = Append(local_vars, <<>>)
  /\ calls' = Opened("for", NewLabel("for"), scoped_stack_space, 1 + init)
  /\ UNCHANGED <<phase, todo, space, offset>>

EnterSwitch ==
  /\ MayOpen
  /\ GenLoopLabel("switch")
  /\ break_labels' = Append(break_labels, NewLabel("switch"))
  /\ local_vars' = Append(local_vars, <<>>)
  /\ calls' = Opened("switch", NewLabel("switch"), 0, 0)
  /\ UNCHANGED <<phase, todo, space, continue_labels, offset>>

MayLeave(kinds) == /\ phase = "body"
                   /\ Len(calls) > 1
                   /\ Last(calls).kind \in kinds
                   /\ Listing(Last(calls)) \/ Last(calls).left = 0

\* Mutant: every block reverts to what the parameters use.
RevertedToBase(a) == calls[1].saved

\* The allocation mark when a call inside sema_block returns.
Reverted(a) == a.saved

LeaveBlock ==
  /\ MayLeave({"block"})
  /\ calls' = Front(calls)
  /\ local_vars' = Front(local_vars)
  /\ scoped_stack_space' = Reverted(Last(calls))
  /\ UNCHANGED <<phase, todo, max_scoped_stack_space, targets, naming, offset>>

LeaveIf ==
  /\ MayLeave({"if"})
  /\ calls' = Front(calls)
  /\ UNCHANGED <<phase, todo, local_vars, space, targets, naming, offset>>

\* Mutant: only the break label is taken off.
LeaveLoopHalf ==
  /\ MayLeave({"while", "dowhile"})
  /\ calls' = Front(calls)
  /\ break_labels' = Front(break_labels)
  /\ UNCHANGED <<phase, todo, local_vars, space, continue_labels, naming, offset>>

LeaveLoop ==
  /\ MayLeave({"while", "dowhile"})
  /\ calls' = Front(calls)
  /\ break_labels' = Front(break_labels)
  /\ continue_labels' = Front(continue_labels)
  /\ UNCHANGED <<phase, todo, local_vars, space, naming, offset>>

LeaveFor ==
  /\ MayLeave({"for"})
  /\ calls' = Front(calls)
  /\ local_vars' = Front(local_vars)
  /\ scoped_stack_space' = Reverted(Last(calls))
  /\ break_labels' = Front(break_labels)
  /\ continue_labels' = Front(continue_labels)
  /\ UNCHANGED <<phase, todo, max_scoped_stack_space, naming, offset>>

\* Mutant: the scope of the switch stays open.
LeaveSwitchOpen ==
  /\ MayLeave({"switch"})
  /\ calls' = Front(calls)
  /\ break_labels' = Front(break_labels)
  /\ UNCHANGED <<phase, todo, local_vars, space, continue_labels, naming, offset>>

\* sema_switch drops its scope and does not touch scoped_stack_space.
LeaveSwitch ==
  /\ MayLeave({"switch"})
  /\ calls' = Front(calls)
  /\ local_vars' = Front(local_vars)
  /\ break_labels' = Front(break_labels)
  /\ UNCHANGED <<phase, todo, space, continue_labels, naming, offset>>

-----------------------------------------------------------------------------
(* Simple statements.                                                      *)

\* An expression or a return statement, or the expression a for starts with.
SimpleStmt ==
  /\ Ready /\ ~AwaitsInit
  /\ calls' = Counted
  /\ UNCHANGED <<phase, todo, local_vars, space, targets, naming, offset>>

\* case and default get a label directly under a switch, and nowhere else.
CaseLabel(prefix) ==
  /\ Ready /\ ~AwaitsInit
  /\ Last(calls).kind = "switch"
  /\ GenLoopLabel(prefix)
  /\ UNCHANGED <<phase, todo, calls, local_vars, space, targets, offset>>

MisplacedCase == /\ Ready /\ ~AwaitsInit
                 /\ Last(calls).kind # "switch"
                 /\ Exit

\* break and continue copy the innermost label of their kind into the node.
Jump(labels) ==
  /\ Ready /\ ~AwaitsInit
  /\ labels # <<>>
  /\ calls' = Counted
  /\ UNCHANGED <<phase, todo, local_vars, space, targets, naming, offset>>

MisplacedJump(labels) == /\ Ready /\ ~AwaitsInit
                         /\ labels = <<>>
                         /\ Exit

-----------------------------------------------------------------------------
(* The specification.                                                      *)

ParamLists == UNION {[1..n -> [name : Names, size : ParamSizes]] : n \in 0..MaxParams}

Init == /\ phase = "next"
        /\ todo \in 0..MaxFuncs
        /\ calls = <<>> /\ local_vars = <<>>
        /\ scoped_stack_space = 0 /\ max_scoped_stack_space = 0
        /\ break_labels = <<>> /\ continue_labels = <<>>
        /\ jump_id = 0 /\ labelled = <<>>
        /\ offset = 0

Functions == \/ \E ps \in ParamLists : \/ \E varargs \in BOOLEAN : SemaFunc(ps, varargs)
                                       \/ DuplicateParams(ps)
             \/ ExternDecl
             \/ FinishFunc

Declarations == \E n \in Names, es \in EnumLists :
                  \/ \E size \in Sizes : VarDecl(n, size, es)
                  \/ DuplicateDecl(n, es)

Enter == \/ EnterBlock
         \/ \E else \in {0, 1} : EnterIf(else)
         \/ \E kind \in {"while", "dowhile"} : EnterLoop(kind)
         \/ \E init \in {0, 1} : EnterFor(init)
         \/ EnterSwitch

Leave == LeaveBlock \/ LeaveIf \/ LeaveLoop \/ LeaveFor \/ LeaveSwitch

Simple == \/ SimpleStmt
          \/ \E prefix \in {"case", "default"} : CaseLabel(prefix)
          \/ MisplacedCase
          \/ \E labels \in {break_labels, continue_labels} :
               Jump(labels) \/ MisplacedJump(labels)

\* main goes on to code generation, or error_loc has exited.
Stop == /\ phase = "exit" \/ (phase = "next" /\ todo = 0)
        /\ UNCHANGED vars

Next == Reject \/ Functions \/ Declarations \/ Enter \/ Leave \/ Simple \/ Stop

Spec == Init /\ [][Next]_vars

-----------------------------------------------------------------------------
(* Properties.                                                             *)

\* The state of the pass is well-formed after every step of sema_func, whatever
\* the statements it meets, and the running allocation never exceeds the maximum
\* that becomes func->offset.
TypeOK ==
  /\ phase \in {"next", "body", "exit"}
  /\ todo \in Nat
  /\ calls \in Seq(Activation)
  /\ local_vars \in Seq(Seq(Entry))
  /\ scoped_stack_space \in Nat /\ max_scoped_stack_space \in Nat
  /\ scoped_stack_space <= max_scoped_stack_space
  /\ break_labels \in Seq(Label) /\ continue_labels \in Seq(Label)
  /\ jump_id \in Nat
  /\ labelled \in Seq(Label)
  /\ offset \in Nat

\* How many of the first i calls of s are of one of the kinds.
CountTo(s, i, kinds) == Cardinality({j \in 1..i : s[j].kind \in kinds})

Follows(labels, s, kinds) ==
  /\ Len(labels) = CountTo(s, Len(s), kinds)
  /\ \A i \in DOMAIN s :
       s[i].kind \in kinds => labels[CountTo(s, i, kinds)] = s[i].label

\* break_labels lists the labels of the enclosing loops and switches, and
\* continue_labels those of the enclosing loops, outermost first: so a break or
\* continue takes the innermost, and both are empty again between functions.
JumpTargets == /\ Follows(break_labels, calls, Breakable)
               /\ Follows(continue_labels, calls, Loops)

\* The chain of environments has one scope for the parameters and one for every
\* block, for and switch being analysed, so that each construct's env_next drops
\* the scope it opened itself.
ScopesNested ==
  calls # <<>> => Len(local_vars) = 1 + CountTo(calls, Len(calls), Scoping)

\* No two nodes of a program get the same label: gen_loop_label numbers them
\* through all functions, and the assembly file has one name space for them.
LabelsUnique ==
  \A i, j \in DOMAIN labelled : i # j => labelled[i] # labelled[j]

\* Parameters wider than a register still get one register's slot (struct and
\* array parameters are accepted and not supported): nothing is promised of them.
Stored(e) == /\ e.kind # "enum"
             /\ e.kind = "param" => e.size <= RegisterBytes

\* Where the entries of a chain of scopes are, and which one is at a place.
Positions(scopes) == UNION {{<<d, k>> : k \in DOMAIN scopes[d]} : d \in DOMAIN scopes}

At(scopes, p) == scopes[p[1]][p[2]]

SlotAt(scopes, p) == [owner |-> p, high |-> At(scopes, p).val,
                      low |-> At(scopes, p).val - At(scopes, p).size]

LiveSlots(scopes) == {SlotAt(scopes, p) : p \in {q \in Positions(scopes) : Stored(At(scopes, q))}}

Slots == INSTANCE SlotAllocator WITH
           live <- IF calls = <<>> THEN {} ELSE LiveSlots(local_vars),
           frame <- IF calls = <<>> THEN offset ELSE max_scoped_stack_space

\* Whatever scopes are entered and left, the variables and parameters in scope
\* have frame slots that do not overlap and lie within the frame reserved so
\* far, although sibling scopes reuse the same bytes.
SlotsDisjoint ==
  calls # <<>> => /\ Slots!NoOverlap(LiveSlots(local_vars))
                  /\ Slots!InFrame(LiveSlots(local_vars), max_scoped_stack_space)

\* The pass implements the slot allocator: a variable never moves while it is in
\* scope, the frame never shrinks while a function is analysed, and func->offset
\* is the frame that covered every slot of the function.
ImplementsSlots == Slots!Spec

-----------------------------------------------------------------------------
(* What makes SlotsDisjoint inductive: every mark a block will revert to    *)
(* lies above the slots of all scopes that stay open when it does.          *)

CallsNested ==
  /\ phase = "body" => calls # <<>> /\ todo > 0
  /\ phase = "next" => calls = <<>>
  /\ calls # <<>> => calls[1].kind = "block"
  /\ \A i \in DOMAIN calls :
       /\ calls[i].kind \in Breakable => calls[i].label \in Label
       /\ calls[i].kind \in Restoring => calls[i].saved <= max_scoped_stack_space

\* The slots of the n outermost scopes end at or below mark.
Below(scopes, n, mark) ==
  \A d \in 1..n : \A k \in DOMAIN scopes[d] : scopes[d][k].val <= mark

MarksHold ==
  calls # <<>> =>
    /\ Below(local_vars, Len(local_vars), scoped_stack_space)
    /\ \A i \in DOMAIN calls :
         calls[i].kind \in Restoring =>
           Below(local_vars, CountTo(calls, i, Scoping), calls[i].saved)

EntriesApart(scopes) ==
  \A p \in Positions(scopes) :
    Stored(At(scopes, p)) =>
      /\ At(scopes, p).size <= At(scopes, p).val
      /\ \A q \in Positions(scopes) :
           Stored(At(scopes, q)) /\ p # q =>
             Slots!Apart(SlotAt(scopes, p), SlotAt(scopes, q))

\* A label's number is used up when it is given.
LabelsUsedUp == \A i \in DOMAIN labelled : labelled[i].id < jump_id

IInv == /\ TypeOK /\ CallsNested /\ JumpTargets /\ ScopesNested /\ MarksHold /\ LabelsUsedUp
        /\ calls # <<>> => EntriesApart(local_vars)
=============================================================================
