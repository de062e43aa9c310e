# Verification of ccatd

ccatd is a compiler for a subset of C, written in that subset: it reads one
translation unit and prints x86-64 assembly in Intel syntax. `main` (main.c)
runs its passes one after the other: `tokenize`, `parse`, `sema_globals`,
`sema_func` for every function declared, `gen_globals`, and `gen_func` for every
function that is not extern. This directory holds TLA+ models of its core, the
TLC instances that check them, and TLAPS proofs of what matters most.

The compiler is one sequential process. It runs no threads and stores nothing
that survives it, so what is hard about it is neither interleaving nor crashes.
It is *long sequences of legal calls*: the passes are mutually recursive walks
over a tree, and they share global counters, stacks and marks
(`scoped_stack_space`, `break_labels`, `jump_id`, `stack_depth`, `func_env`).
Each of them is saved, pushed or raised at one place and restored, popped or
lowered at another, after an arbitrary subtree has been walked in between. The
tests are C programs: they show that some trees work. Most properties here say
that *every* tree within the bounds does, and the theorems drop the bounds. A
second source of trouble is that the emitted program is itself a machine: the
code generator must agree with what rsp and rax will be when its output runs.

No syntax tree and no text is a constant that TLC enumerates. In the models of
the walks (`SemaFunc`, `CodegenStack`), at each point where the C code would look
at the next child the model may meet any child that the earlier passes let
through, and the recursion of the C code is a sequence of activations (`calls`).
The models of what is computed bottom-up (`ConstInit`, `ExprWidths`) build the
expression on a stack in the order in which the C functions return. The parser's
model (`Parser`) lets a text grow piece by piece and calls the parsing functions on
each. A behaviour is thus one walk
over one input, and all inputs up to the bounds are covered.

Two questions are asked again and again. Of the passes that only keep accounts:
are the accounts right in every order of events? Of the passes that give meaning
(scanning, parsing, folding, emitting): is it the meaning C gives? The second kind
of module comes with a *reference*, C's own rules written down without looking at
how ccatd goes about it (`CLexemes`, `CGrammar`, `CStatements`, the ghost variables
of `StructTags`, `means` in `ConstInit`). Where ccatd is known to differ, the
exception is part of the property, so that the property says exactly how far the
agreement goes; each exception was checked to be necessary.

## Inventory

| Component | State | Operations | Interacts with |
|---|---|---|---|
| Semantic pass over bodies (semantic.c) | `local_vars` (chain of scopes), `scoped_stack_space`, `max_scoped_stack_space`, `break_labels`, `continue_labels`, `jump_id` | `sema_func`, `sema_block`, `sema_switch`, `sema_stmt`, `sema_type`, `gen_loop_label` | writes `func->offset`, `node->val`, `node->name` for codegen |
| Expression typing (semantic.c, type.c) | `node->type`, `func_env`, `func->global_vars` | `sema_expr`, `sema_lval`, `sema_expr_arith`, `sema_expr_assign`, `eq_type`, ... | types decide operand widths in codegen |
| Code generation of bodies (codegen.c) | `label_num`, `stack_depth`; rsp, rax and the labels of the emitted program | `gen_func`, `gen_stmt`, `gen_expr`, `gen_lval` | reads names, offsets and types left by the semantic pass |
| Top-level declarations (parse.c, semantic.c, main.c, codegen.c) | `functions`, `global_vars`, `func_env` | `toplevel`, `parse_func`, `sema_globals`, `sema_func`, `push_function`, `gen_globals` | each pass looks names up in its own copy or moment of them |
| Vectors (containers.c) | `data`, `cap`, `len` | `vec_new`, `vec_push`, `vec_pop`, `vec_at` | under every list, map, environment and label stack |
| Maps, environments, string builder (containers.c) | vectors of keys and values, chain of maps | `map_put`, `map_find`, `env_new`, `env_push`, `env_find`, `env_next` | scopes of the parser and the semantic pass |
| Constant initialisers (semantic.c, codegen.c) | none | `sema_const*`, `gen_const`, `gen_const_calc` | emits the data of globals |
| Tags, enums, aliases (parse.c) | `structs`, `enums`, `aliases` | `parse_struct`, `parse_enum`, `consume_type_spec` | types of everything declared |
| Statement and expression parser (parse.c) | `tokens`, `pos` | `stmt`, `expr`, ..., `consume`, `expect` | builds the tree |
| Tokenizer (tokenize.c) | a pointer into the source text, line and column | `tokenize` | makes `tokens` |
| Errors, escapes, reading (util.c, main.c) | none | `error_loc`, `read_file` | `error_loc` exits wherever the analysis stands |

What makes each component correct, and what could break it:

* *Semantic pass.* Variables in scope at the same time never share bytes of
  the frame, although sibling scopes reuse them; the frame that `func->offset`
  reserves covers all of them; break and continue reach the innermost target;
  labels are unique across the file. Hazard: marks and stacks restored by a
  different construct than the one that changed them. `sema_switch`, for
  example, drops its scope without giving its bytes back.
* *Expression typing.* The result type of every node says how many bytes of rax
  mean something. Hazard: a consumer reading more than that.
* *Code generation.* Every expression leaves one word, every statement none, on
  every path through jumps; `stack_depth` follows rsp; jumps have targets; a
  consumer that reads rax instead of popping sees the value pushed.
* *Declarations.* What was checked against one binding of a name still holds for
  the binding in force when code is generated.
* *Vectors.* Elements survive growth and the clearing of slots.
* *Strings.* A builder holds what was appended however often it grows; what the
  assembler reads between two quotes is the literal of the source.
* *Constants.* Folding computes the value the expression has; the bytes emitted
  are those the object's type reads, each element at its place. Hazard: lists are
  never folded, numbers are always four bytes.
* *Tags.* A tag denotes what C says it denotes, and a type completed late is
  completed everywhere. Hazard: every mention makes an object of its own, and
  only some of them are found again.
* *Parser.* Every text of C gets C's tree or is refused; no operand is lost; the
  cursor stays inside the tokens. Hazard: precedence is which function calls which.
* *Tokenizer.* Every text is cut where C cuts it, is located where it stands, and
  the scan ends inside the text. Hazard: pairs of characters skipped at once, the
  order of branches and of the operator table.

`PROJECT.json` lists the hazards one by one, each at its line, with the property
that covers it or the reason none does yet.

## Modules

| Module | What it is |
|---|---|
| `Tokenizer` | tokenize(), one step per loop iteration |
| `CLexemes` | reference: the lexemes and tokens of a text by longest match |
| `TokenizerProofs` | the theorems about `Tokenizer` and their proofs |
| `MCTokenizer` | texts for TLC |
| `ExprParser` | the expression half of parse.c, a function from a place in the tokens to tree and place |
| `StmtParser` | statements, blocks, declarators, top level, in the same form; extends `ExprParser` |
| `Parser` | texts of tokens, what parse.c makes of them, and the properties; extends `StmtParser` |
| `CGrammar` | reference: the expressions of C's grammar, as splits of a phrase |
| `CStatements` | reference: statements, declarations and programs of C's grammar |
| `MCParser` | token pieces for TLC |
| `StructTags` | parse_struct, parse_enum, typedef and scopes, beside what C says a tag denotes |
| `MCStructTags` | the symmetry of tags for TLC |
| `StructTagsProofs` | the invariant that relates parse_struct's scopes to those of C, and the theorems |
| `CTypes` | type.c: types, sizes, compatibility; used by the next two |
| `ConstInit` | initialisers of globals: typed, folded, emitted |
| `ConstInitProofs` | the theorems about `ConstInit` and their proofs |
| `MCConstInit` | globals, literals and targets for TLC |
| `ExprWidths` | how many bytes of rax and of the pushed word are the value's, and who reads more |
| `ExprWidthsProofs` | the theorems about `ExprWidths` and their proofs |
| `MCExprWidths` | types for TLC |
| `SlotAllocator` | abstract: storage is granted in slots that never overlap or move, in a frame that only grows |
| `SemaFunc` | the semantic pass over function definitions; implements `SlotAllocator` |
| `MCSemaFunc` | names, enumerator lists for TLC |
| `SemaFuncProofs` | the theorems about `SemaFunc` and their proofs |
| `CodegenStack` | gen_func, gen_stmt, gen_expr, gen_lval as an emitter for a stack machine |
| `CodegenStackProofs` | the theorems about `CodegenStack` and their proofs |
| `MCCodegenStack` | frames and expression shapes for TLC |
| `Declarations` | top-level declarations from parsing to code generation |
| `DeclarationsProofs` | the theorems about `Declarations` and their proofs |
| `MCDeclarations` | types, function names, builtins for TLC |
| `Stack` | abstract: what a vector promises |
| `Vectors` | a vector in memory; implements `Stack` |
| `VectorsProofs` | the theorems about `Vectors` and their proofs |
| `StringBuilder` | string builders in memory and `escape_string`; operators, used by `Tokenizer` |

They follow the text through the compiler: `Tokenizer` makes tokens, `Parser`
trees, `StructTags` the types in them, `Declarations` what is
known of names between the passes, `SemaFunc` frames and jump targets,
`ConstInit` the data section, `CodegenStack` and `ExprWidths` the code; `Vectors`
and `StringBuilder` are below all of them.

### SemaFunc

The variables have the names of the C globals. `calls` is the C stack: one
record for every active `sema_block`, `sema_switch` and compound case of
`sema_stmt`, with the label the node got, the local
`revert_scoped_stack_space` (`saved`) and the number of fixed children left.
`local_vars` is the chain of environments, innermost last; an entry keeps its
name, its frame offset `val` and the size of its type. A type is its size, and
the enumerators it introduces; an expression is a step that succeeds
(`SimpleStmt`) or exits (`Reject`), because `sema_expr` changes none of this
state. `error_loc` prints and exits, so every error path is a step to the phase
`"exit"`.

| C | TLA+ |
|---|---|
| `sema_func` up to its body, the return from it, extern declarations | `SemaFunc`, `FinishFunc`, `ExternDecl`, `DuplicateParams` |
| `ND_VARDECL`, `sema_type` | `VarDecl`, `DuplicateDecl` |
| `ND_BLOCK`, `sema_block` | `EnterBlock`, `LeaveBlock` |
| `ND_FOR` (analysed as a block of init, cond, step, body) | `EnterFor`, `LeaveFor` |
| `ND_WHILE`, `ND_DOWHILE` / `ND_IF` | `EnterLoop`, `LeaveLoop` / `EnterIf`, `LeaveIf` |
| `sema_switch`, `sema_case` | `EnterSwitch`, `LeaveSwitch`, `CaseLabel`, `MisplacedCase` |
| `ND_BREAK`, `ND_CONTINUE` | `Jump`, `MisplacedJump` |
| `gen_loop_label` | `GenLoopLabel` |

### CodegenStack

`gen_expr` and `gen_stmt` emit text; what the text does to the machine is
abstracted to a *sequence of steps* per node (`Comma`, `Assign`, `While`, ...),
read off the C function in order: recursive calls (`Expr`, `Lval`, `Stmt`),
pushes and pops, changes of `stack_depth` (`Track`, `Untrack`), labels and jumps,
and the places where rax is read without popping: for its truth (`Test`), as a value
(`Use`), as an address by `*`, `.` and `++` (`Load`). The state has
both sides: the generator (`calls`, `stack_depth`, `label_num`, the names given
by the semantic pass) and the emitted code at the same point (`rsp` as bytes
below rbp, and `agrees`: whether rax is the same as the top word, has the same
truth, or neither). After a `jmp` the position is `Dead` until a label that is
jumped to is placed; a label joins the heights of all its arrivals, forward and
backward. `TestsSeeTruth` covers `Test` and `Load`, `UsesSeeValue` covers `Use`. A label jumped to only from behind (the start of a loop) is reached by
falling through; what arrives later is compared with that by `LabelHeights`.

A clause that the tree may lack is `When(present, steps)`: its steps, or as many
times `Pass`, which does nothing. So `For` has the same places whichever of init,
condition and step a loop has. `base` and `depth` in a call are rsp and `stack_depth` when
it was made: the C code keeps neither, they are there to say that both come back.

### Declarations

`functions` and `global_vars` are the lists that `toplevel` builds,
`Current.seen` stands for `func->global_vars`, the copy of the globals that
`parse_func` makes; `func_env` is one map, searched from its end. Bodies are
abstracted to the calls (`SemaCall`) and references to globals (`SemaVar`) they
make. `checked` and `resolved` record what was accepted, for comparison with
what `gen_globals` and the `ND_CALL` case of `gen_expr` find later
(`ParamsAtCall`). `emitted` holds places in `global_vars`, not names: a variable
given storage twice is two places. `ParseError`, `GlobalsClash`, `SemaClash` and `SemaError` are
the exits. Parameters have no names here and void is no type of theirs, so the exits for
duplicate and void parameters are open to every list that is not empty (`BadParams`).

### Tokenizer

Every iteration of a loop of `tokenize()` is a step, `phase` says in which loop:
the main one, a line comment, a block comment, a string, or the blanks between
two strings that are one token. `p` is an index into the text, and the NUL behind
it reads as `Nul`. The action of each branch has the branches before it as its
guard. `ReadFile` is what `read_file` does to the text: a newline is appended
when none is there, which is why the line-comment loop may look for nothing else.

`sb` is a builder of `StringBuilder`, with its block of memory; the string of a token
is what `Build` copies out of it, and `string_literals` what `gen_str` prints later.

`CLexemes` says what a span of the text can be by what it looks like from both ends,
takes the longest one at every place, leaves comments out and joins adjacent strings.
`LexemesFrom` and `TokensFrom` are recursive functions over the places of the text, so
that proofs can use them. It has the escapes of C's own table and reads numbers as C does,
octal where they begin with a zero; its numbers are unbounded, while `Value` is what
`strtol` and the `int` of a token (ccatd.h:95) keep of the digits. Hexadecimal numbers,
suffixes, trigraphs, and what an octal or hexadecimal escape stands for are not in the
reference; texts with spliced lines or floating constants are told apart (`Splices`,
`Floats`) and not compared. `ScansAsC` compares the kinds, words and places of the
tokens and, up to the cases of `Agrees`, the numbers and the characters of literals; `AcceptsAsC` says which texts are refused, for a text without
NUL characters (ccatd takes it to end at the first one) and without spliced lines.
`Line` and `Column` say what the place of a character is, and `PlacesKept` that the counters have it at every step, before an error too, although each branch
advances them in its own way. Known differences, all
named in the properties:

* in what a token holds (`Agrees`): ccatd knows the escapes `\n`, `\r` and `\0` and takes
  the character behind any other backslash for itself, which is right for quotes, `?` and
  the backslash and wrong for `\t`, `\a`, `\b`, `\f`, `\v` and every other octal or
  hexadecimal escape; it reads octal constants as decimal and wraps those beyond an `int`; a string is
  cut at a NUL in it;
* in how a text is cut (`ScansAsC`): a comment between two strings keeps them apart,
  spliced lines stay apart, floating constants are taken apart;
* refused (`RefusesOnly`): a text with nothing but blanks behind its last string, which is
  reported as not closed, and a character constant longer than one character or a
  backslash and one;
* let through (`LenientAt`): a number that runs into a word, a literal with a raw
  newline, and ``'''`. `LetsThroughOnly` asks for one of them at the very place of C's first
  error, not just somewhere in the text.

A string's token has the line and column of what follows it (`BehindString`).

### ExprParser, StmtParser, Parser

A parsing function of parse.c becomes a function from a place in the tokens to a
node and the place behind it; `"error"` stands for `error_loc`, `"crash"` for the
dereference of a token that is not there. `Then` goes on with a result unless the
call did not return. `Parser` has the state machine: `Init` chooses a vocabulary
(what texts begin with, the pieces they are made of, how they end), `Longer` adds a
piece, and `ParseExpr` and `ParseProgram` call `expr()` and `parse()` on the text so
far. A token is its class: `"id"`, `"num"` (numbers),
`"str"` (strings and characters, which are no dimension of an array), `"T"` (an identifier that is a type alias), `"S"` (a struct or enum
specifier with its tag and body) or the keyword itself.

`CGrammar` and `CStatements` give the *set* of trees C's productions derive for a
phrase, by trying every split; that they find at most one tree for a whole program
(`programs = {p}`) is part of `ParsesAsC` and says that the reference itself is
unambiguous. Known differences in expressions: prefix `*` and `&` take a whole
product for their operand (`*p * 2` is `*(p * 2)`, which the semantic pass then
refuses), the other prefixes no cast (`-(char)x`), a cast no `struct` or `enum`, and
`sizeof (x + 1)` is refused. `(x) y` is accepted and is `y`; `AllOperandsUsed`
shows that nothing else is ever dropped. In statements and declarations: no empty
statement, no comma behind the last initialiser, one declarator per declaration
(`int x = 3, y = 4;` is a comma expression), a switch only over a block, no
labelled statement as a body, no `extern` with an initialiser or a body, no
`struct S;` in a block, the dimensions of `a[2][3]` in reverse order.
The parser ends in a segmentation fault instead of a message only at the end of
the text, behind `.` and `->`, for an array without a number and for an
initialised `extern` (`CrashesWhereKnown`).

### StructTags

`structs` holds the objects; a field list is the number of the body it came from.
`ParseStruct` is `parse_struct` from the lookup of the tag to its return:
`Completed` fills in the object that the scope's binding has, `Patched` turns the
first alias of the tag to the object just made. A body is opened and closed in two
steps, because its fields are parsed in between and may mention or define any tag.
`meaning`, `entities`, `c_env` follow what C's scopes say; they never influence the
others. The properties say which objects are completed: the first mention in the
scope, those made later than the body, and the first alias. Not the second pointer
to itself in a struct nothing has announced, nor a second alias.

`shadowed` has the entities whose body came in a block while an outer scope had the tag
and the block itself did not: `parse_struct` (parse.c:224-230) then makes an object
without binding it in the block, and moves the outer alias.
`CompletedAsKnown` and `NeverOtherFields` stop at the first of them. `OneBodyEach` does
not: it holds of every other entity whatever happened to these. For a shadowed one it
does not hold, since the block has no binding a second body could be compared with:
`struct T { .. }; { struct T { .. } x; struct T { .. } y; }` is accepted.

### ConstInit

An expression on the stack carries three things: the node as `sema_const` typed it
(`raw`), as `gen_const_calc` leaves it (`folded`), and what C says it is (`means`, a
number or a base and a distance in bytes). `Scalar` and `List` choose the target and
print directives, each a number of bytes and a meaning. `gen_const_calc` does not
look into a list, so elements are emitted unfolded.

`errors` has the refusals of `sema_const_aux` that an expression runs into: a name that
`global_env` does not hold because it is extern, declared later or the variable itself
(`Undefined`); the address of anything but a name, such as `&a[1]` (`ElementAddress`); a
kind of node it does not know, such as `'a'`, `2 * 3`, a cast or `sizeof` (`Other`); operands
that do not fit. C may take such an expression, so it has a meaning all the same.

Known differences: `a + 3 - 1`
is folded to `a + 4` less (the outer sign reaches the inner number), numbers are
four bytes whatever they initialise, list elements beyond a name and one number
lose what is nested, and padding behind a string is one byte too long. An enumerator
of value zero is a null pointer in C; `assignable` takes an int for a pointer but no
enumerator. `RefusesOnly` names every reason for which a constant initialiser of C is
refused, those of `errors` included. `TakesOnly` says the converse, with what is let through
in `LetThrough`: a variable's own name (`int *q = p;` gets the address of `p`), an integer
for a pointer, an integer with a variable or a difference of pointers in it
(`int y = x + 1;`), a sum of an address and such an integer, and, for an array, whatever
else than a list is assignable. What pointers point to is not compared, and arrays have one dimension.

### ExprWidths

Code is generated for operands first, so an expression is reduced to its type and
the number of low bytes that are surely the value's in rax (`rax`) and in the word
on the stack (`top`), which are written by different instructions. A write to `eax`
clears the upper half, one to `al` or through memory leaves it. Every node
then says which bytes it reads; when it reads more than are sure, the behaviour
ends in `"misread"` with node and operands in `fault`, and when the compiler ends
instead of printing code (a missing `ptr_to`, no such instruction) in `"refused"`.
The properties name who misreads what, and therefore that nobody else does:

* an index that may be negative scaled by more than one, pointers compared or
  subtracted, a possibly negative int divided, a char remainder, an array of less
  than eight bytes assigned to a pointer (`OperatorsExtend`);
* `!`, `~`, `*`, `&&` and `||` over an `&&` or `||`, and over chars (`ReadsRax`);
* a char where something wider is expected without an operator in between, a
  switch over a value that was assigned, incremented, dereferenced or a char, list
  elements smaller than an address (`UsedAsWide`);
* `x + 'a'`, which ends the compiler, `?:` over pointers, which gives `void *`, and a
  `void *` that is incremented, subtracted from another or dereferenced: `type_size` has no
  answer for void and exits (`RefusesOnly`).

### Vectors

`data` holds the slots of the allocated block. `vec_new` allocates the size of a
whole `Node` for every slot of capacity (`NodeWords` words each), and `realloc`
one pointer per slot, so a fresh vector has slack and a grown one has none.
`vec_pop` clears `data[len]` *before* it lowers `len`:
the slot behind the element it returns. `strayed` records a write outside the
block; `Junk` is what `realloc` leaves undefined.

### StringBuilder

A builder is a block of memory, as a function from indices to bytes: `Grown` is
`realloc`, which leaves the new half undefined (`Junk`), `Written` marks a write
behind the block. `Build` stops at a NUL as `strncpy` does. `escape_string` makes a
second builder out of a string, with two characters for some of them.
In `Tokenizer`, `TypeOK` says that no byte is written behind the block or read before
it is written, and `LiteralArrives` the same of the builder of `escape_string`, and that
the assembler, reading between the quotes, gets the literal of the source.

## Runs

| Run | Instance | What it shows |
|---|---|---|
| `sema` | one function, up to two parameters of 4 or 12 bytes, variables of 1 and 2 bytes, two names, enumerators, nesting 3, two labels | slots of visible variables disjoint and inside the frame (`SlotsDisjoint`); the pass implements `SlotAllocator` (`ImplementsSlots`); `JumpTargets`, `ScopesNested`, `LabelsUnique` |
| `codegen_calls` | one function, all expressions and unlabelled statements, frames of 0 and 12 bytes, nesting 3 | `Balanced`, `StatementsAtFrame`, `PaddingUpToPending` |
| `codegen_labels` | one function, one operator and one loop or switch with up to two items, nesting 3 | `LabelHeights`, `JumpsHaveOneTarget` (`JumpsResolved`, `LabelsPlacedOnce`), `TestsSeeTruth` |
| `declarations` | every unit of three declarations, two functions and a builtin, two variables, an enum, a pointer and an array type | `DeclarationsAgree` (`SignaturesAgree`, `DefinedOnce`), `CallsStillMatch`, `ReferencesAgree`, `StorageOnce` |
| `vectors` | capacity 2, up to 5 elements: two growths | `ImplementsStack`, `StraysOnlyWhenFull` |
| `tokenizer` | every text of up to four pieces (blanks, newline, `/`, `*`, quotes, backslash, whole literals and comments), of three operator characters, and of four characters out of words, numbers and operators; builders of capacity one; an `int` goes up to 31 and a `long` up to 127, so that numbers of two, three and four digits pass one or both | `ScansAsC`; `AcceptsAsC` (`RefusesOnly`, `LetsThroughOnly`); `PlacesKept`; `LiteralArrives`; `Terminates`; `TypeOK`, which keeps `p` inside the text and the builder inside its block |
| `parser` | five vocabularies: binary operators and prefixes, postfixes, casts, calls (texts of four pieces), control statements, declarations, the top level (five pieces); shorter texts that break off | `ParsesAsC` (`ExpressionsAsC`, `ProgramsAsC`), `AllOperandsUsed`, `CrashesWhereKnown` |
| `struct_tags` | four objects, two tags, two aliases, three bodies, one block inside another | `CompletedAsKnown` (`FirstMentionsCompleted`, `FirstAliasCompleted`), `NeverOtherFields`, `OneBodyEach` |
| `const_init` | initialisers of up to three leaves over arrays, one of them extern, an int and a pointer variable, two enumerators, one of them zero, a string; nine targets | `FoldsAsC`, `DataAsC` (`ReadsBack`, `StringFillsArray`), `AcceptsConstants` (`RefusesOnly`, `SumsOfAddressesOnly`, `TakesOnly`) |
| `expr_widths` | expressions of any depth, three at a time waiting on the stack, over int, char, enumerators, pointers and arrays | `ResultsHold`, `MisreadsOnly` (`OperatorsExtend`, `ReadsRax`, `UsedAsWide`), `RefusesOnly` |
| `codegen_boundary` | as `codegen_calls` | violated: `CallsOnBoundary` |
| `codegen_return` | one operator | violated: `UsesSeeValue` |

**Why the bounds are enough.** *SemaFunc*: a slot conflict needs a scope that
reverts the mark, a variable that survives it, and a new variable; that is
nesting two, a sibling, and three declarations of at most two sizes. Nesting
three adds an outer scope that must survive both, and a switch between blocks; it
also puts two constructs of every pair of kinds around a jump. One function is
enough to confuse two labels, and the theorems then cover every bound, functions
following each other included. *CodegenStack*: every node's
sequence of steps is fixed, so a fault shows in the node itself or in a direct
child that leaves the wrong height; nesting three has an operator, its operand
and that operand's own operand under a statement. `MaxLabels` is 0 for
`codegen_calls`, which leaves out nodes with labels: they are the question of
`codegen_labels`, where two shapes of leaf operands (one that leaves rax equal to
the pushed word, one that has to reload it) are enough to tell operands apart. Being variadic only moves the frame by 56 bytes, so only
`codegen_calls` has both kinds of functions.
*Declarations*: a property relates at most three declarations of one name.
*Vectors*: the interesting states are a full fresh vector, a full grown one and
one just grown. *Tokenizer*: no token of ccatd is longer than three characters
unless it is a run or a literal, and the pieces hold opened, closed and
self-closing literals, so that every pair of neighbours and every way out of a
literal is met. *Parser*: a wrong precedence shows between two operators and three
operands, a wrong body or else between three statements; pieces of several tokens
(`while ( id )`, `, T id`) keep the bound for what is in question. *StructTags*: a
type that is left incomplete takes a mention, a body and a mention in between; the
fourth object and the third body allow for one tag inside the other and for a
repeated body. *ConstInit*: sums are flattened pairwise, so three leaves show every
fold, that of a folded sum included; targets have strings shorter than,
as long as and longer than the array. *ExprWidths*: the state space is finite
without a bound on depth, since only what is known of the operands is kept.
*StringBuilder*: with capacity one the builder grows at the second and the third
byte, in the middle of a literal and of an escape sequence.

**Deadlock** is checked in every run. The end of a compilation and `error_loc`
are the explicit stuttering action `Stop`, so a deadlock would be a tree on which
a pass gets stuck.

**Fairness.** `Tokenizer` assumes `WF_vars(Step)` for `Terminates`: the compiler is
one sequential process that nothing blocks, so it takes its next iteration as
long as there is one, and the property says that the iterations come to an end.
The other passes are structural recursion over a finite tree; whether they end is
not in question, they state no liveness and assume no fairness.

### What the violated runs show

* `codegen_boundary`. The comments at `codegen.c:317` and `codegen.c:320` say
  that the padding in front of a call puts rsp on a "16-bit boundary" (16
  *bytes* is what the ABI asks for and the code computes). It does not when the
  call stands in the right operand of a binary operator or in a later argument
  of another call: the words already pushed are not in `stack_depth`.
  `PaddingUpToPending` shows that this is the only reason: everywhere else the
  account is exact.
* `codegen_return`. `return 1 && 2;` returns 2; a compiled program that does so
  was run and confirms it. `&&` and `||` push 1 after
  popping the operand into rax, and `ND_RETURN` and `~` use rax. `!`, `&&` and
  `||` also read rax, and `TestsSeeTruth` shows that they are right to: both
  words are zero or neither is. The suite asserts `1 && 2` is 1
  (`test/test_operators.c:29`) as an argument, which is popped.

## Proofs

`SemaFuncProofs` proves, for *every* set of names, sizes and enumerator lists,
every number of parameters, functions, nested statements and labels, and every
frame size:

* `Invariance`: `Spec => []IInv`;
* `TypeCorrect`, `JumpsNested`, `ScopesBalanced`, `LabelsNeverShared` and
  `SlotsNeverOverlap`: the invariants of the run `sema`;
* `Refinement`: `Spec => ImplementsSlots`.

The assumptions are `SemaAssumption` only: sizes and bounds are natural numbers
and enumerator lists are sequences of names.

`SlotsDisjoint` is not inductive: it speaks about the scopes that are open,
while a step that leaves a block sets the allocation to a *saved* mark, about
which it says nothing. The strengthening `IInv` has

* `MarksHold`: the slots of the scopes that will still be open when a block is
  left end at or below the mark it will revert to. The pass keeps the marks in C
  locals, so the invariant speaks about all activations at once;
* `EntriesApart`: slots are pairwise apart (parameters of more than 8 bytes
  excepted, see below);
* `CallsNested`, `JumpTargets`, `ScopesNested`: label stacks and scopes are
  functions of the activations. `CountTo` counts activations of given kinds, and
  most lemmas in the first half are about it;
* `LabelsUsedUp`: numbers given are below `jump_id`.

Since 19 actions change `calls` and the label stacks in only six ways, lemma
`Effects` reduces each step to one of them (nothing, one statement counted, a
call pushed with or without labels, a call popped, a function entered or left),
and the invariants are proved per effect. `Refinement` then needs per action
that granted slots keep their bytes: `SlotsOfEntries` and the lemmas around it.

`VectorsProofs` proves the three properties of `Vectors` for every initial
capacity, length and set of items: `TypeCorrect`, `Strays` and `Refinement`
(`Spec => ImplementsStack`). It assumes `VectorsAssumption`: the capacity is
positive and a fresh block has at least two words for each slot (a `Node` is much
larger than a pointer). The second is what keeps a fresh full vector from writing
outside its block when it is popped. The inductive invariant adds to `TypeOK`
that the block is exactly as large as the capacity once the vector has grown
(`Block`) and that everything below the length was pushed.

`DeclarationsProofs` proves, for a file of any length, every set of types and names
and every list of builtins, `Invariance`, `TypeCorrect`, and the four properties of
the run `declarations`: `AllDeclarationsAgree`, `CallsKeepTheirShape`,
`ReferencesHold` and `StorageGivenOnce`. It assumes `DeclarationsAssumption`: the builtins are
a list in which no name appears twice, and the bounds are natural numbers. That a call
still fits at the end is not inductive, because `func_env` is rebound in between
and the code only compares a declaration with *the binding before it*. The
strengthening has

* `BindingStands`: the binding of a name agrees with *every* declaration
  accepted so far, and is a definition if one of them is. It survives a rebinding
  because agreement is an equivalence (`TypeSigMatchEquivalence`,
  `MatchedTransitive`): accepting any two pointers for each other, as `TypeSigMatch`
  does, would not be harmless otherwise;
* `CallsStand`: every accepted call agrees with the binding its name has now;
* `GlobalsAgree`: `sema_globals` compares each variable with the earlier ones only,
  which is enough because a conflict is symmetric;
* `EmittedStored`, `ReferencesSeen`, `SeenDeclared`, `ParsedFirst`: what the passes have done so far.

`map_find`, a `CHOOSE` of the latest binding, is replaced by facts about it
(`FindIsLatest`, `FindUnique`, `FindAppend`); that there is a latest one is the
well-foundedness of `<` on the places counted from the end.

`CodegenStackProofs` proves, for trees of any size and nesting, every list of frame
sizes and expression shapes taken from the code generator's, `Invariance`, `TypeCorrect`, and
all other properties of the runs `codegen_calls` and `codegen_labels`:
`EveryNodeBalanced`, `EveryStatementAtFrame`, `OneHeightPerLabel`,
`OneTargetPerJump` (which are `Balanced`, `StatementsAtFrame`, `LabelHeights`,
`JumpsHaveOneTarget`), `EveryTestSeesTruth` (`TestsSeeTruth`) and
`PaddingMissesHeldOnly` (`PaddingUpToPending`). None is inductive:
`Balanced` speaks about the end of a call and the heights of labels about places the
generator may not have come to, so that a jump out of an operand into the middle of
another would not contradict them in time. The idea of the proof is that every
node's emission has a *plan* (`Plans`): the height of the stack before each of its
steps relative to where it began (`h`), how much of that is in `stack_depth`
(`d`), and the places where rax and the word at rsp are zero together (`g`). `StepOK`
says what a step does to the three, with the height a label has (`LabelHeight`) the same for
all who jump to it. For each node there is a lemma that it has a plan
(`LvalPlans`, `ExprPlans`, `StmtPlans` and the lemmas they split into) and
that its labels are its own (`Tidy`). The inductive invariant then has

* `CallsOK`, `Nested`, `Here`: every active call has a plan, was made at the height of
  its caller's step, and the emitted code stands where the innermost plan says;
* `StepLabels`, `LabelsOwned`: a label is placed by one call only; jumps go to the
  call's own labels, to the end of the function, or to the labels `break` and
  `continue` have in a loop or switch around;
* `ArrivalsOK`: a jump already emitted goes to a label of an active call and
  found the height that call has there, behind it or ahead;
* `PlacedOK`: of an active call, the labels behind `pc` are placed and those ahead are
  not.

Each action has a lemma per part of the invariant it disturbs. The padding has an
invariant of its own, `HeldOK`: the stack below a call is what `stack_depth` says and
the words the calls around it hold (`HeldAround`). How many these are is a number of
elements of a set and not a sum, so that each call adds its own to the set
(`HeldMore`); `ChildAt` in the plans says how many of a node's words are held at each
child. Steps change the calls in only four ways (`Moves`). The assumptions are
`CodegenAssumption` (frames and bounds are natural numbers) and
`ShapesAssumption` (the constant `Shapes` selects among the shapes of `gen_expr`).

`StructTagsProofs` proves, for every set of tags and any number of mentions, nested
bodies, aliases and blocks, `Invariance`, `TypeCorrect`, and the three properties of the
run `struct_tags`: `MentionsCompleted` (`CompletedAsKnown`), `NoMixup`
(`NeverOtherFields`) and `OneBody` (`OneBodyEach`). The assumption is `TagsAssumption`:
`NoTag` is no tag and the bounds are natural numbers. The three say nothing of
which object a tag is bound to, so they do not survive the step that completes it.

For `OneBodyEach` the strengthening is `Bodies`, which holds however tags are shadowed: an
entity is bound once (`Once`), a struct without a tag is new (`Fresh`), and an entity that
is not shadowed and has a body has a complete object in its own scope (`Filled`), which
the test for a second body finds. While the body is parsed, its object is
bound there or nowhere (`Begun`).

For the other two the strengthening relates the scopes of the parser to those of C while
`shadowed` is empty:

* `OneScope`, `OneTag`: a tag is bound in one scope, an entity to one tag; this is
  where `shadowed` is needed, and where the proof breaks without it;
* `Bindings`: an object that is bound has its tag and its entity; an entity without an
  object beside it is that of a struct just being parsed. So `env_find`, which looks
  in all scopes, finds the object of the scope the body belongs to (`Beside`);
* `CompleteBound`: the object beside a complete entity has fields, so that the test of
  `parse_struct` for a second body, which looks at the object only, never misses;
* `FirstBound`, `LateComplete`: the only incomplete object the code completes later is
  the first one of the entity; `AliasOutermost`, `Unnamed`: the alias it turns to the new object
  is of the entity that is completed;
* `Anonymous`, `OpenHere`: whose the bodies being parsed are.

`Meanings` is their conjunction; there is a lemma per action that it is
preserved, from the effect of `parse_struct` in terms of objects and entities
(`NewObject`, `NewBinding`, `NewAlias`, `NewMeaning`).

`ExprWidthsProofs` proves, for expressions of any size and any set of types,
`Invariance` and the three properties of the run `expr_widths`: `ValuesComplete`
(`ResultsHold`), `NoOtherMisread` (`MisreadsOnly`) and `NoOtherRefusal`
(`RefusesOnly`). The assumption is `TypesAssumption`: variables are scalars or
arrays of scalars with at least one element, casts, parameters and functions have
scalar types, and what a pointer points to may itself be the type of an expression.
`MisreadsOnly` speaks about the state after a misread only, so it needs to know of
every expression on the stack (`Sure`):

* what `ResultsHold` says, and that the sure bytes of a word are 0, 1, 4 or 8;
* that an lvalue's word is never a number known to be non-negative, which is why `x /= y` and
  `p += x` are exceptions even where `x` is one;
* that the address of an lvalue has one of the types too.

`Excused` is what `MisreadsOnly` allows a reader, as a function of its operands. There
is a lemma per action: either the code reads no more than is sure and
leaves an expression that is sure (`RightUse`), or the reader is excused
(`WrongUse`). The operators of arithmetic split by the five mixes of types that
`sema_expr_arith` lets through (`ArithMixes`).

`TokenizerProofs` proves, for every text of any length, every set of letters and of
keywords and every capacity of a new builder, `Invariance` and all
safety properties of the run `tokenizer`: `TypeCorrect`, `EveryPlaceKept` (`PlacesKept`),
`EveryLiteralArrives` (`LiteralArrives`), `ScansEveryTextAsC` (`ScansAsC`) and
`AcceptsEveryTextAsC` (`AcceptsAsC`). The assumptions are `LettersAssumption` and
`QuoteAssumption` (`isalpha` accepts no blank, no NUL, no quote and no character of an operator),
`FilesAssumption` (files are sequences of characters, none of which is the mark `Junk`),
`JunkAssumption` (nor is a character `escape_string` adds), `BuilderAssumption` and
`WidthAssumption` (a `long` holds more than an `int`). A file may hold NUL
characters, which end the scan outside of a line comment. The strengthening has

* `TextOK`: the text ends in the newline that `read_file` made sure of. With `PhaseOK`,
  that a line comment is never behind the last character, it keeps the one loop inside
  that does not look for NUL;
* `PhaseOK`: blanks or a quote are behind a string that was closed, which is where
  its token will be located;
* `BuilderOK`: the block is as large as the capacity says, the length is at most that, and
  every byte below it was written;
* `TokensOK`: every token is located where it begins, which the text does not change.

The lemmas about places (`Onward`, `NextLine`) say how `Line` and `Column`, which count
newlines in the text, change over a stretch without one and at one; `SpanIs` and
`MemOpIs` what a run of characters and the first operator that fits are made of.

`EveryLiteralArrives` speaks of three folds over the characters of a string: `strbld_append_str`,
`escape_string` and what the assembler reads. A fold is a recursive function over the
sets of places, so the proof first shows that there is one (`FoldExists`), for any number of
places, and that it takes one character after the other (`FoldSteps`), both by a
least counterexample (`UpTo`). Then the builder of `escape_string` extends itself by one or two
bytes for a character (`EscapeIs`, `AppendStrIs`) and keeps the others (`EscapedKept`), and
where a character's bytes end the assembler is outside of an escape sequence and has
read the string up to that character (`Arrives`). That the literals hold neither NUL nor `Junk`
(`LiteralsOK`) is a second invariant, next to `IInv`.

For `ScansAsC` and `AcceptsAsC` there is a third, `ScanInv`. It holds if C meets
no error in the text, or at the first one nothing that ccatd lets through (`Agreed`, `FirstBadIs`), and
says in each loop where the scanner is in C's reading of the text:

* in the main loop (`ReadsScan`), that what C reads from `p` on is the rest of its lexemes,
  with no error before (`Bound`), and that the tokens made are those of C and what is left
  of them begins at `p` (`Due`);
* in a comment (`ReadsLine`, `ReadsComment`), that this was so at the place where it was
  opened, and that it is still open;
* in a string (`ReadsString`), the same, and that the builder holds the strings before this
  one and then the characters of this one up to `p` (`Pending`, `InText`): adjacent strings
  are one token, which C has at the first of them and the code makes after the last;
* behind a string (`ReadsClosed`), that only blanks have followed it (`Follows`, `Ended`);
* at an error (`Refused`), that C has one too, or that the last lexeme is a string or a
  character constant is too long (`CharRefused`).

It follows the scanner through the tokens of C as ccatd reads them, with its own escapes
and numbers (`AsTokensFrom`), and only then compares these with C's: they are the same
lexemes joined in the same way (`TokensAlike`), and where the escapes are `KnownEscapes`
they hold the same characters (`ReadAlike`).

For each kind of lexeme there is a lemma that what the branch takes is what C has at that
place (`LineComment`, `BlockComment`, `StringLexeme`, `CharLexeme`, `RunLexeme`,
`OperatorLexeme`) or that C has an error there that ccatd lets through (`NumberIntoWord`).
`FirstFits` is about the table `ops`: of two operators that fit, the one that is listed
first is not shorter. Then there is a lemma per action that it keeps `ScanInv`. That the
recursive functions of `CLexemes` have the values their definitions ask for (`LexemesExist`,
`TokensExist`, `ReadsToExists`) is shown by a least counterexample, from the end of
the text (`FromEnd`).

`ConstInitProofs` proves, for initialisers of any size over any globals, enumerators,
strings and numbers, `Invariance` and all properties of the run `const_init`:
`FoldingKeepsValue` (`FoldsAsC`), `TakesConstantsOfC` (`AcceptsConstants`) and
`DataHoldsValues` (`DataAsC`). The assumption is `ConstAssumption`: types and literals
have sizes and numbers are integers. `FoldsAsC` says what a folded expression
means, which is not enough to fold the next operator: the sum must be flat, and its
name the one C means. `ExprOK` says so of every expression, folded or not:

* `IntOK`: an integer that C knows is folded to its number or to an enumerator;
* `PtrOK`: a pointer is folded to a name or to a name and one number, whether C knows it or
  not, and the number times the size of what it points to is the distance C means
  (`FoldSumIs`, `DistanceOK`);
* `NameOK`: a name that `gen_const` takes for an address is a variable's, and one whose
  value C knows is an array, an address or a string;
* `LeftOK`: what remains of that in a list, whose elements nobody folds; in a flat one there
  was nothing to fold.

An expression with an error is never looked into, and has a value in C only if its error
is not one of operands (`Sound`). That `AcceptsConstants` holds at the end follows with the lemmas on what
`gen_const` prints (`IntegerTaken`, `NameTaken`, `SumTaken`, `ListTaken`) and on what is
assignable (`ValidAssignable`, `AssignableTaken`). For `DataAsC`
the invariant remembers what was printed (`EmittedOK`), each directive holds the
value of its expression (`FoldedHolds`, `FlatFolded`), and the directives are where their sizes put
them (`EvenSteps`). `Start` is a recursive function over the directives; that it has
the values its definition asks for (`StartIs`) and what it adds up to are shown by a
least counterexample, since the induction theorems of the library cannot be used.

Checked by TLC only:

* everything about `ExprParser`, `StmtParser`, `Parser` and their references
  (`ParsesAsC`, `AllOperandsUsed`, `CrashesWhereKnown`): mutually recursive operators, as
  the functions of parse.c and the productions of C's grammar are;
* `Terminates`, the one liveness property, and ENABLED, of which no theorem speaks.

## Limits of the models

* A struct or array parameter is accepted by `sema_func` and gets one 8-byte
  slot whatever its size. It does overlap its neighbour; `SlotsDisjoint` excludes
  such parameters through `Stored`, since the code generator passes one register
  per parameter and does not support them.
* `Declarations` compares the parameters of two declarations, as `sema_func`
  does, and neither return types nor whether they are variadic.
* More than six parameters or arguments index behind `arg_regs64`. The instances
  stay below that; `SemaFunc` is right for any number.
* `CodegenStack` does not say how many bytes of a word mean something, and
  `ExprWidths` nothing about jumps: a `?:`, `&&` or `||` is the meet of its ways.
* `ExprWidths` and `ConstInit` have no struct values; attributes appear as
  lvalues of their own type. Arrays of arrays are left out.
* Whether an identifier is an alias is fixed with the token; a variable that
  hides an alias is not considered by `ExprParser`.
* `StmtParser` takes a specifier with its body as one token; what happens inside
  is `StructTags`, and fields are declared by the declarators modelled here.
* `Tokenizer` has a few letters and one keyword; strings of more than one
  character matter for the operators only.
* Numbers are mathematical in `ConstInit`: its bounds keep them in 32 bits. An extern
  array stands in the instance for every variable that `global_env` does not hold.
* `Declarations` compares pointers by the name of their target.
* `map_find`'s search order is modelled (latest binding first); its strings are
  not.
* `phase = "exit"` stands for the process ending; messages are not modelled.

## Not modelled

The formatting of error messages and of the assembly text, the calls
that read the file and the arguments, runtime.c and the test programs, which hold
no state of the compiler.

## Plan

1. Done: `SemaFunc` with `SlotAllocator` and proofs, `CodegenStack`,
   `Declarations`, `Vectors` with `Stack` and proofs.
2. Done: the front end (`Tokenizer`, `StringBuilder`, `Parser`, `StructTags`) against
   references of C; `ConstInit`, `ExprWidths`.
3. Theorems. Done: `Declarations`, `CodegenStack`, `StructTags`, `ExprWidths`,
   `Tokenizer` with `CLexemes`, `ConstInit`. Left: the properties of `Parser`, which
   would need its operators as recursive functions.
4. A composition of `SemaFunc` and `CodegenStack`: the frame offsets and the
   names the one writes are those the other needs.
