---------------------------- MODULE Declarations ----------------------------
(***************************************************************************)
(* The life of the top-level declarations of a translation unit: toplevel  *)
(* and parse_func collect them (parse.c), sema_globals and sema_func check *)
(* them against each other and enter them into func_env (semantic.c), and  *)
(* gen_globals and gen_expr look them up once more (codegen.c), when       *)
(* func_env holds what the whole file declared.                            *)
(*                                                                         *)
(* A function body is abstracted to the calls it makes and the globals it  *)
(* refers to.                                                              *)
(***************************************************************************)
EXTENDS Integers, Sequences

CONSTANTS FuncNames, VarNames,
          Types,                 \* records [ty, to]: a kind, and what a pointer or array is of
          Builtins,              \* the functions init enters into func_env
          MaxDecls, MaxParams    \* bounds of the instance

Kinds == {"void", "int", "char", "ptr", "array", "struct", "enum"}
Type == [ty : Kinds, to : STRING]
FuncDecl == [name : FuncNames, params : Seq(Type), is_varargs : BOOLEAN,
             is_extern : BOOLEAN, seen : Nat]
VarDecl == [name : VarNames, type : Type, is_extern : BOOLEAN]

ASSUME DeclarationsAssumption ==
  /\ Types \subseteq Type
  /\ Builtins \in Seq(FuncDecl)
  /\ \A i, j \in DOMAIN Builtins : Builtins[i].name = Builtins[j].name => i = j
  /\ {MaxDecls, MaxParams} \subseteq Nat

VARIABLES
  phase,        \* "parse", "funcs" and "body" (outside and inside a sema_func), "gen", "exit"
  functions,    \* every function declaration of the file, in order
  global_vars,  \* every global variable declaration of the file, in order
  done,         \* functions sema_func has returned from
  func_env,     \* bindings of function names, latest last
  checked,      \* the calls accepted: the name, and the parameters they were checked against
  resolved,     \* the references accepted: the declaration a body refers to
  emitted       \* the places in global_vars of the variables gen_globals has given storage

vars == <<phase, functions, global_vars, done, func_env, checked, resolved, emitted>>

-----------------------------------------------------------------------------
(* Types and maps.                                                         *)

\* eq_type, with the target of a pointer or array compared by name; a struct
\* type equals itself only.
EqType(t, u) ==
  IF t.ty = u.ty /\ t.ty \in {"ptr", "array", "struct"} THEN t.to = u.to ELSE t.ty = u.ty

IsPointerCompat(t) == t.ty \in {"ptr", "array"}

TypeSigMatch(t, u) == EqType(t, u) \/ (IsPointerCompat(t) /\ IsPointerCompat(u))

Matched(ps, qs) ==
  /\ Len(ps) = Len(qs)
  /\ \A i \in DOMAIN ps : TypeSigMatch(ps[i], qs[i])

Bound(map, n) == \E i \in DOMAIN map : map[i].name = n

\* map_find: the latest binding.
Find(map, n) == map[CHOOSE i \in DOMAIN map :
                      /\ map[i].name = n
                      /\ \A j \in (i + 1)..Len(map) : map[j].name # n]

-----------------------------------------------------------------------------
(* Parsing.                                                                *)

Exit == phase' = "exit"
        /\ UNCHANGED <<functions, global_vars, done, func_env, checked, resolved, emitted>>

Room == Len(functions) + Len(global_vars) < MaxDecls

ParseVar(n, type, is_extern) ==
  /\ phase = "parse" /\ Room
  /\ global_vars' = Append(global_vars, [name |-> n, type |-> type, is_extern |-> is_extern])
  /\ UNCHANGED <<phase, functions, done, func_env, checked, resolved, emitted>>

\* A declaration without a body is extern, whatever its storage class; one with
\* a body keeps the globals declared so far, its own file position being behind it.
ParseFunc(n, params, is_varargs, is_extern) ==
  /\ phase = "parse" /\ Room
  /\ functions' = Append(functions,
                    [name |-> n, params |-> params, is_varargs |-> is_varargs,
                     is_extern |-> is_extern, seen |-> Len(global_vars)])
  /\ UNCHANGED <<phase, global_vars, done, func_env, checked, resolved, emitted>>

\* A value for an extern variable, a body for an extern function, a syntax error.
ParseError == phase = "parse" /\ Exit

-----------------------------------------------------------------------------
(* Semantic pass.                                                          *)

\* Mutant: only neighbouring declarations are compared.
ConflictAdjacent(g, h) ==
  /\ g.name = h.name
  /\ \E i \in 1..(Len(global_vars) - 1) : h = global_vars[i] /\ g = global_vars[i + 1]
  /\ (~g.is_extern /\ ~h.is_extern) \/ ~EqType(g.type, h.type)

\* Two declarations of a variable that sema_globals rejects.
Conflict(g, h) == /\ g.name = h.name
                  /\ (~g.is_extern /\ ~h.is_extern) \/ ~EqType(g.type, h.type)

SemaGlobals == /\ phase = "parse"
               /\ \A i \in DOMAIN global_vars : \A j \in 1..(i - 1) :
                    ~Conflict(global_vars[i], global_vars[j])
               /\ phase' = "funcs"
               /\ UNCHANGED <<functions, global_vars, done, func_env, checked, resolved, emitted>>

GlobalsClash == /\ phase = "parse"
                /\ \E i \in DOMAIN global_vars : \E j \in 1..(i - 1) :
                     Conflict(global_vars[i], global_vars[j])
                /\ Exit

Current == functions[done + 1]    \* the declaration sema_func is called with

\* Mutant: the parameters of a definition are not compared.
CompatiblePrototype(func, g) == /\ func.is_extern \/ g.is_extern
                                /\ func.is_extern => Matched(func.params, g.params)

\* What sema_func demands of a declaration of a name that is already bound.
Compatible(func, g) == /\ func.is_extern \/ g.is_extern
                       /\ Matched(func.params, g.params)

Accepted(func) == Bound(func_env, func.name) => Compatible(func, Find(func_env, func.name))

\* Mutant: a prototype replaces the definition it follows.
ExternRebinds == func_env' = Append(func_env, Current)

\* A prototype is entered unless the name is bound.
ExternEntered ==
  func_env' = IF Bound(func_env, Current.name) THEN func_env ELSE Append(func_env, Current)

SemaExtern == /\ phase = "funcs" /\ done < Len(functions)
              /\ Current.is_extern /\ Accepted(Current)
              /\ ExternEntered
              /\ done' = done + 1
              /\ UNCHANGED <<phase, functions, global_vars, checked, resolved, emitted>>

\* Mutant: the definition is counted when its body is entered, and again when it ends.
SemaFuncCounted == /\ phase = "funcs" /\ done < Len(functions)
                   /\ ~Current.is_extern /\ Accepted(Current)
                   /\ func_env' = Append(func_env, Current)
                   /\ phase' = "body"
                   /\ done' = done + 1
                   /\ UNCHANGED <<functions, global_vars, checked, resolved, emitted>>

\* A definition is bound before its body is analysed.
SemaFunc == /\ phase = "funcs" /\ done < Len(functions)
            /\ ~Current.is_extern /\ Accepted(Current)
            /\ func_env' = Append(func_env, Current)
            /\ phase' = "body"
            /\ UNCHANGED <<functions, global_vars, done, checked, resolved, emitted>>

\* A parameter of type void, or two of one name. Neither void nor the names are in the
\* model, so any list of parameters may be refused for them.
BadParams(func) == func.params # <<>>

SemaClash == /\ phase = "funcs" /\ done < Len(functions)
             /\ ~Accepted(Current) \/ BadParams(Current)
             /\ Exit

\* sema_expr on ND_CALL: at least the parameters, and no more unless variadic.
SemaCall(n, argc) ==
  /\ phase = "body"
  /\ Bound(func_env, n)
  /\ LET f == Find(func_env, n)
     IN  /\ IF f.is_varargs THEN argc >= Len(f.params) ELSE argc = Len(f.params)
         /\ checked' = checked \cup {[name |-> n, params |-> f.params]}
  /\ UNCHANGED <<phase, functions, global_vars, done, func_env, resolved, emitted>>

\* Mutant: a body sees the globals of the whole file.
VisibleAll == global_vars

\* func->global_vars.
Visible == SubSeq(global_vars, 1, Current.seen)

\* sema_expr on ND_VAR, for a name that is no local.
SemaVar(n) ==
  /\ phase = "body"
  /\ Bound(Visible, n)
  /\ resolved' = resolved \cup {[at |-> Current.seen, decl |-> Find(Visible, n)]}
  /\ UNCHANGED <<phase, functions, global_vars, done, func_env, checked, emitted>>

\* An unknown name, a wrong number of arguments, any other error in a body.
SemaError == phase = "body" /\ Exit

FinishFunc == /\ phase = "body"
              /\ phase' = "funcs"
              /\ done' = done + 1
              /\ UNCHANGED <<functions, global_vars, func_env, checked, resolved, emitted>>

-----------------------------------------------------------------------------
(* Code generation.                                                        *)

\* gen_globals passes over extern variables and everything of an enum type.
StoredVar(g) == ~g.is_extern /\ g.type.ty # "enum"

GenGlobals == /\ phase = "funcs" /\ done = Len(functions)
              /\ phase' = "gen"
              /\ emitted' = {i \in DOMAIN global_vars : StoredVar(global_vars[i])}
              /\ UNCHANGED <<functions, global_vars, done, func_env, checked, resolved>>

\* gen_expr on ND_CALL widens arguments by the parameters it finds now.
ParamsAtCall(n) == Find(func_env, n).params

-----------------------------------------------------------------------------
(* The specification.                                                      *)

ParamLists == UNION {[1..n -> Types] : n \in 0..MaxParams}

Init == /\ phase = "parse"
        /\ functions = <<>> /\ global_vars = <<>>
        /\ done = 0
        /\ func_env = Builtins
        /\ checked = {} /\ resolved = {}
        /\ emitted = {}

Parse == \/ \E n \in VarNames, type \in Types, is_extern \in BOOLEAN : ParseVar(n, type, is_extern)
         \/ \E n \in FuncNames, params \in ParamLists, is_varargs, is_extern \in BOOLEAN :
              ParseFunc(n, params, is_varargs, is_extern)
         \/ ParseError

Sema == \/ SemaGlobals \/ GlobalsClash
        \/ SemaExtern \/ SemaFunc \/ SemaClash
        \/ \E n \in FuncNames, argc \in 0..MaxParams : SemaCall(n, argc)
        \/ \E n \in VarNames : SemaVar(n)
        \/ SemaError \/ FinishFunc

Stop == phase \in {"gen", "exit"} /\ UNCHANGED vars

Next == Parse \/ Sema \/ GenGlobals \/ Stop

Spec == Init /\ [][Next]_vars

-----------------------------------------------------------------------------
(* Properties.                                                             *)

\* The declarations, bindings and references are well-formed, and sema_func has
\* not run ahead of the functions parsed.
TypeOK ==
  /\ phase \in {"parse", "funcs", "body", "gen", "exit"}
  /\ functions \in Seq(FuncDecl)
  /\ global_vars \in Seq(VarDecl)
  /\ done \in 0..Len(functions)
  /\ phase = "body" => done < Len(functions)
  /\ func_env \in Seq(FuncDecl)
  /\ checked \subseteq [name : FuncNames, params : Seq(Type)]
  /\ resolved \subseteq [at : Nat, decl : VarDecl]
  /\ emitted \subseteq DOMAIN global_vars

\* The declarations of functions that sema_func has accepted, the current included.
Past == SubSeq(functions, 1, IF phase = "body" THEN done + 1 ELSE done)

\* Those and the builtins.
All == Builtins \o Past

\* All accepted declarations of a function agree pairwise on the parameters,
\* those of the builtins included, although each is compared with one binding only.
SignaturesAgree ==
  \A i, j \in DOMAIN All : All[i].name = All[j].name => Matched(All[i].params, All[j].params)

\* A function is defined at most once, however its prototypes are interspersed.
DefinedOnce ==
  \A i, j \in DOMAIN All :
    All[i].name = All[j].name /\ i # j => All[i].is_extern \/ All[j].is_extern

\* What is accepted of a function is one definition at most, and declarations that
\* agree with it, in whatever order they come.
DeclarationsAgree == SignaturesAgree /\ DefinedOnce

\* A call is generated for the same number and shape of parameters as it was
\* checked for, although the name may have been bound again in between.
CallsStillMatch ==
  phase = "gen" => \A c \in checked : Matched(ParamsAtCall(c.name), c.params)

\* A body refers to a declaration that precedes its end and that has the type of
\* every other declaration of the variable, later ones included.
ReferencesAgree ==
  \A r \in resolved :
    /\ \E i \in 1..r.at : global_vars[i] = r.decl
    /\ \A i \in DOMAIN global_vars :
         global_vars[i].name = r.decl.name => EqType(global_vars[i].type, r.decl.type)

\* Every variable gets storage at most once, and every variable that is defined
\* and not of an enum type gets it.
StorageOnce ==
  phase = "gen" =>
    /\ \A i, j \in emitted : i # j => global_vars[i].name # global_vars[j].name
    /\ \A i \in DOMAIN global_vars :
         ~global_vars[i].is_extern /\ global_vars[i].type.ty # "enum" => i \in emitted
=============================================================================
