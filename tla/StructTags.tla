----------------------------- MODULE StructTags -----------------------------
(***************************************************************************)
(* Tags in the parser: parse_struct, parse_enum, typedef and the scopes    *)
(* that block() opens. Every mention of a struct makes an object of its    *)
(* own, with the fields the tag has at that moment; what it learns later   *)
(* depends on who else points to the object. A list of fields is the       *)
(* number of the body it was parsed from, 0 is NULL.                       *)
(*                                                                         *)
(* Beside this, meaning follows what C says a tag denotes: an entity, that *)
(* is, one declaration of the tag in one scope.                            *)
(***************************************************************************)
EXTENDS Naturals, Sequences, SequencesExt, FiniteSets

CONSTANTS Tags, NoTag,
          MaxStructs, MaxAliases, MaxBodies, MaxNesting   \* bounds of the instance

ASSUME TagsAssumption ==
  /\ NoTag \notin Tags
  /\ {MaxStructs, MaxAliases, MaxBodies, MaxNesting} \subseteq Nat

VARIABLES structs,      \* the Struct objects: name and fields
          struct_env,   \* scopes, innermost last, of bindings to objects
          enum_env,     \* scopes of bindings to enumerator lists
          aliases,      \* the object each alias of a struct type points to
          open,         \* structs whose fields are being parsed
          bodies,       \* lists of fields and of enumerators made so far
          phase,
          meaning,      \* of each object, alias: its entity in C, and how it was made
          entities,     \* the bodies C gives to each entity
          c_env,        \* the scopes of C, of bindings to entities
          shadowed      \* entities given a body where only an outer scope has the tag

vars == <<structs, struct_env, enum_env, aliases, open, bodies, phase,
          meaning, entities, c_env, shadowed>>

C == <<meaning, entities, c_env, shadowed>>

\* map_find: the latest binding. 0 is NULL.
MapFind(map, tag) ==
  LET n == SelectLastInSeq(map, LAMBDA b : b.tag = tag)
  IN  IF n = 0 THEN 0 ELSE map[n].to

\* env_find: the innermost scope that has one.
EnvFind(env, tag) ==
  LET n == SelectLastInSeq(env, LAMBDA map : MapFind(map, tag) # 0)
  IN  IF n = 0 THEN 0 ELSE MapFind(env[n], tag)

\* env_push: into the innermost scope.
EnvPush(env, tag, to) ==
  [env EXCEPT ![Len(env)] = Append(@, [tag |-> tag, to |-> to])]

Fields(s) == IF s = 0 THEN 0 ELSE structs[s].fields

AtTopLevel == Len(struct_env) = 1 /\ open = <<>>

Exit == phase' = "exit"
        /\ UNCHANGED <<structs, struct_env, enum_env, aliases, open, bodies, C>>

-----------------------------------------------------------------------------
\* What C makes of a tag. A mention without a body denotes the visible entity, or
\* declares one; a body belongs to the entity of the innermost scope.

CLookup(tag, hasBody) ==
  IF tag = NoTag THEN 0
  ELSE IF hasBody THEN MapFind(Last(c_env), tag) ELSE EnvFind(c_env, tag)

CDeclare(tag, hasBody) ==
  IF CLookup(tag, hasBody) # 0 THEN UNCHANGED <<entities, c_env>>
  ELSE /\ entities' = Append(entities, {})
       /\ c_env' = IF tag = NoTag THEN c_env ELSE EnvPush(c_env, tag, Len(entities) + 1)

CMeans(tag, hasBody) ==
  IF CLookup(tag, hasBody) # 0 THEN CLookup(tag, hasBody) ELSE Len(entities) + 1

-----------------------------------------------------------------------------
\* The rest of parse_struct, once the tag and the fields are read.

LocalStruct(tag) == MapFind(Last(struct_env), tag)

\* Mutant: a second body is no error.
DuplicateStructNever(tag, fields) == FALSE

DuplicateStruct(tag, fields) ==
  tag # NoTag /\ fields # 0 /\ LocalStruct(tag) # 0 /\ Fields(LocalStruct(tag)) # 0

\* The alias that is pointed at the new object: the first of that tag.
AliasOf(tag) == SelectInSeq(aliases, LAMBDA a : structs[a].name = tag)

\* Mutant: an object that was made before the body stays as it was.
CompletedNever(tag, fields) == structs

\* The object of the first mention in the scope gets the fields.
Completed(tag, fields) ==
  IF LocalStruct(tag) # 0 /\ fields # 0
  THEN [structs EXCEPT ![LocalStruct(tag)].fields = fields] ELSE structs

Patched(tag, s) == IF AliasOf(tag) = 0 THEN aliases ELSE [aliases EXCEPT ![AliasOf(tag)] = s]

\* typedef makes an alias of the type just parsed.
Aliases(as, s, named) == IF named THEN Append(as, s) ELSE as

ParseStruct(tag, fields, entity, named) ==
  LET existing == IF tag = NoTag THEN 0 ELSE EnvFind(struct_env, tag)
      s == Len(structs) + 1
      own == IF fields = 0 /\ existing # 0 THEN Fields(existing) ELSE fields
      before == IF existing = 0 THEN structs ELSE Completed(tag, fields)
  IN  /\ structs' = Append(before, [name |-> tag, fields |-> own])
      /\ struct_env' = IF tag # NoTag /\ existing = 0 THEN EnvPush(struct_env, tag, s) ELSE struct_env
      /\ aliases' = Aliases(IF existing = 0 THEN aliases ELSE Patched(tag, s), s, named)
      /\ meaning' = [object |-> Append(meaning.object,
                                       [entity |-> entity, first |-> existing = 0,
                                        late |-> entity <= Len(entities) /\ entities[entity] # {}]),
                     alias |-> Aliases(meaning.alias, entity, named)]

\* struct T, wherever a type may be; with typedef only at top level.
Mention(tag, named) ==
  /\ Len(structs) < MaxStructs /\ (named => AtTopLevel /\ Len(aliases) < MaxAliases)
  /\ CDeclare(tag, FALSE)
  /\ ParseStruct(tag, 0, CMeans(tag, FALSE), named)
  /\ UNCHANGED <<enum_env, open, bodies, phase, shadowed>>

\* struct T {
OpenBody(tag) ==
  /\ bodies < MaxBodies /\ bodies' = bodies + 1
  /\ open' = Append(open, [tag |-> tag, fields |-> bodies + 1, entity |-> CMeans(tag, TRUE)])
  /\ CDeclare(tag, TRUE)
  /\ shadowed' = IF tag # NoTag /\ LocalStruct(tag) = 0 /\ EnvFind(struct_env, tag) # 0
                  THEN shadowed \cup {CMeans(tag, TRUE)} ELSE shadowed
  /\ UNCHANGED <<structs, struct_env, enum_env, aliases, phase, meaning>>

\* }
CloseBody(named) ==
  LET top == Last(open)
  IN  /\ open # <<>> /\ Len(structs) < MaxStructs
      /\ named => Len(open) = 1 /\ Len(struct_env) = 1 /\ Len(aliases) < MaxAliases
      /\ IF DuplicateStruct(top.tag, top.fields) THEN Exit
         ELSE /\ ParseStruct(top.tag, top.fields, top.entity, named)
              /\ entities' = [entities EXCEPT ![top.entity] = @ \cup {top.fields}]
              /\ open' = Front(open)
              /\ UNCHANGED <<enum_env, bodies, phase, c_env, shadowed>>

\* typedef A B, where A is an alias: B gets the object A has at that moment.
TypedefAlias(a) ==
  /\ AtTopLevel /\ Len(aliases) < MaxAliases
  /\ aliases' = Append(aliases, aliases[a])
  /\ meaning' = [meaning EXCEPT !.alias = Append(@, @[a])]
  /\ UNCHANGED <<structs, struct_env, enum_env, open, bodies, phase, entities, c_env, shadowed>>

\* enum E { ... }, and enum E.
EnumBody(tag) ==
  /\ bodies < MaxBodies
  /\ IF MapFind(Last(enum_env), tag) # 0 THEN Exit
     ELSE /\ bodies' = bodies + 1
          /\ enum_env' = EnvPush(enum_env, tag, bodies + 1)
          /\ UNCHANGED <<structs, struct_env, aliases, open, phase, C>>

EnumUndefined(tag) == EnvFind(enum_env, tag) = 0 /\ Exit

EnterBlock == /\ open = <<>> /\ Len(struct_env) <= MaxNesting
              /\ struct_env' = Append(struct_env, <<>>)
              /\ enum_env' = Append(enum_env, <<>>)
              /\ c_env' = Append(c_env, <<>>)
              /\ UNCHANGED <<structs, aliases, open, bodies, phase, meaning, entities, shadowed>>

\* Mutant: the scope of the enum tags stays open.
LeaveBlockHalf == /\ open = <<>> /\ Len(struct_env) > 1
                  /\ struct_env' = Front(struct_env) /\ c_env' = Front(c_env)
                  /\ UNCHANGED <<structs, enum_env, aliases, open, bodies, phase, meaning, entities, shadowed>>

\* Mutant: the tags of structs outlive the block.
LeaveBlockTags == /\ open = <<>> /\ Len(struct_env) > 1
                  /\ struct_env' = [Front(struct_env) EXCEPT ![Len(struct_env) - 1] = @ \o Last(struct_env)]
                  /\ enum_env' = Front(enum_env) /\ c_env' = Front(c_env)
                  /\ UNCHANGED <<structs, aliases, open, bodies, phase, meaning, entities, shadowed>>

LeaveBlock == /\ open = <<>> /\ Len(struct_env) > 1
              /\ struct_env' = Front(struct_env)
              /\ enum_env' = Front(enum_env) /\ c_env' = Front(c_env)
              /\ UNCHANGED <<structs, aliases, open, bodies, phase, meaning, entities, shadowed>>

Init == /\ structs = <<>> /\ struct_env = <<<<>>>> /\ enum_env = <<<<>>>>
        /\ aliases = <<>> /\ open = <<>> /\ bodies = 0 /\ phase = "parse"
        /\ meaning = [object |-> <<>>, alias |-> <<>>]
        /\ entities = <<>> /\ c_env = <<<<>>>> /\ shadowed = {}

\* The end of the text, or of the process.
Stop == /\ phase = "exit" \/ AtTopLevel \/ (open # <<>> /\ Len(structs) = MaxStructs)
        /\ UNCHANGED vars

Next ==
  \/ /\ phase = "parse"
     /\ \/ \E tag \in Tags, named \in BOOLEAN : Mention(tag, named)
        \/ \E tag \in Tags \cup {NoTag} : OpenBody(tag)
        \/ \E named \in BOOLEAN : CloseBody(named)
        \/ \E a \in DOMAIN aliases : TypedefAlias(a)
        \/ \E tag \in Tags : EnumBody(tag) \/ EnumUndefined(tag)
        \/ EnterBlock \/ LeaveBlock
  \/ Stop

Spec == Init /\ [][Next]_vars

-----------------------------------------------------------------------------
Complete(entity) == entities[entity] # {}

\* Objects and bindings stay well-formed.
TypeOK ==
  /\ \A s \in DOMAIN structs : structs[s].name \in Tags \cup {NoTag} /\ structs[s].fields \in 0..bodies
  /\ \A n \in DOMAIN struct_env : \A b \in ToSet(struct_env[n]) : b.to \in DOMAIN structs
  /\ Len(enum_env) = Len(struct_env) /\ Len(c_env) = Len(struct_env)
  /\ ToSet(aliases) \subseteq DOMAIN structs /\ Len(meaning.alias) = Len(aliases)
  /\ Len(meaning.object) = Len(structs)

\* A type mentioned before its struct is complete is completed with it, if it is
\* the first mention in its scope; a type mentioned later has the fields at once.
\* All others stay incomplete for ever: the second pointer to itself in a struct
\* that no typedef has announced is one.
FirstMentionsCompleted ==
  shadowed = {} =>
    \A s \in DOMAIN structs :
      LET made == meaning.object[s]
      IN  Complete(made.entity) /\ (made.first \/ made.late) =>
            structs[s].fields \in entities[made.entity]

\* The first alias of a tag is pointed at every later object of the tag, so it is
\* complete as soon as the struct is.
FirstAliasCompleted ==
  shadowed = {} =>
    \A a \in DOMAIN aliases :
      /\ \A b \in 1..(a - 1) : structs[aliases[b]].name # structs[aliases[a]].name
      /\ Complete(meaning.alias[a])
      => structs[aliases[a]].fields \in entities[meaning.alias[a]]

\* Both ways in which a type is completed after it was made.
CompletedAsKnown == FirstMentionsCompleted /\ FirstAliasCompleted

\* No type ever has the fields of another struct than the one its tag denotes, as
\* long as no block gives a body to a tag of an outer scope: parse_struct then
\* takes the inner struct for the outer one and moves the alias to it.
NeverOtherFields ==
  shadowed = {} =>
    /\ \A s \in DOMAIN structs :
         structs[s].fields \in {0} \cup entities[meaning.object[s].entity]
    /\ \A a \in DOMAIN aliases :
         structs[aliases[a]].fields \in {0} \cup entities[meaning.alias[a]]

\* A tag is given one body in a scope at most, through all mentions, nested bodies
\* and blocks. The exception: in a block, a tag that an outer scope has and the
\* block's own does not gets no binding of its own from a body (parse.c:224-230), so
\* nothing is found there when a second one comes, and it is accepted:
\* struct T { .. }; { struct T { .. } x; struct T { .. } y; }
OneBodyEach == \A e \in DOMAIN entities \ shadowed : Cardinality(entities[e]) <= 1
=============================================================================
