-------------------------- MODULE StructTagsProofs --------------------------
(***************************************************************************)
(* Proofs about StructTags, for every set of tags and any number of        *)
(* objects, aliases, bodies and nested blocks.                             *)
(***************************************************************************)
EXTENDS StructTags, FiniteSetTheorems, SequenceTheorems, WellFoundedInduction, TLAPS

-----------------------------------------------------------------------------
(* The inductive invariant.                                                *)

Map == Seq([tag : Tags, to : Nat])

Typed ==
  /\ structs \in Seq([name : Tags \cup {NoTag}, fields : Nat])
  /\ struct_env \in Seq(Map) /\ enum_env \in Seq(Map) /\ c_env \in Seq(Map)
  /\ Len(struct_env) > 0 /\ Len(enum_env) = Len(struct_env) /\ Len(c_env) = Len(struct_env)
  /\ aliases \in Seq(Nat) /\ bodies \in Nat
  /\ open \in Seq([tag : Tags \cup {NoTag}, fields : Nat, entity : Nat])
  /\ meaning \in [object : Seq([entity : Nat, first : BOOLEAN, late : BOOLEAN]), alias : Seq(Nat)]
  /\ Len(meaning.object) = Len(structs) /\ Len(meaning.alias) = Len(aliases)
  /\ entities \in Seq(SUBSET Nat) /\ shadowed \in SUBSET Nat

InRange ==
  /\ \A s \in DOMAIN structs : structs[s].fields <= bodies
  /\ \A s \in DOMAIN structs : meaning.object[s].entity \in DOMAIN entities
  /\ \A n \in DOMAIN struct_env : \A i \in DOMAIN struct_env[n] :
       struct_env[n][i].to \in DOMAIN structs
  /\ \A n \in DOMAIN c_env : \A i \in DOMAIN c_env[n] : c_env[n][i].to \in DOMAIN entities
  /\ \A a \in DOMAIN aliases :
       aliases[a] \in DOMAIN structs /\ meaning.alias[a] \in DOMAIN entities
  /\ \A i \in DOMAIN open :
       open[i].fields \in 1..bodies /\ open[i].entity \in DOMAIN entities

\* The object, and the entity, bound to a tag in the n-th scope.
Object(n, tag) == MapFind(struct_env[n], tag)
Entity(n, tag) == MapFind(c_env[n], tag)

\* A tag that is bound is so in one scope.
OneScope ==
  \A n, m \in DOMAIN c_env : \A tag \in Tags :
    Entity(n, tag) # 0 /\ Entity(m, tag) # 0 => n = m

\* Every entity is bound once,
OneTag ==
  \A n, m \in DOMAIN c_env : \A tag, other \in Tags :
    Entity(n, tag) # 0 /\ Entity(n, tag) = Entity(m, other) => tag = other

\* and that of an open struct without a tag never; nothing denotes it yet.
Anonymous ==
  \A i \in DOMAIN open : open[i].tag = NoTag =>
    /\ entities[open[i].entity] = {}
    /\ \A n \in DOMAIN c_env : \A tag \in Tags : Entity(n, tag) # open[i].entity
    /\ \A j \in DOMAIN open : i # j => open[j].entity # open[i].entity
    /\ \A s \in DOMAIN structs : meaning.object[s].entity # open[i].entity
    /\ \A a \in DOMAIN aliases : meaning.alias[a] # open[i].entity

\* An open struct with a tag is that of the innermost scope.
OpenHere ==
  \A i \in DOMAIN open : open[i].tag # NoTag =>
    Entity(Len(c_env), open[i].tag) = open[i].entity

\* A binding to an object goes with one to the entity of that object; the converse
\* holds but for a struct that is being parsed.
Bindings ==
  \A n \in DOMAIN struct_env : \A tag \in Tags :
    /\ Object(n, tag) # 0 => /\ structs[Object(n, tag)].name = tag
                             /\ Entity(n, tag) = meaning.object[Object(n, tag)].entity
    /\ Entity(n, tag) # 0 /\ Object(n, tag) = 0 =>
         n = Len(c_env) /\ \E i \in DOMAIN open : open[i].tag = tag

\* Once an entity is complete, the object bound beside it is.
CompleteBound ==
  \A n \in DOMAIN c_env : \A tag \in Tags :
    Entity(n, tag) # 0 /\ Complete(Entity(n, tag)) =>
      Object(n, tag) # 0 /\ structs[Object(n, tag)].fields # 0

\* The first mention of an entity is the object bound beside it.
FirstBound ==
  \A s \in DOMAIN structs : meaning.object[s].first =>
    \A n \in DOMAIN c_env : \A tag \in Tags :
      Entity(n, tag) = meaning.object[s].entity => Object(n, tag) = s

\* What an object found complete stays so.
LateComplete ==
  \A s \in DOMAIN structs : meaning.object[s].late => Complete(meaning.object[s].entity)

\* A struct without a tag is complete.
Unnamed == \A s \in DOMAIN structs : structs[s].name = NoTag => structs[s].fields # 0

\* An alias of a tagged struct is of the tag in the outermost scope.
AliasOutermost ==
  \A a \in DOMAIN aliases : \A tag \in Tags : structs[aliases[a]].name = tag =>
    Entity(1, tag) = meaning.alias[a] /\ Object(1, tag) # 0

AtMostOneBody == \A e \in DOMAIN entities : entities[e] = {} \/ \E f \in Nat : entities[e] = {f}

Meanings == /\ OneScope /\ OneTag /\ Anonymous /\ OpenHere /\ Bindings /\ CompleteBound
            /\ FirstBound /\ LateComplete /\ Unnamed /\ AliasOutermost /\ AtMostOneBody
            /\ FirstMentionsCompleted /\ FirstAliasCompleted /\ NeverOtherFields

\* What holds of bodies however tags are shadowed. Every entity is bound once;
Once ==
  \A n, m \in DOMAIN c_env : \A u, v \in Tags :
    Entity(n, u) # 0 /\ Entity(n, u) = Entity(m, v) => n = m /\ u = v

\* that of an open struct without a tag has no body and no other struct yet;
Fresh ==
  \A i \in DOMAIN open : open[i].tag = NoTag =>
    /\ entities[open[i].entity] = {}
    /\ \A n \in DOMAIN c_env : \A u \in Tags : Entity(n, u) # open[i].entity
    /\ \A j \in DOMAIN open : i # j => open[j].entity # open[i].entity

\* the tag of an open struct is bound to an object here, or nowhere, unless the body
\* shadows an outer struct;
Begun ==
  \A i \in DOMAIN open : open[i].tag # NoTag /\ open[i].entity \notin shadowed =>
    \/ Object(Len(c_env), open[i].tag) # 0
    \/ \A n \in DOMAIN c_env : Object(n, open[i].tag) = 0

\* and then a complete entity has a complete object beside it,
Filled ==
  \A n \in DOMAIN c_env : \A u \in Tags :
    Entity(n, u) # 0 /\ Entity(n, u) \notin shadowed /\ Complete(Entity(n, u)) =>
      Object(n, u) # 0 /\ structs[Object(n, u)].fields # 0

\* which a second body runs into.
OneEach ==
  \A e \in DOMAIN entities \ shadowed : entities[e] = {} \/ \E f \in Nat : entities[e] = {f}

Bodies == Once /\ OpenHere /\ Fresh /\ Begun /\ Filled /\ OneEach

IInv == Typed /\ InRange /\ Bodies /\ (shadowed = {} => Meanings)

-----------------------------------------------------------------------------
(* Maps and environments.                                                  *)

\* A set of places in a sequence has a last one,
LEMMA LastExists ==
  ASSUME NEW n \in Nat, NEW I \in SUBSET (1..n), I # {}
  PROVE  Max(I) \in I /\ \A i \in I : i <= Max(I)
<1>1. \E x \in I : \A y \in I : x >= y
  <2> DEFINE T == {k \in Nat : k < n /\ n - k \in I}
  <2>1. PICK b \in I : TRUE
    OBVIOUS
  <2>2. n - b \in T
    BY <2>1
  <2>3. PICK k \in T : \A m \in T : ~(<<m, k>> \in OpToRel(<, Nat))
    BY <2>2, WFMin, NatLessThanWellFounded, Zenon
  <2>4. \A m \in T : ~(m < k)
    BY <2>3 DEF OpToRel
  <2>5. ASSUME NEW y \in I, y > n - k
        PROVE  FALSE
    <3>1. n - y \in T /\ n - y < k
      BY <2>5
    <3> QED
      BY <3>1, <2>4
  <2> QED
    BY <2>5
<1>2. Max(I) \in I /\ \A y \in I : Max(I) >= y
  BY <1>1, Zenon DEF Max
<1> QED
  BY <1>2

\* and a first one.
LEMMA FirstExists ==
  ASSUME NEW n \in Nat, NEW I \in SUBSET (1..n), I # {}
  PROVE  Min(I) \in I /\ \A i \in I : Min(I) <= i
<1>1. I \subseteq Nat
  OBVIOUS
<1>2. PICK k \in I : \A m \in I : ~(<<m, k>> \in OpToRel(<, Nat))
  BY <1>1, WFMin, NatLessThanWellFounded, Zenon
<1>3. \A m \in I : ~(m < k)
  BY <1>1, <1>2 DEF OpToRel
<1>4. \E x \in I : \A y \in I : x <= y
  BY <1>3
<1>5. Min(I) \in I /\ \A y \in I : Min(I) <= y
  BY <1>4, Zenon DEF Min
<1> QED
  BY <1>5

\* map_find answers the latest binding.
LEMMA MapFindIs ==
  ASSUME NEW map \in Map, NEW tag
  PROVE  \/ MapFind(map, tag) = 0 /\ \A i \in 1..Len(map) : map[i].tag # tag
         \/ \E i \in 1..Len(map) : /\ map[i].tag = tag /\ MapFind(map, tag) = map[i].to
                                   /\ \A j \in (i + 1)..Len(map) : map[j].tag # tag
<1> DEFINE I == {i \in 1..Len(map) : map[i].tag = tag}
<1>1. MapFind(map, tag) = LET n == IF I # {} THEN Max(I) ELSE 0 IN IF n = 0 THEN 0 ELSE map[n].to
  BY DEF MapFind, SelectLastInSeq
<1>2. Len(map) \in Nat
  BY DEF Map
<1>3. CASE I = {}
  BY <1>1, <1>3
<1>4. CASE I # {}
  <2>1. Max(I) \in I /\ \A i \in I : i <= Max(I)
    BY <1>2, <1>4, LastExists
  <2>2. MapFind(map, tag) = map[Max(I)].to
    BY <1>1, <1>4, <2>1
  <2>3. \A j \in (Max(I) + 1)..Len(map) : map[j].tag # tag
    BY <1>2, <2>1
  <2> QED
    BY <2>1, <2>2, <2>3
<1> QED
  BY <1>3, <1>4

LEMMA MapFindEmpty == \A tag : MapFind(<<>>, tag) = 0
<1>1. <<>> \in Map /\ Len(<<>>) = 0
  BY DEF Map
<1> QED
  BY <1>1, MapFindIs

LEMMA MapFindPush ==
  ASSUME NEW map \in Map, NEW tag \in Tags, NEW to \in Nat
  PROVE  /\ Append(map, [tag |-> tag, to |-> to]) \in Map
         /\ MapFind(Append(map, [tag |-> tag, to |-> to]), tag) = to
         /\ \A u : u # tag =>
              MapFind(Append(map, [tag |-> tag, to |-> to]), u) = MapFind(map, u)
<1> DEFINE len == Len(map)
           b == [tag |-> tag, to |-> to]
           new == Append(map, b)
<1>1. len \in Nat /\ DOMAIN map = 1..len /\ b \in [tag : Tags, to : Nat]
  BY DEF Map
<1>2. new \in Map /\ Len(new) = len + 1 /\ new[len + 1] = b
      /\ \A i \in 1..len : new[i] = map[i]
  BY <1>1, AppendProperties DEF Map
<1>3. new[len + 1].tag = tag /\ new[len + 1].to = to
  BY <1>2
<1> HIDE DEF len, b, new
<1>4. len + 1 \in 1..Len(new)
  BY <1>1, <1>2
<1>5. ~\E i \in 1..Len(new) : i # len + 1 /\ \A j \in (i + 1)..Len(new) : new[j].tag # tag
  BY <1>1, <1>2, <1>3
<1>6. MapFind(new, tag) = to
  BY <1>2, <1>3, <1>4, <1>5, MapFindIs
<1>7. ASSUME NEW u, u # tag
      PROVE  MapFind(new, u) = MapFind(map, u)
  <2>1. \A i \in 1..len : new[i].tag = map[i].tag /\ new[i].to = map[i].to
    BY <1>2
  <2>2. new[len + 1].tag # u
    BY <1>3, <1>7
  <2>3. CASE \A i \in 1..len : map[i].tag # u
    <3>1. \A i \in 1..Len(new) : new[i].tag # u
      BY <1>1, <1>2, <2>1, <2>2, <2>3
    <3> QED
      BY <1>2, <2>3, <3>1, MapFindIs DEF len
  <2>4. CASE ~\A i \in 1..len : map[i].tag # u
    <3>1. PICK i \in 1..len : /\ map[i].tag = u /\ MapFind(map, u) = map[i].to
                              /\ \A j \in (i + 1)..len : map[j].tag # u
      BY <2>4, MapFindIs DEF len
    <3>2. PICK k \in 1..Len(new) : /\ new[k].tag = u /\ MapFind(new, u) = new[k].to
                                   /\ \A j \in (k + 1)..Len(new) : new[j].tag # u
      <4>1. i \in 1..Len(new) /\ new[i].tag = u
        BY <1>1, <1>2, <2>1, <3>1
      <4> QED
        BY <1>2, <4>1, MapFindIs
    <3>3. k \in 1..len
      BY <1>1, <1>2, <2>2, <3>2
    <3>4. k = i
      <4>1. ~(k < i)
        BY <1>1, <1>2, <2>1, <3>1, <3>2, <3>3
      <4>2. ~(i < k)
        BY <1>1, <1>2, <2>1, <3>1, <3>2, <3>3
      <4> QED
        BY <4>1, <4>2, <3>3, <1>1
    <3> QED
      BY <2>1, <3>1, <3>2, <3>3, <3>4
  <2> QED
    BY <2>3, <2>4
<1> QED
  BY <1>2, <1>6, <1>7 DEF b, new

\* env_find answers what one of the scopes does.
LEMMA EnvFindIs ==
  ASSUME NEW env \in Seq(Map), NEW tag
  PROVE  \/ EnvFind(env, tag) = 0 /\ \A n \in 1..Len(env) : MapFind(env[n], tag) = 0
         \/ \E n \in 1..Len(env) : MapFind(env[n], tag) # 0 /\ EnvFind(env, tag) = MapFind(env[n], tag)
<1> DEFINE I == {n \in 1..Len(env) : MapFind(env[n], tag) # 0}
<1>1. EnvFind(env, tag) = LET n == IF I # {} THEN Max(I) ELSE 0
                          IN  IF n = 0 THEN 0 ELSE MapFind(env[n], tag)
  BY DEF EnvFind, SelectLastInSeq
<1>2. Len(env) \in Nat
  OBVIOUS
<1>3. CASE I = {}
  BY <1>1, <1>3
<1>4. CASE I # {}
  <2>1. Max(I) \in I
    BY <1>2, <1>4, LastExists
  <2>2. EnvFind(env, tag) = MapFind(env[Max(I)], tag)
    BY <1>1, <1>4, <2>1
  <2> QED
    BY <2>1, <2>2
<1> QED
  BY <1>3, <1>4

LEMMA EnvPushIs ==
  ASSUME NEW env \in Seq(Map), Len(env) > 0, NEW tag \in Tags, NEW to \in Nat
  PROVE  /\ EnvPush(env, tag, to) \in Seq(Map) /\ Len(EnvPush(env, tag, to)) = Len(env)
         /\ \A n \in 1..Len(env) : \A u :
              MapFind(EnvPush(env, tag, to)[n], u) =
                IF n = Len(env) /\ u = tag THEN to ELSE MapFind(env[n], u)
<1> DEFINE len == Len(env)
           new == EnvPush(env, tag, to)
           top == Append(env[len], [tag |-> tag, to |-> to])
<1>1. len \in Nat /\ len > 0 /\ DOMAIN env = 1..len /\ env[len] \in Map
  BY LenProperties, ElementOfSeq
<1>2. top \in Map /\ MapFind(top, tag) = to /\ \A u : u # tag => MapFind(top, u) = MapFind(env[len], u)
  BY <1>1, MapFindPush
<1>3. new = [env EXCEPT ![len] = top]
  BY DEF EnvPush
<1> HIDE DEF new, top
<1>4. new \in Seq(Map) /\ Len(new) = len /\ \A n \in 1..len : new[n] = IF n = len THEN top ELSE env[n]
  BY <1>1, <1>2, <1>3, ExceptSeq
<1> QED
  BY <1>1, <1>2, <1>4 DEF new

\* Leaving a scope keeps the others.
LEMMA FrontIs ==
  ASSUME NEW S, NEW s \in Seq(S), Len(s) > 0
  PROVE  /\ Front(s) \in Seq(S) /\ Len(Front(s)) = Len(s) - 1
         /\ \A n \in 1..(Len(s) - 1) : Front(s)[n] = s[n]
         /\ Last(s) = s[Len(s)] /\ Last(s) \in S
<1>1. Len(s) \in Nat /\ DOMAIN s = 1..Len(s) /\ \A n \in 1..Len(s) : s[n] \in S
  BY LenProperties, ElementOfSeq
<1>2. 1 \in Int /\ Len(s) - 1 \in Int /\ \A n \in 1..(Len(s) - 1) : s[n] \in S
  BY <1>1
<1>3. /\ SubSeq(s, 1, Len(s) - 1) \in Seq(S)
      /\ Len(SubSeq(s, 1, Len(s) - 1)) = IF 1 <= Len(s) - 1 THEN (Len(s) - 1) - 1 + 1 ELSE 0
      /\ \A n \in 1..((Len(s) - 1) - 1 + 1) : SubSeq(s, 1, Len(s) - 1)[n] = s[1 + n - 1]
  BY <1>2, SubSeqProperties
<1> QED
  BY <1>1, <1>3 DEF Front, Last

\* Entering one adds a scope in which nothing is bound.
LEMMA EnterIs ==
  ASSUME NEW env \in Seq(Map)
  PROVE  /\ Append(env, <<>>) \in Seq(Map) /\ Len(Append(env, <<>>)) = Len(env) + 1
         /\ \A n \in 1..Len(env) : Append(env, <<>>)[n] = env[n]
         /\ Append(env, <<>>)[Len(env) + 1] = <<>>
<1>1. <<>> \in Map
  BY DEF Map
<1> QED
  BY <1>1, AppendProperties

\* The alias parse_struct turns to a new object is the first of the tag.
LEMMA AliasOfIs ==
  ASSUME Typed, NEW tag
  PROVE  \/ /\ AliasOf(tag) = 0
            /\ \A a \in 1..Len(aliases) : structs[aliases[a]].name # tag
         \/ /\ AliasOf(tag) \in 1..Len(aliases) /\ structs[aliases[AliasOf(tag)]].name = tag
            /\ \A a \in 1..(AliasOf(tag) - 1) : structs[aliases[a]].name # tag
<1> DEFINE I == {a \in 1..Len(aliases) : structs[aliases[a]].name = tag}
<1>1. AliasOf(tag) = IF I # {} THEN Min(I) ELSE 0
  BY DEF AliasOf, SelectInSeq
<1>2. Len(aliases) \in Nat
  BY DEF Typed
<1>3. CASE I = {}
  BY <1>1, <1>3
<1>4. CASE I # {}
  <2>1. Min(I) \in I /\ \A i \in I : Min(I) <= i
    BY <1>2, <1>4, FirstExists
  <2>2. AliasOf(tag) = Min(I)
    BY <1>1, <1>4
  <2>3. \A a \in 1..(Min(I) - 1) : a \notin I
    BY <1>2, <2>1
  <2>4. \A a \in 1..(Min(I) - 1) : a \in 1..Len(aliases)
    BY <1>2, <2>1
  <2> QED
    BY <2>1, <2>2, <2>3, <2>4
<1> QED
  BY <1>3, <1>4

-----------------------------------------------------------------------------
(* What the steps do to objects and entities.                              *)

LEMMA Domains ==
  ASSUME Typed
  PROVE  /\ Len(structs) \in Nat /\ DOMAIN structs = 1..Len(structs)
         /\ Len(aliases) \in Nat /\ DOMAIN aliases = 1..Len(aliases)
         /\ Len(entities) \in Nat /\ DOMAIN entities = 1..Len(entities)
         /\ Len(open) \in Nat /\ DOMAIN open = 1..Len(open)
         /\ Len(c_env) \in Nat \ {0} /\ DOMAIN c_env = 1..Len(c_env)
         /\ DOMAIN struct_env = 1..Len(c_env) /\ Len(struct_env) = Len(c_env)
BY LenProperties DEF Typed

LEMMA ElementTypes ==
  ASSUME Typed
  PROVE  /\ \A s \in DOMAIN structs : structs[s].name \in Tags \cup {NoTag} /\ structs[s].fields \in Nat
         /\ \A i \in DOMAIN open : /\ open[i].tag \in Tags \cup {NoTag}
                                  /\ open[i].fields \in Nat /\ open[i].entity \in Nat
         /\ \A s \in DOMAIN structs : meaning.object[s].entity \in Nat
         /\ \A a \in DOMAIN aliases : aliases[a] \in Nat /\ meaning.alias[a] \in Nat
         /\ \A e \in DOMAIN entities : entities[e] \in SUBSET Nat
<1> DEFINE S == [name : Tags \cup {NoTag}, fields : Nat]
           O == [tag : Tags \cup {NoTag}, fields : Nat, entity : Nat]
           M == [entity : Nat, first : BOOLEAN, late : BOOLEAN]
<1>1. /\ DOMAIN structs = 1..Len(structs) /\ DOMAIN aliases = 1..Len(aliases)
      /\ DOMAIN entities = 1..Len(entities) /\ DOMAIN open = 1..Len(open)
  BY Domains
<1>2. /\ structs \in Seq(S) /\ open \in Seq(O) /\ meaning.object \in Seq(M)
      /\ meaning.alias \in Seq(Nat) /\ aliases \in Seq(Nat) /\ entities \in Seq(SUBSET Nat)
      /\ Len(meaning.object) = Len(structs) /\ Len(meaning.alias) = Len(aliases)
  BY DEF Typed
<1> HIDE DEF S, O, M
<1>3. \A s \in DOMAIN structs : structs[s] \in S /\ meaning.object[s] \in M
  BY <1>1, <1>2, ElementOfSeq
<1>4. \A i \in DOMAIN open : open[i] \in O
  BY <1>1, <1>2, ElementOfSeq
<1>5. \A a \in DOMAIN aliases : aliases[a] \in Nat /\ meaning.alias[a] \in Nat
  BY <1>1, <1>2, ElementOfSeq
<1>6. \A e \in DOMAIN entities : entities[e] \in SUBSET Nat
  BY <1>1, <1>2, ElementOfSeq
<1> USE DEF S, O, M
<1> QED
  BY <1>3, <1>4, <1>5, <1>6

\* A tag is bound to an object, or to none; the same of entities.
LEMMA Bound ==
  ASSUME Typed, InRange, NEW tag
  PROVE  /\ \A n \in 1..Len(c_env) : Object(n, tag) \in Nat /\ Entity(n, tag) \in Nat
         /\ \A n \in 1..Len(c_env) : Object(n, tag) # 0 => Object(n, tag) \in DOMAIN structs
         /\ \A n \in 1..Len(c_env) : Entity(n, tag) # 0 => Entity(n, tag) \in DOMAIN entities
         /\ LocalStruct(tag) = Object(Len(c_env), tag)
         /\ MapFind(Last(c_env), tag) = Entity(Len(c_env), tag)
<1>1. /\ Len(c_env) \in Nat \ {0} /\ DOMAIN c_env = 1..Len(c_env)
      /\ DOMAIN struct_env = 1..Len(c_env) /\ Len(struct_env) = Len(c_env)
      /\ Len(structs) \in Nat /\ DOMAIN structs = 1..Len(structs)
      /\ Len(entities) \in Nat /\ DOMAIN entities = 1..Len(entities)
  BY Domains
<1>2. \A n \in 1..Len(c_env) :
        /\ struct_env[n] \in Map /\ c_env[n] \in Map
        /\ DOMAIN struct_env[n] = 1..Len(struct_env[n])
        /\ DOMAIN c_env[n] = 1..Len(c_env[n])
  <2>1. \A n \in 1..Len(c_env) : struct_env[n] \in Map /\ c_env[n] \in Map
    BY <1>1, ElementOfSeq DEF Typed
  <2> QED
    BY <2>1, LenProperties DEF Map
<1>3. \A n \in 1..Len(c_env) : Object(n, tag) = 0 \/ Object(n, tag) \in DOMAIN structs
  BY <1>1, <1>2, MapFindIs DEF Object, InRange
<1>4. \A n \in 1..Len(c_env) : Entity(n, tag) = 0 \/ Entity(n, tag) \in DOMAIN entities
  BY <1>1, <1>2, MapFindIs DEF Entity, InRange
<1>5. Last(struct_env) = struct_env[Len(c_env)] /\ Last(c_env) = c_env[Len(c_env)]
  BY <1>1 DEF Last
<1> QED
  BY <1>1, <1>3, <1>4, <1>5 DEF LocalStruct, Object, Entity

\* env_find among objects and entities.
LEMMA EnvFound ==
  ASSUME Typed, NEW tag
  PROVE  /\ \/ EnvFind(struct_env, tag) = 0 /\ \A n \in 1..Len(c_env) : Object(n, tag) = 0
            \/ \E n \in 1..Len(c_env) : Object(n, tag) # 0 /\ EnvFind(struct_env, tag) = Object(n, tag)
         /\ \/ EnvFind(c_env, tag) = 0 /\ \A n \in 1..Len(c_env) : Entity(n, tag) = 0
            \/ \E n \in 1..Len(c_env) : Entity(n, tag) # 0 /\ EnvFind(c_env, tag) = Entity(n, tag)
BY EnvFindIs, Domains DEF Object, Entity, Typed

LEMMA Pushed ==
  ASSUME NEW env \in Seq(Map), Len(env) > 0, NEW tag \in Tags, NEW to \in Nat,
         NEW S, to \in S, \A n \in DOMAIN env : \A i \in DOMAIN env[n] : env[n][i].to \in S
  PROVE  \A n \in DOMAIN EnvPush(env, tag, to) : \A i \in DOMAIN EnvPush(env, tag, to)[n] :
           EnvPush(env, tag, to)[n][i].to \in S
<1> DEFINE len == Len(env)
           b == [tag |-> tag, to |-> to]
           top == Append(env[len], b)
<1>1. len \in Nat /\ len > 0 /\ DOMAIN env = 1..len /\ env[len] \in Map
  BY LenProperties, ElementOfSeq
<1>2. b \in [tag : Tags, to : Nat] /\ b.to = to
  OBVIOUS
<1>3. Len(env[len]) \in Nat /\ DOMAIN env[len] = 1..Len(env[len])
  BY <1>1, LenProperties DEF Map
<1>4. top \in Map /\ Len(top) = Len(env[len]) + 1 /\ DOMAIN top = 1..Len(top)
      /\ top[Len(env[len]) + 1] = b /\ \A i \in 1..Len(env[len]) : top[i] = env[len][i]
  BY <1>1, <1>2, AppendProperties, LenProperties DEF Map
<1>5. EnvPush(env, tag, to) = [env EXCEPT ![len] = top]
  BY DEF EnvPush
<1> HIDE DEF top, b
<1>6. \A i \in DOMAIN top : top[i].to \in S
  BY <1>1, <1>2, <1>3, <1>4
<1>7. \A n \in 1..len : EnvPush(env, tag, to)[n] = IF n = len THEN top ELSE env[n]
  BY <1>1, <1>5
<1>8. DOMAIN EnvPush(env, tag, to) = 1..len
  BY <1>1, <1>5
<1> QED
  BY <1>1, <1>6, <1>7, <1>8

-----------------------------------------------------------------------------
(* What parse_struct and its counterpart in C do, in these terms.          *)

Existing(tag) == IF tag = NoTag THEN 0 ELSE EnvFind(struct_env, tag)

Innermost == Len(c_env)

\* A new entity, bound to the tag if there is one.
NewEntity(tag) ==
  /\ entities' \in Seq(SUBSET Nat) /\ Len(entities') = Len(entities) + 1
  /\ entities'[Len(entities) + 1] = {}
  /\ \A e \in 1..Len(entities) : entities'[e] = entities[e]
  /\ c_env' \in Seq(Map) /\ Len(c_env') = Len(c_env)
  /\ \A n \in 1..Len(c_env) : \A u \in Tags :
       Entity(n, u)' = IF n = Innermost /\ u = tag THEN Len(entities) + 1 ELSE Entity(n, u)
  /\ \A n \in DOMAIN c_env' : \A i \in DOMAIN c_env'[n] : c_env'[n][i].to \in DOMAIN entities'

\* A new object, and what becomes of the others.
NewObject(tag, fields) ==
  LET s == Len(structs) + 1
  IN  /\ structs' \in Seq([name : Tags \cup {NoTag}, fields : Nat]) /\ Len(structs') = s
      /\ structs'[s].name = tag
      /\ structs'[s].fields = IF fields = 0 /\ Existing(tag) # 0
                              THEN structs[Existing(tag)].fields ELSE fields
      /\ \A x \in 1..Len(structs) :
           /\ structs'[x].name = structs[x].name
           /\ structs'[x].fields =
                IF fields # 0 /\ Existing(tag) # 0 /\ x = Object(Innermost, tag)
                THEN fields ELSE structs[x].fields

\* The object is bound to its tag if no scope has one.
NewBinding(tag) ==
  LET s == Len(structs) + 1
  IN  /\ struct_env' \in Seq(Map) /\ Len(struct_env') = Len(struct_env)
      /\ \A n \in 1..Len(c_env) : \A u \in Tags :
           Object(n, u)' = IF Existing(tag) = 0 /\ n = Innermost /\ u = tag THEN s ELSE Object(n, u)
      /\ \A n \in DOMAIN struct_env' : \A i \in DOMAIN struct_env'[n] :
           struct_env'[n][i].to \in 1..s

\* An alias may be added, and the first of the tag is turned to the new object.
NewAlias(tag, entity, named) ==
  LET s == Len(structs) + 1
      a == Len(aliases) + 1
  IN  /\ aliases' \in Seq(Nat) /\ meaning'.alias \in Seq(Nat)
      /\ Len(meaning'.alias) = Len(aliases')
      /\ \A x \in 1..Len(aliases) :
           /\ aliases'[x] = IF Existing(tag) # 0 /\ x = AliasOf(tag) THEN s ELSE aliases[x]
           /\ meaning'.alias[x] = meaning.alias[x]
      /\ \/ Len(aliases') = Len(aliases)
         \/ named /\ Len(aliases') = a /\ aliases'[a] = s /\ meaning'.alias[a] = entity

NewMeaning(tag, entity) ==
  LET s == Len(structs) + 1
  IN  /\ meaning' \in [object : Seq([entity : Nat, first : BOOLEAN, late : BOOLEAN]), alias : Seq(Nat)]
      /\ Len(meaning'.object) = s
      /\ \A x \in 1..Len(structs) : meaning'.object[x] = meaning.object[x]
      /\ meaning'.object[s].entity = entity
      /\ meaning'.object[s].first <=> Existing(tag) = 0
      /\ meaning'.object[s].late <=> entity <= Len(entities) /\ entities[entity] # {}

LEMMA NewEntityMade ==
  ASSUME Typed, InRange, NEW tag \in Tags \cup {NoTag},
         entities' = Append(entities, {}),
         c_env' = IF tag = NoTag THEN c_env ELSE EnvPush(c_env, tag, Len(entities) + 1)
  PROVE  NewEntity(tag)
<1>1. /\ Len(entities) \in Nat /\ DOMAIN entities = 1..Len(entities)
      /\ Len(c_env) \in Nat \ {0} /\ DOMAIN c_env = 1..Len(c_env)
  BY Domains
<1>2. /\ entities' \in Seq(SUBSET Nat) /\ Len(entities') = Len(entities) + 1
      /\ entities'[Len(entities) + 1] = {}
      /\ \A e \in 1..Len(entities) : entities'[e] = entities[e]
  BY AppendProperties DEF Typed
<1>3. DOMAIN entities' = 1..(Len(entities) + 1)
  BY <1>1, <1>2, LenProperties
<1>4. CASE tag = NoTag
  <2>1. c_env' = c_env /\ tag \notin Tags
    BY <1>4, TagsAssumption
  <2>2. \A n \in 1..Len(c_env) : \A u \in Tags :
          Entity(n, u)' = IF n = Innermost /\ u = tag THEN Len(entities) + 1 ELSE Entity(n, u)
    BY <2>1 DEF Entity
  <2> QED
    BY <1>1, <1>2, <1>3, <2>1, <2>2 DEF NewEntity, Typed, InRange
<1>5. CASE tag \in Tags
  <2> DEFINE e == Len(entities) + 1
             new == EnvPush(c_env, tag, e)
  <2>1. c_env' = new /\ e \in Nat /\ e \in DOMAIN entities'
    BY <1>1, <1>3, <1>5, TagsAssumption
  <2>2. c_env \in Seq(Map) /\ Len(c_env) > 0
    BY <1>1 DEF Typed
  <2>3. /\ new \in Seq(Map) /\ Len(new) = Len(c_env)
        /\ \A n \in 1..Len(c_env) : \A u :
             MapFind(new[n], u) = IF n = Len(c_env) /\ u = tag THEN e ELSE MapFind(c_env[n], u)
    BY <1>5, <2>1, <2>2, EnvPushIs
  <2>4. \A n \in DOMAIN c_env : \A i \in DOMAIN c_env[n] : c_env[n][i].to \in DOMAIN entities'
    BY <1>1, <1>3 DEF InRange
  <2>5. \A n \in DOMAIN new : \A i \in DOMAIN new[n] : new[n][i].to \in DOMAIN entities'
    BY <1>5, <2>1, <2>2, <2>4, Pushed
  <2> HIDE DEF new
  <2>6. \A n \in 1..Len(c_env) : \A u \in Tags :
          Entity(n, u)' = IF n = Innermost /\ u = tag THEN Len(entities) + 1 ELSE Entity(n, u)
    BY <2>1, <2>3 DEF Entity, Innermost
  <2> QED
    BY <1>2, <2>1, <2>3, <2>5, <2>6 DEF NewEntity
<1> QED
  BY <1>4, <1>5

LEMMA ExistingIs ==
  ASSUME Typed, InRange, NEW tag
  PROVE  /\ Existing(tag) \in Nat
         /\ Existing(tag) # 0 => Existing(tag) \in DOMAIN structs /\ tag # NoTag
         /\ Existing(tag) # 0 => \E n \in 1..Len(c_env) : Existing(tag) = Object(n, tag)
         /\ Existing(tag) = 0 /\ tag # NoTag => \A n \in 1..Len(c_env) : Object(n, tag) = 0
         /\ LocalStruct(tag) = Object(Innermost, tag)
         /\ Object(Innermost, tag) \in Nat
         /\ Object(Innermost, tag) # 0 => Object(Innermost, tag) \in DOMAIN structs
<1>1. Len(c_env) \in Nat \ {0}
  BY Domains
<1> QED
  BY <1>1, Bound, EnvFound DEF Existing, Innermost

LEMMA NewObjectMade ==
  ASSUME Typed, InRange, NEW tag \in Tags \cup {NoTag}, NEW fields \in Nat,
         structs' = Append(IF Existing(tag) = 0 THEN structs ELSE Completed(tag, fields),
                           [name |-> tag,
                            fields |-> IF fields = 0 /\ Existing(tag) # 0
                                       THEN Fields(Existing(tag)) ELSE fields])
  PROVE  NewObject(tag, fields)
<1> DEFINE len == Len(structs)
           ex == Existing(tag)
           loc == Object(Innermost, tag)
           T == [name : Tags \cup {NoTag}, fields : Nat]
           before == IF ex = 0 THEN structs ELSE Completed(tag, fields)
           own == IF fields = 0 /\ ex # 0 THEN Fields(ex) ELSE fields
           o == [name |-> tag, fields |-> own]
<1>8. structs' = Append(before, o)
  OBVIOUS
<1>1. /\ len \in Nat /\ DOMAIN structs = 1..len /\ structs \in Seq(T)
      /\ \A x \in 1..len : structs[x] \in T
  BY Domains, ElementOfSeq DEF Typed
<1>2. /\ ex \in Nat /\ (ex # 0 => ex \in 1..len)
      /\ LocalStruct(tag) = loc /\ loc \in Nat /\ (loc # 0 => loc \in 1..len)
  BY <1>1, ExistingIs
<1> HIDE DEF ex, loc
<1>3. own = (IF fields = 0 /\ ex # 0 THEN structs[ex].fields ELSE fields)
  BY DEF Fields
<1>4. own \in Nat
  BY <1>1, <1>2, <1>3
<1>5. before = IF ex # 0 /\ loc # 0 /\ fields # 0 THEN [structs EXCEPT ![loc].fields = fields] ELSE structs
  BY <1>2 DEF Completed
<1> HIDE DEF own
<1>6. /\ before \in Seq(T) /\ Len(before) = len
      /\ \A x \in 1..len : /\ before[x].name = structs[x].name
                           /\ before[x].fields = IF fields # 0 /\ ex # 0 /\ x = loc
                                                 THEN fields ELSE structs[x].fields
  <2>1. CASE ex # 0 /\ loc # 0 /\ fields # 0
    <3> DEFINE b == [structs[loc] EXCEPT !.fields = fields]
    <3>1. loc \in 1..len /\ structs[loc] \in T
      BY <1>1, <1>2, <2>1
    <3>2. b \in T /\ b.name = structs[loc].name /\ b.fields = fields
      BY <3>1
    <3>3. before = [structs EXCEPT ![loc] = b]
      BY <1>5, <2>1
    <3> HIDE DEF b, before
    <3>4. before \in Seq(T) /\ Len(before) = len /\ \A x \in 1..len : before[x] = IF x = loc THEN b ELSE structs[x]
      BY <1>1, <3>1, <3>2, <3>3, ExceptSeq
    <3> QED
      BY <3>2, <3>4, <2>1
  <2>2. CASE ~(ex # 0 /\ loc # 0 /\ fields # 0)
    <3>1. before = structs
      BY <1>5, <2>2
    <3>2. \A x \in 1..len : ~(fields # 0 /\ ex # 0 /\ x = loc)
      BY <1>2, <2>2
    <3> HIDE DEF before
    <3> QED
      BY <1>1, <3>1, <3>2
  <2> QED
    BY <2>1, <2>2
<1>7. o \in T /\ o.name = tag /\ o.fields = own
  BY <1>4
<1> HIDE DEF before, o, T, len
<1>9. /\ structs' \in Seq(T) /\ Len(structs') = len + 1 /\ structs'[len + 1] = o
      /\ \A x \in 1..len : structs'[x] = before[x]
  <2>1. before \in Seq(T) /\ Len(before) = len /\ o \in T
    BY <1>6, <1>7
  <2>2. /\ Append(before, o) \in Seq(T) /\ Len(Append(before, o)) = len + 1
        /\ Append(before, o)[len + 1] = o
        /\ \A x \in 1..len : Append(before, o)[x] = before[x]
    BY <2>1, AppendProperties
  <2> QED
    BY <2>2, <1>8, Zenon
<1> QED
  BY <1>3, <1>6, <1>7, <1>9 DEF NewObject, ex, loc, len, T

LEMMA NewBindingMade ==
  ASSUME Typed, InRange, NEW tag \in Tags \cup {NoTag},
         struct_env' = IF tag # NoTag /\ Existing(tag) = 0
                       THEN EnvPush(struct_env, tag, Len(structs) + 1) ELSE struct_env
  PROVE  NewBinding(tag)
<1> DEFINE s == Len(structs) + 1
           new == EnvPush(struct_env, tag, s)
<1>1. /\ Len(structs) \in Nat /\ DOMAIN structs = 1..Len(structs) /\ s \in Nat /\ s \in 1..s
      /\ Len(c_env) \in Nat \ {0} /\ DOMAIN struct_env = 1..Len(c_env)
      /\ Len(struct_env) = Len(c_env) /\ struct_env \in Seq(Map) /\ Len(struct_env) > 0
  BY Domains DEF Typed
<1>2. \A n \in DOMAIN struct_env : \A i \in DOMAIN struct_env[n] : struct_env[n][i].to \in 1..s
  BY <1>1 DEF InRange
<1>3. CASE ~(tag # NoTag /\ Existing(tag) = 0)
  <2>1. struct_env' = struct_env /\ ~(tag \in Tags /\ Existing(tag) = 0)
    BY <1>3, TagsAssumption
  <2>2. \A n \in 1..Len(c_env) : \A u \in Tags :
          Object(n, u)' = IF Existing(tag) = 0 /\ n = Innermost /\ u = tag THEN s ELSE Object(n, u)
    BY <2>1 DEF Object
  <2> QED
    BY <1>1, <1>2, <2>1, <2>2 DEF NewBinding
<1>4. CASE tag # NoTag /\ Existing(tag) = 0
  <2>1. struct_env' = new /\ tag \in Tags
    BY <1>4
  <2>2. struct_env \in Seq(Map) /\ Len(struct_env) > 0 /\ s \in Nat
    BY <1>1
  <2>3. /\ new \in Seq(Map) /\ Len(new) = Len(struct_env)
        /\ \A n \in 1..Len(struct_env) : \A u :
             MapFind(new[n], u) = IF n = Len(struct_env) /\ u = tag THEN s ELSE MapFind(struct_env[n], u)
    BY <2>1, <2>2, EnvPushIs
  <2>4. \A n \in DOMAIN new : \A i \in DOMAIN new[n] : new[n][i].to \in 1..s
    BY <1>1, <1>2, <2>1, Pushed
  <2> HIDE DEF new
  <2>5. \A n \in 1..Len(c_env) : \A u \in Tags :
          Object(n, u)' = IF Existing(tag) = 0 /\ n = Innermost /\ u = tag THEN s ELSE Object(n, u)
    <3>1. \A n \in 1..Len(c_env) : \A u : MapFind(struct_env'[n], u) =
            IF n = Len(c_env) /\ u = tag THEN s ELSE MapFind(struct_env[n], u)
      BY <1>1, <2>1, <2>3
    <3> QED
      BY <1>4, <3>1 DEF Object, Innermost
  <2> QED
    BY <2>1, <2>3, <2>4, <2>5 DEF NewBinding
<1> QED
  BY <1>3, <1>4

LEMMA NewAliasMade ==
  ASSUME Typed, InRange, NEW tag \in Tags \cup {NoTag}, NEW entity \in Nat, NEW named \in BOOLEAN,
         aliases' = Aliases(IF Existing(tag) = 0 THEN aliases ELSE Patched(tag, Len(structs) + 1),
                            Len(structs) + 1, named),
         meaning'.alias = Aliases(meaning.alias, entity, named)
  PROVE  NewAlias(tag, entity, named)
<1> DEFINE s == Len(structs) + 1
           len == Len(aliases)
           before == IF Existing(tag) = 0 THEN aliases ELSE Patched(tag, s)
<1>1. /\ s \in Nat /\ len \in Nat /\ DOMAIN aliases = 1..len /\ aliases \in Seq(Nat)
      /\ meaning.alias \in Seq(Nat) /\ Len(meaning.alias) = len
  BY Domains DEF Typed
<1>2. AliasOf(tag) = 0 \/ AliasOf(tag) \in 1..len
  BY AliasOfIs
<1>3. /\ before \in Seq(Nat) /\ Len(before) = len
      /\ \A x \in 1..len : before[x] = IF Existing(tag) # 0 /\ x = AliasOf(tag) THEN s ELSE aliases[x]
  <2>1. CASE Existing(tag) # 0 /\ AliasOf(tag) # 0
    <3>1. before = [aliases EXCEPT ![AliasOf(tag)] = s]
      BY <2>1 DEF Patched
    <3> HIDE DEF before, s
    <3>2. AliasOf(tag) \in 1..len
      BY <1>2, <2>1
    <3>3. /\ before \in Seq(Nat) /\ Len(before) = len
          /\ \A x \in 1..len : before[x] = IF x = AliasOf(tag) THEN s ELSE aliases[x]
      BY <1>1, <3>1, <3>2, ExceptSeq
    <3> QED
      BY <2>1, <3>3
  <2>2. CASE ~(Existing(tag) # 0 /\ AliasOf(tag) # 0)
    <3>1. before = aliases
      BY <2>2 DEF Patched
    <3> HIDE DEF before
    <3> QED
      BY <1>1, <1>2, <2>2, <3>1
  <2> QED
    BY <2>1, <2>2
<1>4. aliases' = Aliases(before, s, named)
  OBVIOUS
<1> HIDE DEF before, s
<1>5. CASE named
  <2>1. aliases' = Append(before, s) /\ meaning'.alias = Append(meaning.alias, entity)
    BY <1>4, <1>5 DEF Aliases
  <2>2. /\ Append(before, s) \in Seq(Nat) /\ Len(Append(before, s)) = len + 1
        /\ Append(before, s)[len + 1] = s
        /\ \A x \in 1..len : Append(before, s)[x] = before[x]
    BY <1>1, <1>3, AppendProperties
  <2>3. /\ Append(meaning.alias, entity) \in Seq(Nat) /\ Len(Append(meaning.alias, entity)) = len + 1
        /\ Append(meaning.alias, entity)[len + 1] = entity
        /\ \A x \in 1..len : Append(meaning.alias, entity)[x] = meaning.alias[x]
    BY <1>1, AppendProperties
  <2> QED
    BY <1>3, <1>5, <2>1, <2>2, <2>3 DEF NewAlias, s
<1>6. CASE ~named
  <2>1. aliases' = before /\ meaning'.alias = meaning.alias
    BY <1>4, <1>6 DEF Aliases
  <2> QED
    BY <1>1, <1>3, <2>1 DEF NewAlias, s
<1> QED
  BY <1>5, <1>6

MeaningT == [entity : Nat, first : BOOLEAN, late : BOOLEAN]

LEMMA NewMeaningMade ==
  ASSUME Typed, InRange, NEW tag \in Tags \cup {NoTag}, NEW entity \in Nat,
         NEW r, r = [entity |-> entity, first |-> Existing(tag) = 0,
                     late |-> entity <= Len(entities) /\ entities[entity] # {}],
         NEW m \in Seq(Nat),
         meaning' = [object |-> Append(meaning.object, r), alias |-> m]
  PROVE  NewMeaning(tag, entity)
<1> DEFINE len == Len(structs)
           new == Append(meaning.object, r)
<1>1. len \in Nat /\ Len(meaning.object) = len /\ meaning.object \in Seq(MeaningT)
  BY Domains DEF Typed, MeaningT
<1>2. /\ r \in MeaningT /\ r.entity = entity
      /\ r.first <=> Existing(tag) = 0
      /\ r.late <=> entity <= Len(entities) /\ entities[entity] # {}
  BY Zenon DEF MeaningT
<1>3. /\ new \in Seq(MeaningT) /\ Len(new) = len + 1 /\ new[len + 1] = r
      /\ \A x \in 1..len : new[x] = meaning.object[x]
  BY <1>1, <1>2, AppendProperties
<1>4. meaning'.object = new /\ meaning' = [object |-> new, alias |-> m]
  OBVIOUS
<1> HIDE DEF new
<1>5. meaning' \in [object : Seq(MeaningT), alias : Seq(Nat)]
  BY <1>3, <1>4
<1>6. meaning'.object[len + 1] = r
  BY <1>3, <1>4
<1>7. /\ Len(meaning'.object) = len + 1
      /\ \A x \in 1..len : meaning'.object[x] = meaning.object[x]
  BY <1>3, <1>4
<1>8. /\ meaning'.object[len + 1].entity = entity
      /\ meaning'.object[len + 1].first <=> Existing(tag) = 0
      /\ meaning'.object[len + 1].late <=> entity <= Len(entities) /\ entities[entity] # {}
  BY <1>2, <1>6, Zenon
<1> QED
  BY <1>5, <1>7, <1>8, Zenon DEF NewMeaning, MeaningT

LEMMA Parsed ==
  ASSUME Typed, InRange, NEW tag \in Tags \cup {NoTag}, NEW fields \in Nat,
         NEW entity \in Nat, NEW named \in BOOLEAN, ParseStruct(tag, fields, entity, named)
  PROVE  /\ NewObject(tag, fields) /\ NewBinding(tag)
         /\ NewAlias(tag, entity, named) /\ NewMeaning(tag, entity)
<1> DEFINE existing == IF tag = NoTag THEN 0 ELSE EnvFind(struct_env, tag)
           s == Len(structs) + 1
           r == [entity |-> entity, first |-> existing = 0,
                 late |-> entity <= Len(entities) /\ entities[entity] # {}]
           m == Aliases(meaning.alias, entity, named)
<1>1. existing = Existing(tag)
  BY DEF Existing
<1>2. /\ structs' = Append(IF existing = 0 THEN structs ELSE Completed(tag, fields),
                           [name |-> tag, fields |-> IF fields = 0 /\ existing # 0
                                                     THEN Fields(existing) ELSE fields])
      /\ struct_env' = IF tag # NoTag /\ existing = 0 THEN EnvPush(struct_env, tag, s) ELSE struct_env
      /\ aliases' = Aliases(IF existing = 0 THEN aliases ELSE Patched(tag, s), s, named)
      /\ meaning' = [object |-> Append(meaning.object, r), alias |-> m]
  BY Zenon DEF ParseStruct
<1>3. r = [entity |-> entity, first |-> Existing(tag) = 0,
           late |-> entity <= Len(entities) /\ entities[entity] # {}]
  BY <1>1, Zenon
<1>4. m \in Seq(Nat)
  <2>1. meaning.alias \in Seq(Nat)
    BY DEF Typed
  <2> QED
    BY <2>1, AppendProperties DEF Aliases
<1>5. meaning'.alias = m
  BY <1>2
<1> HIDE DEF existing, r, m
<1>6. NewObject(tag, fields)
  BY <1>1, <1>2, NewObjectMade
<1>7. NewBinding(tag)
  BY <1>1, <1>2, NewBindingMade
<1>8. NewAlias(tag, entity, named)
  BY <1>1, <1>2, <1>5, NewAliasMade DEF m
<1>9. NewMeaning(tag, entity)
  BY <1>2, <1>3, <1>4, NewMeaningMade, Zenon
<1> QED
  BY <1>6, <1>7, <1>8, <1>9

\* What C declares: nothing if the tag is visible, and else a new entity.
LEMMA DeclaredMention ==
  ASSUME Typed, InRange, NEW tag \in Tags, CDeclare(tag, FALSE)
  PROVE  \/ /\ UNCHANGED <<entities, c_env>> /\ CMeans(tag, FALSE) \in DOMAIN entities
            /\ \E n \in 1..Len(c_env) : Entity(n, tag) = CMeans(tag, FALSE)
         \/ /\ NewEntity(tag) /\ CMeans(tag, FALSE) = Len(entities) + 1
            /\ \A n \in 1..Len(c_env) : Entity(n, tag) = 0
<1> DEFINE e == EnvFind(c_env, tag)
<1>1. tag # NoTag /\ CLookup(tag, FALSE) = e
  BY TagsAssumption DEF CLookup
<1>2. \/ e = 0 /\ \A n \in 1..Len(c_env) : Entity(n, tag) = 0
      \/ \E n \in 1..Len(c_env) : Entity(n, tag) # 0 /\ e = Entity(n, tag)
  BY EnvFound
<1>3. \A n \in 1..Len(c_env) : Entity(n, tag) # 0 => Entity(n, tag) \in DOMAIN entities
  BY Bound
<1> HIDE DEF e
<1>4. CASE e # 0
  <2>1. UNCHANGED <<entities, c_env>> /\ CMeans(tag, FALSE) = e
    BY <1>1, <1>4 DEF CDeclare, CMeans
  <2> QED
    BY <1>2, <1>3, <1>4, <2>1
<1>5. CASE e = 0
  <2>1. /\ entities' = Append(entities, {}) /\ CMeans(tag, FALSE) = Len(entities) + 1
        /\ c_env' = IF tag = NoTag THEN c_env ELSE EnvPush(c_env, tag, Len(entities) + 1)
    BY <1>1, <1>5 DEF CDeclare, CMeans
  <2>2. NewEntity(tag)
    BY <2>1, NewEntityMade
  <2> QED
    BY <1>2, <1>5, <2>1, <2>2
<1> QED
  BY <1>4, <1>5

LEMMA DeclaredBody ==
  ASSUME Typed, InRange, NEW tag \in Tags \cup {NoTag}, CDeclare(tag, TRUE)
  PROVE  \/ /\ UNCHANGED <<entities, c_env>> /\ CMeans(tag, TRUE) \in DOMAIN entities
            /\ tag \in Tags /\ Entity(Innermost, tag) = CMeans(tag, TRUE)
         \/ /\ NewEntity(tag) /\ CMeans(tag, TRUE) = Len(entities) + 1
            /\ tag \in Tags => Entity(Innermost, tag) = 0
<1> DEFINE e == IF tag = NoTag THEN 0 ELSE Entity(Innermost, tag)
<1>1. Len(c_env) \in 1..Len(c_env)
  BY Domains
<1>2. CLookup(tag, TRUE) = e
  BY Bound DEF CLookup, Innermost
<1>3. e # 0 => e \in DOMAIN entities
  BY <1>1, Bound DEF Innermost
<1>4. tag # NoTag <=> tag \in Tags
  BY TagsAssumption
<1>5. CASE e # 0
  <2>1. UNCHANGED <<entities, c_env>> /\ CMeans(tag, TRUE) = e
    BY <1>2, <1>5 DEF CDeclare, CMeans
  <2> QED
    BY <1>3, <1>4, <1>5, <2>1
<1>6. CASE e = 0
  <2>1. /\ entities' = Append(entities, {}) /\ CMeans(tag, TRUE) = Len(entities) + 1
        /\ c_env' = IF tag = NoTag THEN c_env ELSE EnvPush(c_env, tag, Len(entities) + 1)
    BY <1>2, <1>6 DEF CDeclare, CMeans
  <2>2. NewEntity(tag)
    BY <2>1, NewEntityMade
  <2> QED
    BY <1>4, <1>6, <2>1, <2>2
<1> QED
  BY <1>5, <1>6

-----------------------------------------------------------------------------
(* Types and ranges.                                                       *)

ObjectsTyped ==
  /\ structs \in Seq([name : Tags \cup {NoTag}, fields : Nat])
  /\ aliases \in Seq(Nat)
  /\ meaning \in [object : Seq(MeaningT), alias : Seq(Nat)]
  /\ Len(meaning.object) = Len(structs) /\ Len(meaning.alias) = Len(aliases)

EnvsTyped ==
  /\ struct_env \in Seq(Map) /\ enum_env \in Seq(Map) /\ c_env \in Seq(Map)
  /\ Len(struct_env) > 0 /\ Len(enum_env) = Len(struct_env) /\ Len(c_env) = Len(struct_env)

OthersTyped ==
  /\ bodies \in Nat /\ open \in Seq([tag : Tags \cup {NoTag}, fields : Nat, entity : Nat])
  /\ entities \in Seq(SUBSET Nat) /\ shadowed \in SUBSET Nat

LEMMA TypedParts == Typed <=> ObjectsTyped /\ EnvsTyped /\ OthersTyped
BY DEF Typed, ObjectsTyped, EnvsTyped, OthersTyped, MeaningT

ObjectsInRange ==
  /\ \A s \in DOMAIN structs : structs[s].fields <= bodies
  /\ \A s \in DOMAIN structs : meaning.object[s].entity \in DOMAIN entities
  /\ \A a \in DOMAIN aliases :
       aliases[a] \in DOMAIN structs /\ meaning.alias[a] \in DOMAIN entities

LEMMA NewObjectTyped ==
  ASSUME Typed, InRange, NEW tag \in Tags \cup {NoTag}, NEW fields \in 0..bodies, NEW entity \in Nat,
         NEW named \in BOOLEAN, NewObject(tag, fields), NewAlias(tag, entity, named), NewMeaning(tag, entity),
         bodies' = bodies, DOMAIN entities \subseteq DOMAIN entities', entity \in DOMAIN entities'
  PROVE  ObjectsTyped' /\ ObjectsInRange'
<1> DEFINE s == Len(structs) + 1
           a == Len(aliases) + 1
<1>1. /\ Len(structs) \in Nat /\ DOMAIN structs = 1..Len(structs) /\ s \in Nat
      /\ Len(aliases) \in Nat /\ DOMAIN aliases = 1..Len(aliases) /\ bodies \in Nat
  BY Domains DEF Typed
<1>2. /\ structs' \in Seq([name : Tags \cup {NoTag}, fields : Nat]) /\ Len(structs') = s
  BY DEF NewObject
<1>3. aliases' \in Seq(Nat) /\ Len(meaning'.alias) = Len(aliases') /\ Len(aliases') \in {Len(aliases), a}
  BY DEF NewAlias
<1>4. meaning' \in [object : Seq(MeaningT), alias : Seq(Nat)] /\ Len(meaning'.object) = s
  BY DEF NewMeaning, MeaningT
<1>5. DOMAIN structs' = 1..s /\ DOMAIN aliases' = 1..Len(aliases')
  BY <1>2, <1>3, LenProperties
<1>6. ObjectsTyped'
  BY <1>2, <1>3, <1>4 DEF ObjectsTyped
<1>7. \A x \in 1..s : structs'[x].fields <= bodies
  <2>1. \A x \in 1..Len(structs) : structs'[x].fields <= bodies
    <3>1. \A x \in 1..Len(structs) : structs[x].fields <= bodies
      BY <1>1 DEF InRange
    <3>2. \A x \in 1..Len(structs) : structs'[x].fields \in {fields, structs[x].fields}
      BY DEF NewObject
    <3>3. fields <= bodies
      OBVIOUS
    <3> QED
      BY <3>1, <3>2, <3>3
  <2>2. structs'[s].fields <= bodies
    <3>1. Existing(tag) # 0 => Existing(tag) \in DOMAIN structs
      BY ExistingIs
    <3> QED
      BY <1>1, <3>1 DEF NewObject, InRange
  <2> QED
    BY <1>1, <2>1, <2>2
<1>8. \A x \in 1..s : meaning'.object[x].entity \in DOMAIN entities'
  <2>1. \A x \in 1..Len(structs) : meaning'.object[x].entity \in DOMAIN entities'
    BY <1>1 DEF NewMeaning, InRange
  <2>2. meaning'.object[s].entity \in DOMAIN entities'
    BY DEF NewMeaning
  <2> QED
    BY <1>1, <2>1, <2>2
<1>9. \A x \in 1..Len(aliases') : aliases'[x] \in 1..s /\ meaning'.alias[x] \in DOMAIN entities'
  <2>1. \A x \in 1..Len(aliases) : aliases'[x] \in {s, aliases[x]} /\ meaning'.alias[x] = meaning.alias[x]
    BY DEF NewAlias
  <2>2. \A x \in 1..Len(aliases) : aliases[x] \in 1..Len(structs) /\ meaning.alias[x] \in DOMAIN entities
    BY <1>1 DEF InRange
  <2>3. s \in 1..s /\ \A x \in 1..Len(structs) : x \in 1..s
    BY <1>1
  <2>4. \A x \in 1..Len(aliases) : aliases'[x] \in 1..s /\ meaning'.alias[x] \in DOMAIN entities'
    BY <2>1, <2>2, <2>3
  <2>5. \/ Len(aliases') = Len(aliases)
        \/ Len(aliases') = a /\ aliases'[a] = s /\ meaning'.alias[a] = entity
    BY DEF NewAlias
  <2>6. CASE Len(aliases') = Len(aliases)
    BY <2>4, <2>6
  <2>7. CASE Len(aliases') = a /\ aliases'[a] = s /\ meaning'.alias[a] = entity
    <3>1. \A x \in 1..a : x = a \/ x \in 1..Len(aliases)
      BY <1>1
    <3> HIDE DEF a, s
    <3> QED
      BY <2>3, <2>4, <2>7, <3>1
  <2> QED
    BY <2>5, <2>6, <2>7
<1>10. ObjectsInRange'
  BY <1>5, <1>7, <1>8, <1>9 DEF ObjectsInRange
<1> QED
  BY <1>6, <1>10

EnvsInRange ==
  /\ \A n \in DOMAIN struct_env : \A i \in DOMAIN struct_env[n] :
       struct_env[n][i].to \in DOMAIN structs
  /\ \A n \in DOMAIN c_env : \A i \in DOMAIN c_env[n] : c_env[n][i].to \in DOMAIN entities

OpenInRange ==
  \A i \in DOMAIN open : open[i].fields \in 1..bodies /\ open[i].entity \in DOMAIN entities

LEMMA RangeParts == InRange <=> ObjectsInRange /\ EnvsInRange /\ OpenInRange
BY DEF InRange, ObjectsInRange, EnvsInRange, OpenInRange

LEMMA MentionTyped ==
  ASSUME Typed, InRange, NEW tag \in Tags, NEW named \in BOOLEAN, Mention(tag, named)
  PROVE  Typed' /\ InRange'
<1> DEFINE e == CMeans(tag, FALSE)
<1>1. /\ CDeclare(tag, FALSE) /\ ParseStruct(tag, 0, e, named)
      /\ UNCHANGED <<enum_env, open, bodies, phase, shadowed>>
  BY DEF Mention
<1>2. /\ Len(entities) \in Nat /\ DOMAIN entities = 1..Len(entities)
      /\ Len(structs) \in Nat /\ DOMAIN structs = 1..Len(structs) /\ bodies \in Nat
  BY Domains DEF Typed
<1>3. \/ UNCHANGED <<entities, c_env>> /\ e \in DOMAIN entities
      \/ NewEntity(tag) /\ e = Len(entities) + 1
  BY <1>1, DeclaredMention
<1> HIDE DEF e
<1>4. /\ entities' \in Seq(SUBSET Nat) /\ c_env' \in Seq(Map) /\ Len(c_env') = Len(c_env)
      /\ DOMAIN entities \subseteq DOMAIN entities' /\ e \in DOMAIN entities' /\ e \in Nat
      /\ \A n \in DOMAIN c_env' : \A i \in DOMAIN c_env'[n] : c_env'[n][i].to \in DOMAIN entities'
  <2>1. CASE UNCHANGED <<entities, c_env>> /\ e \in DOMAIN entities
    BY <1>2, <2>1 DEF Typed, InRange
  <2>2. CASE NewEntity(tag) /\ e = Len(entities) + 1
    <3>1. /\ entities' \in Seq(SUBSET Nat) /\ Len(entities') = Len(entities) + 1
          /\ c_env' \in Seq(Map) /\ Len(c_env') = Len(c_env)
          /\ \A n \in DOMAIN c_env' : \A i \in DOMAIN c_env'[n] : c_env'[n][i].to \in DOMAIN entities'
      BY <2>2 DEF NewEntity
    <3>2. DOMAIN entities' = 1..(Len(entities) + 1)
      BY <3>1, LenProperties
    <3> QED
      BY <1>2, <2>2, <3>1, <3>2
  <2> QED
    BY <1>3, <2>1, <2>2
<1>5. NewObject(tag, 0) /\ NewBinding(tag) /\ NewAlias(tag, e, named) /\ NewMeaning(tag, e)
  BY <1>1, <1>4, Parsed
<1>6. ObjectsTyped' /\ ObjectsInRange'
  BY <1>1, <1>2, <1>4, <1>5, NewObjectTyped
<1>7. /\ struct_env' \in Seq(Map) /\ Len(struct_env') = Len(struct_env)
      /\ \A n \in DOMAIN struct_env' : \A i \in DOMAIN struct_env'[n] :
           struct_env'[n][i].to \in 1..(Len(structs) + 1)
  BY <1>5 DEF NewBinding
<1>8. DOMAIN structs' = 1..(Len(structs) + 1)
  BY <1>2, <1>5, <1>6, LenProperties DEF NewObject, ObjectsTyped
<1>9. EnvsTyped'
  BY <1>1, <1>4, <1>7 DEF Typed, EnvsTyped
<1>10. EnvsInRange'
  BY <1>4, <1>7, <1>8 DEF EnvsInRange
<1>11. OthersTyped' /\ OpenInRange'
  <2>1. OthersTyped'
    BY <1>1, <1>4, TypedParts, Zenon DEF OthersTyped
  <2>2. \A i \in DOMAIN open : open[i].fields \in 1..bodies /\ open[i].entity \in DOMAIN entities'
    BY <1>4 DEF InRange
  <2> QED
    BY <1>1, <2>1, <2>2 DEF OpenInRange
<1> QED
  BY <1>6, <1>9, <1>10, <1>11, Zenon
  DEF Typed, InRange, ObjectsTyped, EnvsTyped, OthersTyped, MeaningT,
      ObjectsInRange, EnvsInRange, OpenInRange

LEMMA OpenBodyTyped ==
  ASSUME Typed, InRange, NEW tag \in Tags \cup {NoTag}, OpenBody(tag)
  PROVE  /\ Typed' /\ InRange' /\ Len(open') = Len(open) + 1
         /\ open'[Len(open) + 1].tag = tag /\ open'[Len(open) + 1].entity = CMeans(tag, TRUE)
         /\ \A i \in 1..Len(open) : open'[i] = open[i]
<1> DEFINE e == CMeans(tag, TRUE)
           o == [tag |-> tag, fields |-> bodies + 1, entity |-> e]
           T == [tag : Tags \cup {NoTag}, fields : Nat, entity : Nat]
<1>1. /\ CDeclare(tag, TRUE) /\ bodies' = bodies + 1 /\ open' = Append(open, o)
      /\ UNCHANGED <<structs, struct_env, enum_env, aliases, phase, meaning>>
  BY DEF OpenBody
<1>2. /\ Len(entities) \in Nat /\ DOMAIN entities = 1..Len(entities) /\ bodies \in Nat
      /\ Len(open) \in Nat /\ DOMAIN open = 1..Len(open) /\ open \in Seq(T)
  BY Domains DEF Typed
<1>3. \/ UNCHANGED <<entities, c_env>> /\ e \in DOMAIN entities
      \/ NewEntity(tag) /\ e = Len(entities) + 1
  BY <1>1, DeclaredBody
<1> HIDE DEF e
<1>4. /\ entities' \in Seq(SUBSET Nat) /\ c_env' \in Seq(Map) /\ Len(c_env') = Len(c_env)
      /\ DOMAIN entities \subseteq DOMAIN entities' /\ e \in DOMAIN entities' /\ e \in Nat
      /\ \A n \in DOMAIN c_env' : \A i \in DOMAIN c_env'[n] : c_env'[n][i].to \in DOMAIN entities'
  <2>1. CASE UNCHANGED <<entities, c_env>> /\ e \in DOMAIN entities
    BY <1>2, <2>1 DEF Typed, InRange
  <2>2. CASE NewEntity(tag) /\ e = Len(entities) + 1
    <3>1. /\ entities' \in Seq(SUBSET Nat) /\ Len(entities') = Len(entities) + 1
          /\ c_env' \in Seq(Map) /\ Len(c_env') = Len(c_env)
          /\ \A n \in DOMAIN c_env' : \A i \in DOMAIN c_env'[n] : c_env'[n][i].to \in DOMAIN entities'
      BY <2>2 DEF NewEntity
    <3>2. DOMAIN entities' = 1..(Len(entities) + 1)
      BY <3>1, LenProperties
    <3> QED
      BY <1>2, <2>2, <3>1, <3>2
  <2> QED
    BY <1>3, <2>1, <2>2
<1>5. o \in T /\ o.tag = tag /\ o.fields = bodies + 1 /\ o.entity = e
  BY <1>2, <1>4
<1> HIDE DEF o, T
<1>6. /\ open' \in Seq(T) /\ Len(open') = Len(open) + 1 /\ open'[Len(open) + 1] = o
      /\ \A i \in 1..Len(open) : open'[i] = open[i]
  BY <1>1, <1>2, <1>5, AppendProperties
<1>7. DOMAIN open' = 1..(Len(open) + 1)
  BY <1>2, <1>6, LenProperties
<1>8. ObjectsTyped' /\ ObjectsInRange'
  <2>1. ObjectsTyped'
    BY <1>1 DEF Typed, ObjectsTyped, MeaningT
  <2>2. \A s \in DOMAIN structs : structs[s].fields \in Nat /\ structs[s].fields <= bodies
    BY ElementTypes DEF InRange
  <2>3. \A s \in DOMAIN structs : structs[s].fields <= bodies + 1
    BY <1>2, <2>2
  <2> QED
    BY <1>1, <1>4, <2>1, <2>3 DEF InRange, ObjectsInRange
<1>9. EnvsTyped' /\ EnvsInRange'
  BY <1>1, <1>4 DEF Typed, InRange, EnvsTyped, EnvsInRange
<1>10. shadowed' \in SUBSET Nat
  <2>1. shadowed \in SUBSET Nat /\ shadowed \cup {e} \in SUBSET Nat
    BY <1>4 DEF Typed
  <2>2. shadowed' = shadowed \/ shadowed' = shadowed \cup {e}
    BY Zenon DEF OpenBody, e
  <2> QED
    BY <2>1, <2>2
<1>11. OthersTyped'
  BY <1>1, <1>2, <1>4, <1>6, <1>10 DEF OthersTyped, T
<1>12. OpenInRange'
  <2>1. \A i \in 1..Len(open) : open[i].fields \in 1..bodies /\ open[i].entity \in DOMAIN entities
    BY <1>2 DEF InRange
  <2>2. \A i \in 1..Len(open) : open[i].fields \in 1..(bodies + 1) /\ open[i].entity \in DOMAIN entities'
    BY <1>2, <1>4, <2>1
  <2>3. o.fields \in 1..(bodies + 1) /\ o.entity \in DOMAIN entities'
    BY <1>2, <1>4, <1>5
  <2> QED
    BY <1>1, <1>2, <1>6, <1>7, <2>2, <2>3 DEF OpenInRange
<1> QED
  <2>1. Typed' /\ InRange'
    BY <1>8, <1>9, <1>11, <1>12, Zenon
    DEF Typed, InRange, ObjectsTyped, EnvsTyped, OthersTyped, MeaningT,
        ObjectsInRange, EnvsInRange, OpenInRange
  <2> QED
    BY <1>5, <1>6, <2>1, Zenon DEF e

\* The struct that is closed, and what its fields are added to.
Closed(top) ==
  /\ Len(open) > 0 /\ top = open[Len(open)]
  /\ entities' = [entities EXCEPT ![top.entity] = @ \cup {top.fields}]
  /\ Len(open') = Len(open) - 1 /\ \A i \in 1..(Len(open) - 1) : open'[i] = open[i]
  /\ UNCHANGED <<enum_env, bodies, phase, c_env, shadowed>>

LEMMA CloseBodyTyped ==
  ASSUME Typed, InRange, NEW named \in BOOLEAN, CloseBody(named)
  PROVE  \/ Exit
         \/ /\ Typed' /\ InRange'
            /\ \E top : /\ Closed(top) /\ top.tag \in Tags \cup {NoTag}
                        /\ top.fields \in 1..bodies /\ top.entity \in DOMAIN entities
                        /\ ~DuplicateStruct(top.tag, top.fields)
                        /\ NewObject(top.tag, top.fields) /\ NewBinding(top.tag)
                        /\ NewAlias(top.tag, top.entity, named) /\ NewMeaning(top.tag, top.entity)
                        /\ Len(aliases') = Len(aliases) \/ Len(struct_env) = 1
<1> DEFINE top == Last(open)
           T == [tag : Tags \cup {NoTag}, fields : Nat, entity : Nat]
<1> SUFFICES ASSUME ~Exit
             PROVE  /\ Typed' /\ InRange'
                    /\ Closed(top) /\ top.tag \in Tags \cup {NoTag}
                    /\ top.fields \in 1..bodies /\ top.entity \in DOMAIN entities
                    /\ ~DuplicateStruct(top.tag, top.fields)
                    /\ NewObject(top.tag, top.fields) /\ NewBinding(top.tag)
                    /\ NewAlias(top.tag, top.entity, named) /\ NewMeaning(top.tag, top.entity)
                    /\ Len(aliases') = Len(aliases) \/ Len(struct_env) = 1
  OBVIOUS
<1>1. /\ open # <<>> /\ ~DuplicateStruct(top.tag, top.fields)
      /\ ParseStruct(top.tag, top.fields, top.entity, named)
      /\ entities' = [entities EXCEPT ![top.entity] = @ \cup {top.fields}]
      /\ open' = Front(open)
      /\ UNCHANGED <<enum_env, bodies, phase, c_env, shadowed>>
      /\ named => Len(struct_env) = 1
  BY Zenon DEF CloseBody
<1>2. /\ Len(entities) \in Nat /\ DOMAIN entities = 1..Len(entities) /\ bodies \in Nat
      /\ Len(open) \in Nat /\ DOMAIN open = 1..Len(open)
      /\ Len(structs) \in Nat /\ DOMAIN structs = 1..Len(structs)
      /\ entities \in Seq(SUBSET Nat)
  BY Domains DEF Typed
<1>3. open \in Seq(T) /\ Len(open) > 0
  BY <1>1, <1>2, EmptySeq DEF Typed
<1> HIDE DEF T
<1>4. /\ Front(open) \in Seq(T) /\ Len(Front(open)) = Len(open) - 1
      /\ \A i \in 1..(Len(open) - 1) : Front(open)[i] = open[i]
      /\ Last(open) = open[Len(open)]
  BY <1>3, FrontIs
<1>5. /\ top = open[Len(open)] /\ Len(open) \in DOMAIN open
      /\ top.tag \in Tags \cup {NoTag} /\ top.fields \in Nat /\ top.entity \in Nat
      /\ top.fields \in 1..bodies /\ top.entity \in DOMAIN entities
  BY <1>2, <1>3, <1>4, ElementTypes DEF InRange
<1> HIDE DEF top
<1>6. Closed(top)
  BY <1>1, <1>3, <1>4, <1>5 DEF Closed
<1>7. /\ NewObject(top.tag, top.fields) /\ NewBinding(top.tag)
      /\ NewAlias(top.tag, top.entity, named) /\ NewMeaning(top.tag, top.entity)
  BY <1>1, <1>5, Parsed
<1>8. entities' \in Seq(SUBSET Nat) /\ DOMAIN entities' = DOMAIN entities
  <2>1. entities[top.entity] \cup {top.fields} \in SUBSET Nat
    BY <1>5, ElementTypes
  <2> QED
    BY <1>1, <1>2, <1>5, <2>1, ExceptSeq
<1>9. ObjectsTyped' /\ ObjectsInRange'
  <2>1. top.fields \in 0..bodies
    BY <1>2, <1>5
  <2> QED
    BY <1>1, <1>5, <1>7, <1>8, <2>1, NewObjectTyped
<1>10. /\ struct_env' \in Seq(Map) /\ Len(struct_env') = Len(struct_env)
       /\ \A n \in DOMAIN struct_env' : \A i \in DOMAIN struct_env'[n] :
            struct_env'[n][i].to \in 1..(Len(structs) + 1)
  BY <1>7 DEF NewBinding
<1>11. DOMAIN structs' = 1..(Len(structs) + 1)
  BY <1>2, <1>7, <1>9, LenProperties DEF NewObject, ObjectsTyped
<1>12. EnvsTyped'
  BY <1>1, <1>10 DEF Typed, EnvsTyped
<1>13. EnvsInRange'
  BY <1>1, <1>8, <1>10, <1>11 DEF EnvsInRange, InRange
<1>14. OthersTyped'
  BY <1>1, <1>4, <1>8, TypedParts, Zenon DEF OthersTyped, T
<1>15. OpenInRange'
  <2>1. DOMAIN open' = 1..(Len(open) - 1)
    BY <1>1, <1>2, <1>3, <1>4, LenProperties
  <2>2. \A i \in 1..(Len(open) - 1) : i \in 1..Len(open)
    BY <1>2
  <2> QED
    BY <1>1, <1>2, <1>4, <1>8, <2>1, <2>2 DEF OpenInRange, InRange
<1>16. Typed' /\ InRange'
  BY <1>9, <1>12, <1>13, <1>14, <1>15, Zenon
  DEF Typed, InRange, ObjectsTyped, EnvsTyped, OthersTyped, MeaningT,
      ObjectsInRange, EnvsInRange, OpenInRange
<1>17. Len(aliases') = Len(aliases) \/ Len(struct_env) = 1
  BY <1>1, <1>7 DEF NewAlias
<1> QED
  BY <1>1, <1>5, <1>6, <1>7, <1>16, <1>17

\* typedef of an alias.
LEMMA TypedefAliasTyped ==
  ASSUME Typed, InRange, NEW a \in DOMAIN aliases, TypedefAlias(a)
  PROVE  /\ Typed' /\ InRange'
         /\ Len(aliases') = Len(aliases) + 1
         /\ aliases'[Len(aliases) + 1] = aliases[a]
         /\ meaning'.alias[Len(aliases) + 1] = meaning.alias[a]
         /\ \A x \in 1..Len(aliases) : aliases'[x] = aliases[x] /\ meaning'.alias[x] = meaning.alias[x]
         /\ meaning'.object = meaning.object
<1> DEFINE m == Append(meaning.alias, meaning.alias[a])
<1>1. /\ aliases' = Append(aliases, aliases[a])
      /\ meaning' = [meaning EXCEPT !.alias = m]
      /\ UNCHANGED <<structs, struct_env, enum_env, open, bodies, phase, entities, c_env, shadowed>>
  BY DEF TypedefAlias
<1>2. /\ Len(aliases) \in Nat /\ DOMAIN aliases = 1..Len(aliases) /\ aliases \in Seq(Nat)
      /\ meaning.alias \in Seq(Nat) /\ Len(meaning.alias) = Len(aliases)
      /\ aliases[a] \in Nat /\ meaning.alias[a] \in Nat
  BY Domains, ElementTypes DEF Typed
<1>3. /\ aliases' \in Seq(Nat) /\ Len(aliases') = Len(aliases) + 1
      /\ aliases'[Len(aliases) + 1] = aliases[a]
      /\ \A x \in 1..Len(aliases) : aliases'[x] = aliases[x]
  BY <1>1, <1>2, AppendProperties
<1>4. /\ m \in Seq(Nat) /\ Len(m) = Len(aliases) + 1
      /\ m[Len(aliases) + 1] = meaning.alias[a]
      /\ \A x \in 1..Len(aliases) : m[x] = meaning.alias[x]
  <2> DEFINE q == meaning.alias
             v == meaning.alias[a]
  <2>1. q \in Seq(Nat) /\ v \in Nat /\ Len(q) = Len(aliases) /\ m = Append(q, v)
    BY <1>2
  <2> HIDE DEF q, v, m
  <2>2. /\ Append(q, v) \in Seq(Nat) /\ Len(Append(q, v)) = Len(q) + 1
        /\ \A x \in 1..Len(q) : Append(q, v)[x] = q[x]
        /\ Append(q, v)[Len(q) + 1] = v
    BY <2>1, AppendProperties
  <2> QED
    BY <2>1, <2>2 DEF q, v
<1> HIDE DEF m
<1>5. /\ meaning \in [object : Seq(MeaningT), alias : Seq(Nat)] /\ Len(meaning.object) = Len(structs)
  BY DEF Typed, MeaningT
<1>6. /\ meaning' \in [object : Seq(MeaningT), alias : Seq(Nat)]
      /\ meaning'.alias = m /\ meaning'.object = meaning.object
  BY <1>1, <1>4, <1>5
<1>7. ObjectsTyped' /\ EnvsTyped' /\ OthersTyped'
  <2>1. ObjectsTyped'
    BY <1>1, <1>3, <1>4, <1>5, <1>6 DEF Typed, ObjectsTyped
  <2> QED
    BY <1>1, <2>1, TypedParts, Zenon DEF EnvsTyped, OthersTyped
<1>8. DOMAIN aliases' = 1..(Len(aliases) + 1)
  BY <1>2, <1>3, LenProperties
<1>9. \A x \in 1..(Len(aliases) + 1) :
        aliases'[x] \in DOMAIN structs /\ meaning'.alias[x] \in DOMAIN entities
  <2>1. \A x \in DOMAIN aliases : aliases[x] \in DOMAIN structs /\ meaning.alias[x] \in DOMAIN entities
    BY DEF InRange
  <2>2. \A x \in 1..(Len(aliases) + 1) : x = Len(aliases) + 1 \/ x \in 1..Len(aliases)
    BY <1>2
  <2> QED
    BY <1>2, <1>3, <1>4, <1>6, <2>1, <2>2
<1>10. InRange'
  BY <1>1, <1>6, <1>8, <1>9, Zenon DEF InRange
<1> QED
  BY <1>3, <1>4, <1>6, <1>7, <1>10, Zenon
  DEF Typed, ObjectsTyped, EnvsTyped, OthersTyped, MeaningT

LEMMA EnumBodyTyped ==
  ASSUME Typed, InRange, NEW tag \in Tags, EnumBody(tag)
  PROVE  \/ Exit
         \/ /\ Typed' /\ InRange'
            /\ UNCHANGED <<structs, struct_env, aliases, open, C>>
<1> SUFFICES ASSUME ~Exit
             PROVE  Typed' /\ InRange' /\ UNCHANGED <<structs, struct_env, aliases, open, C>>
  OBVIOUS
<1>1. /\ bodies' = bodies + 1 /\ enum_env' = EnvPush(enum_env, tag, bodies + 1)
      /\ UNCHANGED <<structs, struct_env, aliases, open, C>>
  BY DEF EnumBody
<1>2. bodies \in Nat /\ bodies + 1 \in Nat /\ enum_env \in Seq(Map) /\ Len(enum_env) > 0
  BY DEF Typed
<1>3. enum_env' \in Seq(Map) /\ Len(enum_env') = Len(enum_env)
  BY <1>1, <1>2, EnvPushIs
<1>4. Typed'
  BY <1>1, <1>2, <1>3, Zenon DEF Typed, C
<1>5. \A s \in DOMAIN structs : structs[s].fields <= bodies + 1
  BY <1>2, ElementTypes DEF InRange
<1>6. \A i \in DOMAIN open : open[i].fields \in 1..(bodies + 1)
  BY <1>2, ElementTypes DEF InRange
<1>7. InRange'
  BY <1>1, <1>5, <1>6 DEF InRange, C
<1> QED
  BY <1>1, <1>4, <1>7

\* Blocks.
LEMMA EnterBlockTyped ==
  ASSUME Typed, InRange, EnterBlock
  PROVE  /\ Typed' /\ InRange' /\ Len(c_env') = Len(c_env) + 1
         /\ \A n \in 1..Len(c_env) : \A tag \in Tags :
              Object(n, tag)' = Object(n, tag) /\ Entity(n, tag)' = Entity(n, tag)
         /\ \A n \in Nat : \A tag \in Tags :
              n = Len(c_env) + 1 => Object(n, tag)' = 0 /\ Entity(n, tag)' = 0
<1> DEFINE len == Len(c_env)
<1>1. /\ open = <<>>
      /\ struct_env' = Append(struct_env, <<>>) /\ enum_env' = Append(enum_env, <<>>)
      /\ c_env' = Append(c_env, <<>>)
      /\ UNCHANGED <<structs, aliases, open, bodies, phase, meaning, entities, shadowed>>
  BY DEF EnterBlock
<1>2. /\ len \in Nat \ {0} /\ DOMAIN c_env = 1..len /\ DOMAIN struct_env = 1..len
      /\ struct_env \in Seq(Map) /\ enum_env \in Seq(Map) /\ c_env \in Seq(Map)
      /\ Len(struct_env) = len /\ Len(enum_env) = len
  BY Domains DEF Typed
<1>3. /\ struct_env' \in Seq(Map) /\ Len(struct_env') = len + 1 /\ struct_env'[len + 1] = <<>>
      /\ \A n \in 1..len : struct_env'[n] = struct_env[n]
  BY <1>1, <1>2, EnterIs
<1>4. enum_env' \in Seq(Map) /\ Len(enum_env') = len + 1
  BY <1>1, <1>2, EnterIs
<1>5. /\ c_env' \in Seq(Map) /\ Len(c_env') = len + 1 /\ c_env'[len + 1] = <<>>
      /\ \A n \in 1..len : c_env'[n] = c_env[n]
  BY <1>1, <1>2, EnterIs
<1>6. DOMAIN struct_env' = 1..(len + 1) /\ DOMAIN c_env' = 1..(len + 1)
  BY <1>2, <1>3, <1>5, LenProperties
<1>7. EnvsTyped'
  BY <1>2, <1>3, <1>4, <1>5 DEF EnvsTyped
<1>8. ObjectsTyped' /\ OthersTyped'
  BY <1>1, TypedParts, Zenon DEF ObjectsTyped, OthersTyped
<1>9. EnvsInRange'
  <2>1. \A n \in 1..(len + 1) : n = len + 1 \/ n \in 1..len
    BY <1>2
  <2>2. DOMAIN <<>> = {}
    OBVIOUS
  <2> QED
    BY <1>1, <1>2, <1>3, <1>5, <1>6, <2>1, <2>2 DEF EnvsInRange, InRange
<1>10. ObjectsInRange' /\ OpenInRange'
  BY <1>1, RangeParts, Zenon DEF ObjectsInRange, OpenInRange
<1>11. Typed' /\ InRange'
  BY <1>7, <1>8, <1>9, <1>10, Zenon
  DEF Typed, InRange, ObjectsTyped, EnvsTyped, OthersTyped, MeaningT,
      ObjectsInRange, EnvsInRange, OpenInRange
<1>12. \A n \in Nat : \A tag \in Tags :
         n = len + 1 => Object(n, tag)' = 0 /\ Entity(n, tag)' = 0
  BY <1>3, <1>5, MapFindEmpty, Zenon DEF Object, Entity
<1>13. \A n \in 1..len : \A tag \in Tags :
         Object(n, tag)' = Object(n, tag) /\ Entity(n, tag)' = Entity(n, tag)
  BY <1>3, <1>5, Zenon DEF Object, Entity
<1> QED
  BY <1>5, <1>11, <1>12, <1>13

LEMMA LeaveBlockTyped ==
  ASSUME Typed, InRange, LeaveBlock
  PROVE  /\ Typed' /\ InRange' /\ Len(c_env') = Len(c_env) - 1
         /\ \A n \in 1..(Len(c_env) - 1) : \A tag \in Tags :
              Object(n, tag)' = Object(n, tag) /\ Entity(n, tag)' = Entity(n, tag)
<1> DEFINE len == Len(c_env)
<1>1. /\ open = <<>> /\ Len(struct_env) > 1
      /\ struct_env' = Front(struct_env) /\ enum_env' = Front(enum_env) /\ c_env' = Front(c_env)
      /\ UNCHANGED <<structs, aliases, open, bodies, phase, meaning, entities, shadowed>>
  BY DEF LeaveBlock
<1>2. /\ len \in Nat \ {0} /\ len > 1 /\ DOMAIN c_env = 1..len /\ DOMAIN struct_env = 1..len
      /\ struct_env \in Seq(Map) /\ enum_env \in Seq(Map) /\ c_env \in Seq(Map)
      /\ Len(struct_env) = len /\ Len(enum_env) = len
  BY <1>1, Domains DEF Typed
<1>3. /\ struct_env' \in Seq(Map) /\ Len(struct_env') = len - 1
      /\ \A n \in 1..(len - 1) : struct_env'[n] = struct_env[n]
  <2>1. struct_env \in Seq(Map) /\ Len(struct_env) = len /\ len > 0
    BY <1>2
  <2>2. /\ Front(struct_env) \in Seq(Map) /\ Len(Front(struct_env)) = len - 1
        /\ \A n \in 1..(len - 1) : Front(struct_env)[n] = struct_env[n]
    BY <2>1, FrontIs
  <2> QED
    BY <1>1, <2>2
<1>4. enum_env' \in Seq(Map) /\ Len(enum_env') = len - 1
  <2>1. enum_env \in Seq(Map) /\ Len(enum_env) = len /\ len > 0
    BY <1>2
  <2>2. /\ Front(enum_env) \in Seq(Map) /\ Len(Front(enum_env)) = len - 1
        /\ \A n \in 1..(len - 1) : Front(enum_env)[n] = enum_env[n]
    BY <2>1, FrontIs
  <2> QED
    BY <1>1, <2>2
<1>5. /\ c_env' \in Seq(Map) /\ Len(c_env') = len - 1
      /\ \A n \in 1..(len - 1) : c_env'[n] = c_env[n]
  <2>1. c_env \in Seq(Map) /\ Len(c_env) = len /\ len > 0
    BY <1>2
  <2>2. /\ Front(c_env) \in Seq(Map) /\ Len(Front(c_env)) = len - 1
        /\ \A n \in 1..(len - 1) : Front(c_env)[n] = c_env[n]
    BY <2>1, FrontIs
  <2> QED
    BY <1>1, <2>2
<1>6. DOMAIN struct_env' = 1..(len - 1) /\ DOMAIN c_env' = 1..(len - 1)
  BY <1>2, <1>3, <1>5, LenProperties
<1>7. EnvsTyped'
  BY <1>2, <1>3, <1>4, <1>5 DEF EnvsTyped
<1>8. ObjectsTyped' /\ OthersTyped'
  BY <1>1, TypedParts, Zenon DEF ObjectsTyped, OthersTyped
<1>9. EnvsInRange'
  <2>1. \A n \in 1..(len - 1) : n \in 1..len
    BY <1>2
  <2> QED
    BY <1>1, <1>2, <1>3, <1>5, <1>6, <2>1 DEF EnvsInRange, InRange
<1>10. ObjectsInRange' /\ OpenInRange'
  BY <1>1, RangeParts, Zenon DEF ObjectsInRange, OpenInRange
<1>11. Typed' /\ InRange'
  BY <1>7, <1>8, <1>9, <1>10, Zenon
  DEF Typed, InRange, ObjectsTyped, EnvsTyped, OthersTyped, MeaningT,
      ObjectsInRange, EnvsInRange, OpenInRange
<1>12. \A n \in 1..(len - 1) : \A tag \in Tags :
         Object(n, tag)' = Object(n, tag) /\ Entity(n, tag)' = Entity(n, tag)
  BY <1>3, <1>5, Zenon DEF Object, Entity
<1> QED
  BY <1>5, <1>11, <1>12

-----------------------------------------------------------------------------
(* What the tags mean.                                                     *)

LEMMA NextDomains ==
  ASSUME Typed'
  PROVE  /\ Len(structs') \in Nat /\ DOMAIN structs' = 1..Len(structs')
         /\ Len(aliases') \in Nat /\ DOMAIN aliases' = 1..Len(aliases')
         /\ Len(entities') \in Nat /\ DOMAIN entities' = 1..Len(entities')
         /\ Len(open') \in Nat /\ DOMAIN open' = 1..Len(open')
         /\ Len(c_env') \in Nat \ {0} /\ DOMAIN c_env' = 1..Len(c_env')
         /\ DOMAIN struct_env' = 1..Len(c_env') /\ Len(struct_env') = Len(c_env')
BY LenProperties DEF Typed

\* The object that is found is the one beside the entity that C finds.
LEMMA Beside ==
  ASSUME Typed, InRange, Meanings, NEW tag \in Tags, NEW n \in 1..Len(c_env), Object(n, tag) # 0
  PROVE  /\ Entity(n, tag) # 0 /\ Existing(tag) = Object(n, tag)
         /\ Object(n, tag) \in DOMAIN structs /\ structs[Object(n, tag)].name = tag
         /\ Entity(n, tag) = meaning.object[Object(n, tag)].entity
         /\ \A m \in 1..Len(c_env) : Entity(m, tag) # 0 => m = n
<1>1. /\ DOMAIN c_env = 1..Len(c_env) /\ DOMAIN struct_env = 1..Len(c_env)
      /\ DOMAIN entities = 1..Len(entities) /\ Len(entities) \in Nat
  BY Domains
<1>2. \A m \in 1..Len(c_env) : Object(m, tag) # 0 =>
        /\ Object(m, tag) \in DOMAIN structs /\ structs[Object(m, tag)].name = tag
        /\ Entity(m, tag) = meaning.object[Object(m, tag)].entity
        /\ Entity(m, tag) # 0
  BY <1>1, Bound DEF Meanings, Bindings, InRange
<1>3. \A m \in 1..Len(c_env) : Entity(m, tag) # 0 => m = n
  BY <1>1, <1>2 DEF Meanings, OneScope
<1>4. tag # NoTag
  BY TagsAssumption
<1>5. Existing(tag) # 0
  BY <1>4, ExistingIs
<1>6. PICK m \in 1..Len(c_env) : Existing(tag) = Object(m, tag)
  BY <1>5, ExistingIs
<1>7. m = n
  BY <1>2, <1>3, <1>5, <1>6
<1> QED
  BY <1>2, <1>3, <1>6, <1>7

\* C may declare an entity.
Declared(tag) ==
  \/ UNCHANGED <<entities, c_env>>
  \/ NewEntity(tag) /\ \A n \in 1..Len(c_env) : tag \in Tags => Entity(n, tag) = 0

\* as it does where only the innermost scope has no entity of the tag.
DeclaredHere(tag) ==
  \/ UNCHANGED <<entities, c_env>>
  \/ NewEntity(tag) /\ (tag \in Tags => Entity(Innermost, tag) = 0)

LEMMA DeclaredIsHere ==
  ASSUME Typed, NEW tag, Declared(tag)
  PROVE  DeclaredHere(tag)
<1>1. Innermost \in 1..Len(c_env)
  BY Domains DEF Innermost
<1> QED
  BY <1>1 DEF Declared, DeclaredHere

LEMMA DeclaredFacts ==
  ASSUME Typed, InRange, Typed', NEW tag \in Tags \cup {NoTag}, DeclaredHere(tag)
  PROVE  /\ Len(c_env') = Len(c_env) /\ DOMAIN c_env' = 1..Len(c_env)
         /\ \A n \in 1..Len(c_env) : \A u \in Tags :
              \/ Entity(n, u)' = Entity(n, u)
              \/ /\ Entity(n, u) = 0 /\ Entity(n, u)' = Len(entities) + 1
                 /\ n = Innermost /\ u = tag
         /\ \A x \in DOMAIN entities : entities'[x] = entities[x] /\ x \in DOMAIN entities'
         /\ \A x \in DOMAIN entities' : x \in DOMAIN entities \/ (x = Len(entities) + 1 /\ entities'[x] = {})
         /\ Len(entities) \in Nat /\ DOMAIN entities = 1..Len(entities)
<1>1. /\ DOMAIN c_env = 1..Len(c_env) /\ Len(c_env) \in Nat
      /\ DOMAIN entities = 1..Len(entities) /\ Len(entities) \in Nat
  BY Domains
<1>2. DOMAIN c_env' = 1..Len(c_env') /\ DOMAIN entities' = 1..Len(entities')
  BY NextDomains
<1>3. CASE UNCHANGED <<entities, c_env>>
  <2>1. \A n \in 1..Len(c_env) : \A u \in Tags : Entity(n, u)' = Entity(n, u)
    BY <1>3 DEF Entity
  <2> QED
    BY <1>1, <1>3, <2>1
<1>4. CASE NewEntity(tag) /\ (tag \in Tags => Entity(Innermost, tag) = 0)
  <2>1. Len(c_env') = Len(c_env) /\ Len(entities') = Len(entities) + 1
    BY <1>4 DEF NewEntity
  <2>2. \A n \in 1..Len(c_env) : \A u \in Tags :
          Entity(n, u)' = IF n = Innermost /\ u = tag THEN Len(entities) + 1 ELSE Entity(n, u)
    BY <1>4 DEF NewEntity
  <2>3. /\ \A x \in 1..Len(entities) : entities'[x] = entities[x]
        /\ entities'[Len(entities) + 1] = {}
    BY <1>4 DEF NewEntity
  <2>4. \A x \in 1..(Len(entities) + 1) : x \in 1..Len(entities) \/ x = Len(entities) + 1
    BY <1>1
  <2>5. \A x \in 1..Len(entities) : x \in 1..(Len(entities) + 1)
    BY <1>1
  <2>6. \A n \in 1..Len(c_env) : \A u \in Tags :
          \/ Entity(n, u)' = Entity(n, u)
          \/ /\ Entity(n, u) = 0 /\ Entity(n, u)' = Len(entities) + 1
             /\ n = Innermost /\ u = tag
    BY <1>4, <2>2
  <2> QED
    BY <1>1, <1>2, <2>1, <2>3, <2>4, <2>5, <2>6
<1> QED
  BY <1>3, <1>4 DEF DeclaredHere

LEMMA DeclaredScopes ==
  ASSUME Typed, InRange, Typed', Meanings, NEW tag \in Tags \cup {NoTag}, Declared(tag)
  PROVE  OneScope' /\ OneTag' /\ AtMostOneBody'
<1>1. /\ DOMAIN c_env = 1..Len(c_env) /\ DOMAIN c_env' = 1..Len(c_env)
      /\ \A n \in 1..Len(c_env) : \A u \in Tags :
           \/ Entity(n, u)' = Entity(n, u)
           \/ /\ Entity(n, u) = 0 /\ Entity(n, u)' = Len(entities) + 1
              /\ n = Innermost /\ u = tag
  BY DeclaredFacts, DeclaredIsHere, Domains
<1>2. \A n \in 1..Len(c_env) : \A u \in Tags :
        Entity(n, u) \in Nat /\ Entity(n, u) <= Len(entities)
  <2>1. Len(entities) \in Nat /\ DOMAIN entities = 1..Len(entities)
    BY Domains
  <2> QED
    BY <2>1, Bound
<1>3. Len(entities) \in Nat
  BY Domains
<1>4. OneTag'
  <2> SUFFICES ASSUME NEW n \in 1..Len(c_env), NEW m \in 1..Len(c_env),
                      NEW u \in Tags, NEW v \in Tags,
                      Entity(n, u)' # 0, Entity(n, u)' = Entity(m, v)'
               PROVE  u = v
    BY <1>1 DEF OneTag
  <2>1. Entity(n, u) # 0 /\ Entity(n, u) = Entity(m, v) => u = v
    BY <1>1 DEF Meanings, OneTag
  <2>2. /\ Entity(n, u) \in Nat /\ Entity(n, u) <= Len(entities)
        /\ Entity(m, v) \in Nat /\ Entity(m, v) <= Len(entities)
    BY <1>2
  <2>3. /\ Entity(n, u)' = Entity(n, u) \/ (Entity(n, u)' = Len(entities) + 1 /\ u = tag)
        /\ Entity(m, v)' = Entity(m, v) \/ (Entity(m, v)' = Len(entities) + 1 /\ v = tag)
    BY <1>1
  <2>4. CASE Entity(n, u)' = Entity(n, u) /\ Entity(m, v)' = Entity(m, v)
    BY <2>1, <2>4
  <2>5. CASE ~(Entity(n, u)' = Entity(n, u) /\ Entity(m, v)' = Entity(m, v))
    BY <1>3, <2>2, <2>3, <2>5
  <2> QED
    BY <2>4, <2>5
<1>5. OneScope'
  <2> SUFFICES ASSUME NEW n \in 1..Len(c_env), NEW m \in 1..Len(c_env),
                      NEW u \in Tags, Entity(n, u)' # 0, Entity(m, u)' # 0
               PROVE  n = m
    BY <1>1 DEF OneScope
  <2>1. CASE UNCHANGED <<entities, c_env>>
    <3>1. Entity(n, u)' = Entity(n, u) /\ Entity(m, u)' = Entity(m, u)
      BY <2>1 DEF Entity
    <3> QED
      BY <1>1, <3>1 DEF Meanings, OneScope
  <2>2. CASE \A k \in 1..Len(c_env) : tag \in Tags => Entity(k, tag) = 0
    BY <1>1, <2>2 DEF Meanings, OneScope
  <2> QED
    BY <2>1, <2>2 DEF Declared
<1>6. AtMostOneBody'
  <2>1. \A x \in DOMAIN entities' : \/ x \in DOMAIN entities /\ entities'[x] = entities[x]
                                    \/ entities'[x] = {}
    BY DeclaredFacts, DeclaredIsHere
  <2> QED
    BY <2>1 DEF Meanings, AtMostOneBody
<1> QED
  BY <1>4, <1>5, <1>6

-----------------------------------------------------------------------------
(* A mention.                                                              *)

LEMMA MentionFacts ==
  ASSUME Typed, InRange, Meanings, Typed', InRange',
         NEW tag \in Tags, NEW named \in BOOLEAN, Mention(tag, named)
  PROVE  /\ UNCHANGED <<open, bodies, shadowed>> /\ Declared(tag) /\ (named => Len(c_env) = 1)
         /\ \E e \in DOMAIN entities' :
              /\ NewObject(tag, 0) /\ NewBinding(tag)
              /\ NewAlias(tag, e, named) /\ NewMeaning(tag, e)
              /\ Existing(tag) # 0 =>
                   e \in DOMAIN entities /\ e = meaning.object[Existing(tag)].entity
              /\ \E n \in 1..Len(c_env) : Entity(n, tag)' = e
              /\ Existing(tag) = 0 => \A n \in 1..Len(c_env) : n = Innermost => Entity(n, tag)' = e
              /\ entities'[e] # {} => Existing(tag) # 0 /\ structs[Existing(tag)].fields # 0
              /\ \A i \in DOMAIN open : open[i].tag = NoTag => open[i].entity # e
<1> DEFINE e == CMeans(tag, FALSE)
<1>1. /\ CDeclare(tag, FALSE) /\ ParseStruct(tag, 0, e, named)
      /\ UNCHANGED <<enum_env, open, bodies, phase, shadowed>>
      /\ named => Len(struct_env) = 1
  BY DEF Mention, AtTopLevel
<1>2. /\ DOMAIN entities = 1..Len(entities) /\ Len(entities) \in Nat
      /\ DOMAIN c_env = 1..Len(c_env) /\ DOMAIN struct_env = 1..Len(c_env)
      /\ Len(struct_env) = Len(c_env) /\ Innermost \in 1..Len(c_env)
  BY Domains DEF Innermost
<1>3. \/ /\ UNCHANGED <<entities, c_env>> /\ e \in DOMAIN entities
         /\ \E n \in 1..Len(c_env) : Entity(n, tag) = e
      \/ /\ NewEntity(tag) /\ e = Len(entities) + 1
         /\ \A n \in 1..Len(c_env) : Entity(n, tag) = 0
  BY <1>1, DeclaredMention
<1> HIDE DEF e
<1>4. Declared(tag)
  BY <1>3 DEF Declared
<1>5. tag # NoTag /\ (Existing(tag) = 0 <=> \A n \in 1..Len(c_env) : Object(n, tag) = 0)
  BY TagsAssumption, ExistingIs, Beside
<1>6. CASE /\ UNCHANGED <<entities, c_env>> /\ e \in DOMAIN entities
           /\ \E n \in 1..Len(c_env) : Entity(n, tag) = e
  <2>1. PICK n \in 1..Len(c_env) : Entity(n, tag) = e
    BY <1>6
  <2>2. Entity(n, tag) # 0 /\ e \in Nat /\ e \in DOMAIN entities'
    BY <1>2, <1>6, <2>1
  <2>3. \A m \in 1..Len(c_env) : Entity(m, tag)' = Entity(m, tag)
    BY <1>6 DEF Entity
  <2>4. \A i \in DOMAIN open : open[i].tag = NoTag => open[i].entity # e
    BY <1>2, <2>1 DEF Meanings, Anonymous
  <2>5. NewObject(tag, 0) /\ NewBinding(tag) /\ NewAlias(tag, e, named) /\ NewMeaning(tag, e)
    BY <1>1, <2>2, Parsed
  <2>6. entities'[e] # {} => Object(n, tag) # 0 /\ structs[Object(n, tag)].fields # 0
    BY <1>2, <1>6, <2>1, <2>2 DEF Meanings, CompleteBound, Complete
  <2>7. CASE Object(n, tag) # 0
    <3>1. /\ Existing(tag) = Object(n, tag)
          /\ Entity(n, tag) = meaning.object[Object(n, tag)].entity
      BY <2>7, Beside
    <3> QED
      BY <1>1, <1>2, <1>4, <1>6, <2>1, <2>2, <2>3, <2>4, <2>5, <2>6, <2>7, <3>1
  <2>8. CASE Object(n, tag) = 0
    <3>1. n = Innermost
      BY <1>2, <2>2, <2>8 DEF Meanings, Bindings, Innermost
    <3>2. Existing(tag) = 0
      <4>1. \A m \in 1..Len(c_env) : Object(m, tag) # 0 => m = n
        BY <2>2, Beside
      <4> QED
        BY <1>5, <2>8, <4>1
    <3> QED
      BY <1>1, <1>2, <1>4, <1>6, <2>1, <2>2, <2>3, <2>4, <2>5, <2>6, <2>8, <3>1, <3>2
  <2> QED
    BY <2>7, <2>8
<1>7. CASE /\ NewEntity(tag) /\ e = Len(entities) + 1
           /\ \A n \in 1..Len(c_env) : Entity(n, tag) = 0
  <2>1. Existing(tag) = 0
    BY <1>5, <1>7, Beside
  <2>2. \A n \in 1..Len(c_env) : n = Innermost => Entity(n, tag)' = e
    BY <1>7 DEF NewEntity
  <2>3. Len(entities') = Len(entities) + 1 /\ entities'[e] = {}
    BY <1>7 DEF NewEntity
  <2>4. e \in Nat /\ e \in DOMAIN entities'
    BY <1>2, <1>7, <2>3, NextDomains
  <2>5. \A i \in DOMAIN open : open[i].entity # e
    BY <1>2, <1>7, ElementTypes DEF InRange
  <2>6. NewObject(tag, 0) /\ NewBinding(tag) /\ NewAlias(tag, e, named) /\ NewMeaning(tag, e)
    BY <1>1, <2>4, Parsed
  <2> QED
    BY <1>1, <1>2, <1>4, <2>1, <2>2, <2>3, <2>4, <2>5, <2>6
<1> QED
  BY <1>3, <1>6, <1>7

LEMMA MentionMeanings ==
  ASSUME Typed, InRange, shadowed = {}, Meanings, Typed', InRange',
         NEW tag \in Tags, NEW named \in BOOLEAN, Mention(tag, named)
  PROVE  Meanings'
<1> DEFINE s == Len(structs) + 1
           len == Len(c_env)
<1>1. UNCHANGED <<open, bodies, shadowed>> /\ Declared(tag)
  BY MentionFacts
<1>2. PICK e \in DOMAIN entities' :
         /\ NewObject(tag, 0) /\ NewBinding(tag)
         /\ NewAlias(tag, e, named) /\ NewMeaning(tag, e)
         /\ Existing(tag) # 0 =>
              e \in DOMAIN entities /\ e = meaning.object[Existing(tag)].entity
         /\ \E n \in 1..Len(c_env) : Entity(n, tag)' = e
         /\ Existing(tag) = 0 => \A n \in 1..Len(c_env) : n = Innermost => Entity(n, tag)' = e
         /\ entities'[e] # {} => Existing(tag) # 0 /\ structs[Existing(tag)].fields # 0
         /\ \A i \in DOMAIN open : open[i].tag = NoTag => open[i].entity # e
  BY MentionFacts
<1>3. OneScope' /\ OneTag' /\ AtMostOneBody'
  BY <1>1, DeclaredScopes
<1>4. /\ Len(c_env') = len /\ DOMAIN c_env' = 1..len
      /\ \A n \in 1..len : \A u \in Tags :
           \/ Entity(n, u)' = Entity(n, u)
           \/ /\ Entity(n, u) = 0 /\ Entity(n, u)' = Len(entities) + 1
              /\ n = Innermost /\ u = tag
      /\ \A x \in DOMAIN entities : entities'[x] = entities[x] /\ x \in DOMAIN entities'
      /\ \A x \in DOMAIN entities' : x \in DOMAIN entities \/ (x = Len(entities) + 1 /\ entities'[x] = {})
      /\ Len(entities) \in Nat /\ DOMAIN entities = 1..Len(entities)
  BY <1>1, DeclaredFacts, DeclaredIsHere
<1>5. /\ DOMAIN c_env = 1..len /\ DOMAIN struct_env = 1..len /\ DOMAIN struct_env' = 1..len
      /\ Len(structs) \in Nat /\ DOMAIN structs = 1..Len(structs) /\ len \in 1..len /\ Innermost = len
      /\ DOMAIN aliases = 1..Len(aliases)
  <2>1. DOMAIN struct_env' = 1..Len(c_env')
    BY NextDomains
  <2>2. DOMAIN struct_env' = 1..len
    BY <1>4, <2>1
  <2> QED
    BY <2>2, Domains DEF Innermost
<1>6. \A n \in 1..len : \A u \in Tags :
        /\ Object(n, u) \in Nat /\ (Object(n, u) # 0 => Object(n, u) \in DOMAIN structs)
        /\ Entity(n, u) \in Nat /\ (Entity(n, u) # 0 => Entity(n, u) \in DOMAIN entities)
  BY Bound
<1>7. \A n \in 1..len : \A u \in Tags :
        Object(n, u)' = IF Existing(tag) = 0 /\ n = Innermost /\ u = tag THEN s ELSE Object(n, u)
  BY <1>2 DEF NewBinding
<1>8. /\ structs'[s].name = tag
      /\ structs'[s].fields = IF Existing(tag) # 0 THEN structs[Existing(tag)].fields ELSE 0
      /\ \A x \in DOMAIN structs :
           structs'[x].name = structs[x].name /\ structs'[x].fields = structs[x].fields
  BY <1>2, <1>5 DEF NewObject
<1>9. /\ meaning'.object[s].entity = e
      /\ \A x \in DOMAIN structs : meaning'.object[x] = meaning.object[x]
  BY <1>2, <1>5 DEF NewMeaning
<1>10. Existing(tag) = 0 => \A n \in 1..len : Object(n, tag) = 0
  BY Beside
<1>11. \A i \in DOMAIN open : open[i].entity \in DOMAIN entities
  BY DEF InRange
<1>12. DOMAIN structs' = 1..s
  BY <1>2, NextDomains DEF NewObject
<1>13. Anonymous'
  <2> SUFFICES ASSUME NEW i \in DOMAIN open, open[i].tag = NoTag
               PROVE  /\ entities'[open[i].entity] = {}
                      /\ \A n \in 1..len : \A u \in Tags : Entity(n, u)' # open[i].entity
                      /\ \A j \in DOMAIN open : i # j => open[j].entity # open[i].entity
                      /\ \A x \in DOMAIN structs' : meaning'.object[x].entity # open[i].entity
                      /\ \A a \in DOMAIN aliases' : meaning'.alias[a] # open[i].entity
    BY <1>1, <1>4 DEF Anonymous
  <2>1. /\ entities[open[i].entity] = {}
        /\ \A n \in 1..len : \A u \in Tags : Entity(n, u) # open[i].entity
        /\ \A j \in DOMAIN open : i # j => open[j].entity # open[i].entity
        /\ \A x \in DOMAIN structs : meaning.object[x].entity # open[i].entity
        /\ \A a \in DOMAIN aliases : meaning.alias[a] # open[i].entity
    BY <1>5 DEF Meanings, Anonymous
  <2>2. open[i].entity # e
    BY <1>2
  <2>3. \A n \in 1..len : \A u \in Tags : Entity(n, u)' # open[i].entity
    <3>1. open[i].entity # Len(entities) + 1
      BY <1>4, <1>11
    <3> QED
      BY <1>4, <2>1, <3>1
  <2>4. \A x \in 1..s : meaning'.object[x].entity # open[i].entity
    <3>1. \A x \in 1..s : x = s \/ x \in DOMAIN structs
      BY <1>5
    <3> HIDE DEF s
    <3> QED
      BY <1>9, <2>1, <2>2, <3>1
  <2>5. \A a \in DOMAIN aliases' : meaning'.alias[a] # open[i].entity
    <3>1. DOMAIN aliases' = 1..Len(aliases') /\ Len(aliases) \in Nat
      BY Domains, NextDomains
    <3>2. \A a \in 1..Len(aliases) : meaning'.alias[a] = meaning.alias[a]
      BY <1>2 DEF NewAlias
    <3>3. \/ Len(aliases') = Len(aliases)
          \/ Len(aliases') = Len(aliases) + 1 /\ meaning'.alias[Len(aliases) + 1] = e
      BY <1>2 DEF NewAlias
    <3>4. \A a \in 1..Len(aliases') : a \in 1..Len(aliases) \/ (a = Len(aliases) + 1 /\ meaning'.alias[a] = e)
      <4>1. \A a \in 1..(Len(aliases) + 1) : a \in 1..Len(aliases) \/ a = Len(aliases) + 1
        BY <3>1
      <4> QED
        BY <3>1, <3>3, <4>1
    <3> QED
      BY <1>5, <2>1, <2>2, <3>1, <3>2, <3>4
  <2> QED
    BY <1>4, <1>11, <1>12, <2>1, <2>3, <2>4, <2>5
<1>14. OpenHere'
  <2>1. \A n \in 1..len : \A u \in Tags : Entity(n, u) # 0 => MapFind(c_env'[n], u) = MapFind(c_env[n], u)
    BY <1>4 DEF Entity
  <2> SUFFICES ASSUME NEW i \in DOMAIN open, open[i].tag # NoTag
               PROVE  MapFind(c_env'[len], open[i].tag) = open[i].entity
    BY <1>1, <1>4, <1>5 DEF OpenHere, Entity
  <2>2. open[i].tag \in Tags /\ Entity(len, open[i].tag) = open[i].entity
    BY ElementTypes DEF Meanings, OpenHere
  <2>3. open[i].entity # 0
    BY <1>4, <1>11
  <2> QED
    BY <1>5, <2>1, <2>2, <2>3 DEF Entity
<1>15. Bindings'
  <2> SUFFICES ASSUME NEW n \in DOMAIN struct_env', NEW u \in Tags
               PROVE  /\ Object(n, u)' # 0 => /\ structs'[Object(n, u)'].name = u
                                              /\ Entity(n, u)' = meaning'.object[Object(n, u)'].entity
                      /\ Entity(n, u)' # 0 /\ Object(n, u)' = 0 =>
                           n = Len(c_env') /\ \E i \in DOMAIN open' : open'[i].tag = u
    BY DEF Bindings
  <2> n \in 1..len
    BY <1>5
  <2> SUFFICES /\ Object(n, u)' # 0 => /\ structs'[Object(n, u)'].name = u
                                       /\ Entity(n, u)' = meaning'.object[Object(n, u)'].entity
               /\ Entity(n, u)' # 0 /\ Object(n, u)' = 0 =>
                    n = len /\ \E i \in DOMAIN open : open[i].tag = u
    BY <1>1, <1>4
  <2>1. /\ Object(n, u) # 0 => /\ structs[Object(n, u)].name = u
                               /\ Entity(n, u) = meaning.object[Object(n, u)].entity
                               /\ Entity(n, u) # 0
        /\ Entity(n, u) # 0 /\ Object(n, u) = 0 => n = len /\ \E i \in DOMAIN open : open[i].tag = u
    BY <1>5, Beside DEF Meanings, Bindings
  <2>2. CASE Existing(tag) = 0 /\ n = Innermost /\ u = tag
    <3>1. Object(n, u)' = s
      BY <1>7, <2>2
    <3>2. Entity(n, u)' = e
      BY <1>2, <2>2
    <3>3. s # 0
      BY <1>5
    <3> HIDE DEF s
    <3> QED
      BY <1>8, <1>9, <2>2, <3>1, <3>2, <3>3
  <2>3. CASE ~(Existing(tag) = 0 /\ n = Innermost /\ u = tag)
    <3>1. Object(n, u)' = Object(n, u)
      BY <1>7, <2>3
    <3>2. CASE Entity(n, u)' = Entity(n, u)
      BY <1>6, <1>8, <1>9, <2>1, <3>1, <3>2
    <3>3. CASE Entity(n, u) = 0 /\ Entity(n, u)' = Len(entities) + 1 /\ n = Innermost /\ u = tag
      <4>1. Existing(tag) # 0
        BY <2>3, <3>3
      <4>2. e \in DOMAIN entities
        BY <1>2, <4>1
      <4>3. PICK k \in 1..len : Entity(k, tag)' = e
        BY <1>2
      <4>4. k = n
        <5>1. Entity(k, tag)' # 0 /\ Entity(n, tag)' # 0
          BY <1>4, <3>3, <4>2, <4>3
        <5> QED
          BY <1>3, <1>4, <5>1 DEF OneScope
      <4> QED
        BY <1>4, <3>3, <4>2, <4>3, <4>4
    <3> QED
      BY <1>4, <3>2, <3>3
  <2> QED
    BY <2>2, <2>3
<1>16. CompleteBound'
  <2> SUFFICES ASSUME NEW n \in 1..len, NEW u \in Tags, Entity(n, u)' # 0, entities'[Entity(n, u)'] # {}
               PROVE  Object(n, u)' # 0 /\ structs'[Object(n, u)'].fields # 0
    BY <1>4 DEF CompleteBound, Complete
  <2>1. CASE Entity(n, u)' = Entity(n, u)
    <3>1. Entity(n, u) \in DOMAIN entities
      BY <1>6, <2>1
    <3>2. Object(n, u) # 0 /\ structs[Object(n, u)].fields # 0
      BY <1>4, <1>5, <2>1, <3>1 DEF Meanings, CompleteBound, Complete
    <3>3. Object(n, u)' = Object(n, u)
      BY <1>7, <1>10, <3>2
    <3> QED
      BY <1>6, <1>8, <3>2, <3>3
  <2>2. CASE Entity(n, u)' = Len(entities) + 1
    <3>1. Entity(n, u)' \in DOMAIN entities'
      <4>1. CASE UNCHANGED <<entities, c_env>>
        <5>1. Entity(n, u)' = Entity(n, u)
          BY <4>1 DEF Entity
        <5> QED
          BY <1>4, <1>6, <2>2, <5>1
      <4>2. CASE NewEntity(tag)
        <5>1. Len(entities') = Len(entities) + 1
          BY <4>2 DEF NewEntity
        <5> QED
          BY <1>4, <2>2, <5>1, NextDomains
      <4> QED
        BY <1>1, <4>1, <4>2 DEF Declared
    <3> QED
      BY <1>4, <2>2, <3>1
  <2> QED
    BY <1>4, <2>1, <2>2
<1>17. \A n \in 1..len : \A u \in Tags :
         /\ Entity(n, u)' \in DOMAIN entities => Entity(n, u) = Entity(n, u)'
         /\ Entity(n, u) # 0 => Entity(n, u)' = Entity(n, u)
         /\ Object(n, u) # 0 => Object(n, u)' = Object(n, u)
  <2>1. Len(entities) + 1 \notin DOMAIN entities
    BY <1>4
  <2> QED
    BY <1>4, <1>7, <1>10, <2>1
<1>18. /\ DOMAIN aliases' = 1..Len(aliases') /\ Len(aliases) \in Nat
       /\ \A a \in DOMAIN aliases : a \in DOMAIN aliases'
       /\ \A a \in DOMAIN aliases' : a \in DOMAIN aliases \/ a = Len(aliases) + 1
  <2> DEFINE p == Len(aliases)
             q == Len(aliases')
  <2>1. DOMAIN aliases' = 1..q /\ q \in Nat /\ p \in Nat
    BY Domains, NextDomains
  <2>2. q = p \/ q = p + 1
    BY <1>2 DEF NewAlias
  <2>3. DOMAIN aliases = 1..p
    BY <1>5
  <2> HIDE DEF p, q
  <2>4. (\A a \in 1..p : a \in 1..q) /\ (\A a \in 1..q : a \in 1..p \/ a = p + 1)
    BY <2>1, <2>2
  <2> QED
    BY <2>1, <2>3, <2>4 DEF p, q
<1>19. \A a \in DOMAIN aliases :
         /\ aliases'[a] = IF Existing(tag) # 0 /\ a = AliasOf(tag) THEN s ELSE aliases[a]
         /\ meaning'.alias[a] = meaning.alias[a]
  BY <1>2, <1>5 DEF NewAlias
<1>20. Len(aliases) + 1 \in DOMAIN aliases' =>
         /\ named /\ aliases'[Len(aliases) + 1] = s /\ meaning'.alias[Len(aliases) + 1] = e
  <2>1. Len(aliases') = Len(aliases) => Len(aliases) + 1 \notin DOMAIN aliases'
    BY <1>18
  <2> QED
    BY <1>2, <2>1 DEF NewAlias
<1>21. \A a \in DOMAIN aliases : aliases[a] \in DOMAIN structs /\ meaning.alias[a] \in DOMAIN entities
  BY DEF InRange
<1>22. \A a \in DOMAIN aliases : structs'[aliases'[a]].name = structs[aliases[a]].name
  <2>1. AliasOf(tag) \in DOMAIN aliases => structs[aliases[AliasOf(tag)]].name = tag
    BY <1>5, AliasOfIs
  <2> HIDE DEF s
  <2> QED
    BY <1>8, <1>19, <1>21, <2>1
<1>23. AliasOf(tag) \in DOMAIN aliases => meaning.alias[AliasOf(tag)] = e
  <2> SUFFICES ASSUME AliasOf(tag) \in DOMAIN aliases
               PROVE  meaning.alias[AliasOf(tag)] = e
    OBVIOUS
  <2>1. structs[aliases[AliasOf(tag)]].name = tag
    BY <1>5, AliasOfIs
  <2>2. Entity(1, tag) = meaning.alias[AliasOf(tag)] /\ Object(1, tag) # 0
    BY <2>1 DEF Meanings, AliasOutermost
  <2>3. 1 \in 1..len
    BY <1>5
  <2>4. Existing(tag) # 0 /\ meaning.object[Existing(tag)].entity = Entity(1, tag)
    BY <2>2, <2>3, Beside
  <2> QED
    BY <1>2, <2>2, <2>4
<1>24. /\ meaning'.object[s].first <=> Existing(tag) = 0
       /\ meaning'.object[s].late => e \in DOMAIN entities /\ entities[e] # {}
  <2>1. /\ meaning'.object[s].first <=> Existing(tag) = 0
        /\ meaning'.object[s].late <=> e <= Len(entities) /\ entities[e] # {}
    BY <1>2 DEF NewMeaning
  <2>2. e \in 1..Len(entities')
    BY <1>2, NextDomains
  <2>3. e <= Len(entities) => e \in DOMAIN entities
    BY <1>4, <2>2, NextDomains
  <2> QED
    BY <2>1, <2>3
<1>25. Existing(tag) \in Nat /\ (Existing(tag) # 0 => Existing(tag) \in DOMAIN structs)
  BY ExistingIs
<1>26. \A x \in 1..s : x = s \/ x \in DOMAIN structs
  BY <1>5
<1>27. \A x \in DOMAIN structs : meaning.object[x].entity \in DOMAIN entities
  BY DEF InRange
<1>28. structs'[s].fields \in {0} \cup entities'[e] /\ (entities'[e] # {} => structs'[s].fields \in entities'[e])
  <2>1. CASE Existing(tag) = 0
    BY <1>2, <1>8, <2>1
  <2>2. CASE Existing(tag) # 0
    <3>1. structs[Existing(tag)].fields \in {0} \cup entities[meaning.object[Existing(tag)].entity]
      BY <1>1, <1>25, <2>2 DEF Meanings, NeverOtherFields
    <3>2. e = meaning.object[Existing(tag)].entity /\ e \in DOMAIN entities
      BY <1>2, <2>2
    <3>3. entities'[e] = entities[e]
      BY <1>4, <3>2
    <3>4. structs'[s].fields = structs[Existing(tag)].fields
      BY <1>8, <2>2
    <3>5. entities'[e] # {} => structs[Existing(tag)].fields # 0
      BY <1>2
    <3> HIDE DEF s
    <3> QED
      BY <3>1, <3>2, <3>3, <3>4, <3>5
  <2> QED
    BY <2>1, <2>2
<1>29. \A a \in DOMAIN aliases' :
         \/ /\ a \in DOMAIN aliases
            /\ aliases'[a] = aliases[a] /\ meaning'.alias[a] = meaning.alias[a]
         \/ aliases'[a] = s /\ meaning'.alias[a] = e
  <2> HIDE DEF s
  <2> QED
    BY <1>18, <1>19, <1>20, <1>23
<1> HIDE DEF s
<1>30. FirstBound'
  <2> SUFFICES ASSUME NEW x \in DOMAIN structs', meaning'.object[x].first,
                      NEW n \in 1..len, NEW u \in Tags,
                      Entity(n, u)' = meaning'.object[x].entity
               PROVE  Object(n, u)' = x
    BY <1>4 DEF FirstBound
  <2>1. CASE x \in DOMAIN structs
    <3>1. Entity(n, u) = meaning.object[x].entity
      BY <1>9, <1>17, <1>27, <2>1
    <3>2. Object(n, u) = x
      BY <1>5, <1>9, <2>1, <3>1 DEF Meanings, FirstBound
    <3>3. x # 0
      BY <1>5, <2>1
    <3> QED
      BY <1>17, <3>2, <3>3
  <2>2. CASE x = s
    <3>1. Existing(tag) = 0 /\ Entity(n, u)' = e
      BY <1>9, <1>24, <2>2
    <3>2. PICK k \in 1..len : k = len /\ Entity(k, tag)' = e
      <4>1. \A k \in 1..len : k = len => Entity(k, tag)' = e
        BY <1>2, <1>5, <3>1
      <4> QED
        BY <1>5, <4>1
    <3>3. e # 0
      BY <1>2, NextDomains
    <3>4. u = tag
      BY <1>3, <1>4, <3>1, <3>2, <3>3 DEF OneTag
    <3>5. n = len
      <4>1. Entity(n, tag)' # 0 /\ Entity(k, tag)' # 0
        BY <3>1, <3>2, <3>3, <3>4
      <4>2. n = k
        BY <1>3, <1>4, <4>1 DEF OneScope
      <4> QED
        BY <3>2, <4>2
    <3> QED
      BY <1>5, <1>7, <2>2, <3>1, <3>4, <3>5
  <2> QED
    BY <1>12, <1>26, <2>1, <2>2
<1>31. LateComplete'
  <2> SUFFICES ASSUME NEW x \in DOMAIN structs', meaning'.object[x].late
               PROVE  entities'[meaning'.object[x].entity] # {}
    BY DEF LateComplete, Complete
  <2>1. CASE x \in DOMAIN structs
    BY <1>4, <1>9, <1>27, <2>1 DEF Meanings, LateComplete, Complete
  <2>2. CASE x = s
    BY <1>4, <1>9, <1>24, <2>2
  <2> QED
    BY <1>12, <1>26, <2>1, <2>2
<1>32. Unnamed'
  <2>1. \A x \in DOMAIN structs' : structs'[x].name = NoTag => structs'[x].fields # 0
    BY <1>8, <1>12, <1>26, TagsAssumption DEF Meanings, Unnamed
  <2> QED
    BY <2>1 DEF Unnamed
<1>33. AliasOutermost'
  <2> SUFFICES ASSUME NEW a \in DOMAIN aliases', NEW u \in Tags, structs'[aliases'[a]].name = u
               PROVE  Entity(1, u)' = meaning'.alias[a] /\ Object(1, u)' # 0
    BY DEF AliasOutermost
  <2>1. 1 \in 1..len
    BY <1>5
  <2>2. CASE a \in DOMAIN aliases
    <3>1. structs[aliases[a]].name = u
      BY <1>22, <2>2
    <3>2. Entity(1, u) = meaning.alias[a] /\ Object(1, u) # 0
      BY <2>2, <3>1 DEF Meanings, AliasOutermost
    <3>3. Entity(1, u) # 0
      BY <1>4, <1>21, <2>2, <3>2
    <3> QED
      BY <1>17, <1>19, <2>1, <2>2, <3>2, <3>3
  <2>3. CASE a = Len(aliases) + 1
    <3>1. named /\ aliases'[a] = s /\ meaning'.alias[a] = e
      BY <1>20, <2>3
    <3>2. len = 1 /\ u = tag
      BY <1>8, <3>1, MentionFacts
    <3>3. Entity(1, u)' = e
      BY <1>2, <3>2
    <3>4. CASE Existing(tag) = 0
      <4>1. Object(1, u)' = s
        BY <1>5, <1>7, <2>1, <3>2, <3>4
      <4> QED
        BY <1>5, <3>1, <3>3, <4>1 DEF s
    <3>5. CASE Existing(tag) # 0
      <4>1. \E n \in 1..len : Existing(tag) = Object(n, tag)
        BY <3>5, ExistingIs
      <4>2. Object(1, tag) # 0
        BY <3>2, <3>5, <4>1
      <4> QED
        BY <1>17, <2>1, <3>1, <3>2, <3>3, <4>2
    <3> QED
      BY <3>4, <3>5
  <2> QED
    BY <1>18, <2>2, <2>3
<1>34. FirstMentionsCompleted'
  <2> SUFFICES ASSUME NEW x \in DOMAIN structs', entities'[meaning'.object[x].entity] # {},
                      meaning'.object[x].first \/ meaning'.object[x].late
               PROVE  structs'[x].fields \in entities'[meaning'.object[x].entity]
    BY DEF FirstMentionsCompleted, Complete
  <2>1. CASE x \in DOMAIN structs
    BY <1>4, <1>8, <1>9, <1>27, <2>1 DEF Meanings, FirstMentionsCompleted, Complete
  <2>2. CASE x = s
    BY <1>9, <1>28, <2>2
  <2> QED
    BY <1>12, <1>26, <2>1, <2>2
<1>35. FirstAliasCompleted'
  <2> SUFFICES ASSUME NEW a \in DOMAIN aliases',
                      \A b \in 1..(a - 1) : structs'[aliases'[b]].name # structs'[aliases'[a]].name,
                      entities'[meaning'.alias[a]] # {}
               PROVE  structs'[aliases'[a]].fields \in entities'[meaning'.alias[a]]
    BY DEF FirstAliasCompleted, Complete
  <2>1. CASE aliases'[a] = s /\ meaning'.alias[a] = e
    BY <1>28, <2>1
  <2>2. CASE /\ a \in DOMAIN aliases
             /\ aliases'[a] = aliases[a] /\ meaning'.alias[a] = meaning.alias[a]
    <3>1. \A b \in 1..(a - 1) : b \in DOMAIN aliases
      BY <1>5, <1>18, <2>2
    <3>2. \A b \in 1..(a - 1) : structs[aliases[b]].name # structs[aliases[a]].name
      BY <1>22, <2>2, <3>1
    <3>3. meaning.alias[a] \in DOMAIN entities /\ aliases[a] \in DOMAIN structs
      BY <1>21, <2>2
    <3>4. structs[aliases[a]].fields \in entities[meaning.alias[a]]
      BY <1>4, <2>2, <3>2, <3>3 DEF Meanings, FirstAliasCompleted, Complete
    <3> QED
      BY <1>4, <1>8, <2>2, <3>3, <3>4
  <2> QED
    BY <1>29, <2>1, <2>2
<1>36. NeverOtherFields'
  <2>1. \A x \in DOMAIN structs' :
          structs'[x].fields \in {0} \cup entities'[meaning'.object[x].entity]
    <3>1. \A x \in DOMAIN structs :
            structs'[x].fields \in {0} \cup entities'[meaning'.object[x].entity]
      BY <1>4, <1>8, <1>9, <1>27 DEF Meanings, NeverOtherFields
    <3>2. structs'[s].fields \in {0} \cup entities'[meaning'.object[s].entity]
      BY <1>9, <1>28
    <3> QED
      BY <1>12, <1>26, <3>1, <3>2
  <2>2. \A a \in DOMAIN aliases' :
          structs'[aliases'[a]].fields \in {0} \cup entities'[meaning'.alias[a]]
    <3>1. \A a \in DOMAIN aliases : structs[aliases[a]].fields \in {0} \cup entities[meaning.alias[a]]
      BY DEF Meanings, NeverOtherFields
    <3>2. \A a \in DOMAIN aliases : structs'[aliases[a]].fields \in {0} \cup entities'[meaning.alias[a]]
      BY <1>4, <1>8, <1>21, <3>1
    <3> QED
      BY <1>28, <1>29, <3>2
  <2> QED
    BY <2>1, <2>2 DEF NeverOtherFields
<1> QED
  BY <1>3, <1>13, <1>14, <1>15, <1>16, <1>30, <1>31, <1>32, <1>33, <1>34, <1>35, <1>36 DEF Meanings

-----------------------------------------------------------------------------
(* The body of a struct begins.                                            *)

LEMMA OpenBodyFacts ==
  ASSUME Typed, InRange, Meanings, NEW tag \in Tags \cup {NoTag}, OpenBody(tag), shadowed' = {}
  PROVE  /\ shadowed = {} /\ Declared(tag)
         /\ UNCHANGED <<structs, struct_env, aliases, meaning>>
         /\ \E e \in Nat :
              /\ open'[Len(open) + 1].tag = tag /\ open'[Len(open) + 1].entity = e
              /\ \/ /\ UNCHANGED <<entities, c_env>> /\ e \in DOMAIN entities
                    /\ tag \in Tags /\ Entity(Innermost, tag) = e
                 \/ NewEntity(tag) /\ e = Len(entities) + 1
<1> DEFINE e == CMeans(tag, TRUE)
<1>1. /\ CDeclare(tag, TRUE) /\ UNCHANGED <<structs, struct_env, aliases, meaning>>
      /\ shadowed = {}
      /\ ~(tag # NoTag /\ LocalStruct(tag) = 0 /\ EnvFind(struct_env, tag) # 0)
  <2>1. /\ CDeclare(tag, TRUE) /\ UNCHANGED <<structs, struct_env, aliases, meaning>>
        /\ shadowed' = IF tag # NoTag /\ LocalStruct(tag) = 0 /\ EnvFind(struct_env, tag) # 0
                       THEN shadowed \cup {e} ELSE shadowed
    BY Zenon DEF OpenBody
  <2> QED
    BY <2>1
<1>2. \/ /\ UNCHANGED <<entities, c_env>> /\ e \in DOMAIN entities
         /\ tag \in Tags /\ Entity(Innermost, tag) = e
      \/ /\ NewEntity(tag) /\ e = Len(entities) + 1
         /\ tag \in Tags => Entity(Innermost, tag) = 0
  BY <1>1, DeclaredBody
<1>3. open'[Len(open) + 1].tag = tag /\ open'[Len(open) + 1].entity = e
  BY OpenBodyTyped
<1> HIDE DEF e
<1>4. /\ DOMAIN c_env = 1..Len(c_env) /\ DOMAIN struct_env = 1..Len(c_env)
      /\ DOMAIN entities = 1..Len(entities) /\ Len(entities) \in Nat
      /\ Innermost \in 1..Len(c_env)
  BY Domains DEF Innermost
<1>5. ASSUME tag \in Tags, Entity(Innermost, tag) = 0
      PROVE  \A n \in 1..Len(c_env) : Entity(n, tag) = 0
  <2> SUFFICES ASSUME NEW n \in 1..Len(c_env), Entity(n, tag) # 0
               PROVE  FALSE
    OBVIOUS
  <2>1. n # Len(c_env)
    BY <1>5 DEF Innermost
  <2>2. Object(n, tag) # 0
    BY <1>4, <1>5, <2>1 DEF Meanings, Bindings
  <2>3. Existing(tag) # 0
    BY <1>5, <2>2, Beside
  <2>4. tag # NoTag
    BY <1>5, TagsAssumption
  <2>5. LocalStruct(tag) # 0
    BY <1>1, <2>3, <2>4 DEF Existing
  <2>6. Object(Innermost, tag) # 0
    BY <2>5, ExistingIs
  <2> QED
    BY <1>4, <1>5, <2>6, Beside
<1>6. Declared(tag)
  BY <1>2, <1>5 DEF Declared
<1>7. e \in Nat
  BY <1>2, <1>4
<1> QED
  BY <1>1, <1>2, <1>3, <1>6, <1>7

LEMMA OpenBodyMeanings ==
  ASSUME Typed, InRange, Meanings, Typed', InRange',
         NEW tag \in Tags \cup {NoTag}, OpenBody(tag), shadowed' = {}
  PROVE  Meanings'
<1> DEFINE len == Len(c_env)
           i0 == Len(open) + 1
<1>1. shadowed = {} /\ Declared(tag) /\ UNCHANGED <<structs, struct_env, aliases, meaning>>
  BY OpenBodyFacts
<1>2. PICK e \in Nat :
         /\ open'[i0].tag = tag /\ open'[i0].entity = e
         /\ \/ /\ UNCHANGED <<entities, c_env>> /\ e \in DOMAIN entities
               /\ tag \in Tags /\ Entity(Innermost, tag) = e
            \/ NewEntity(tag) /\ e = Len(entities) + 1
  BY OpenBodyFacts
<1>3. OneScope' /\ OneTag' /\ AtMostOneBody'
  BY <1>1, DeclaredScopes
<1>4. /\ Len(c_env') = len /\ DOMAIN c_env' = 1..len
      /\ \A n \in 1..len : \A u \in Tags :
           \/ Entity(n, u)' = Entity(n, u)
           \/ /\ Entity(n, u) = 0 /\ Entity(n, u)' = Len(entities) + 1
              /\ n = Innermost /\ u = tag
      /\ \A x \in DOMAIN entities : entities'[x] = entities[x] /\ x \in DOMAIN entities'
      /\ Len(entities) \in Nat /\ DOMAIN entities = 1..Len(entities)
  BY <1>1, DeclaredFacts, DeclaredIsHere
<1>5. /\ DOMAIN c_env = 1..len /\ DOMAIN struct_env = 1..len
      /\ len \in 1..len /\ Innermost = len
  BY Domains DEF Innermost
<1>6. \A n \in 1..len : \A u \in Tags :
        /\ Object(n, u) \in Nat /\ (Object(n, u) # 0 => Object(n, u) \in DOMAIN structs)
        /\ Entity(n, u) \in Nat /\ (Entity(n, u) # 0 => Entity(n, u) \in DOMAIN entities)
  BY Bound
<1>7. \A n \in 1..len : \A u \in Tags : Object(n, u)' = Object(n, u)
  BY <1>1 DEF Object
<1>8. /\ \A x \in DOMAIN structs : meaning.object[x].entity \in DOMAIN entities
      /\ \A a \in DOMAIN aliases :
           aliases[a] \in DOMAIN structs /\ meaning.alias[a] \in DOMAIN entities
      /\ \A i \in DOMAIN open : open[i].entity \in DOMAIN entities
  BY DEF InRange
<1>9. \A n \in 1..len : \A u \in Tags :
        /\ Entity(n, u)' \in DOMAIN entities => Entity(n, u) = Entity(n, u)'
        /\ Entity(n, u) # 0 => Entity(n, u)' = Entity(n, u)
  <2>1. Len(entities) + 1 \notin DOMAIN entities
    BY <1>4
  <2> QED
    BY <1>4, <2>1
<1>10. /\ \A i \in DOMAIN open : open'[i] = open[i] /\ i \in DOMAIN open'
       /\ i0 \in DOMAIN open' /\ \A i \in DOMAIN open' : i \in DOMAIN open \/ i = i0
  <2>1. Len(open') = Len(open) + 1 /\ \A i \in 1..Len(open) : open'[i] = open[i]
    BY OpenBodyTyped
  <2>2. Len(open) \in Nat /\ DOMAIN open = 1..Len(open) /\ DOMAIN open' = 1..Len(open')
    BY Domains, NextDomains
  <2> QED
    BY <2>1, <2>2
<1>11. NewEntity(tag) => entities'[Len(entities) + 1] = {}
  BY DEF NewEntity
<1> HIDE DEF i0, len
<1>12. Anonymous'
  <2> SUFFICES ASSUME NEW i \in DOMAIN open', open'[i].tag = NoTag
               PROVE  /\ entities'[open'[i].entity] = {}
                      /\ \A n \in 1..len : \A u \in Tags : Entity(n, u)' # open'[i].entity
                      /\ \A j \in DOMAIN open' : i # j => open'[j].entity # open'[i].entity
                      /\ \A x \in DOMAIN structs : meaning.object[x].entity # open'[i].entity
                      /\ \A a \in DOMAIN aliases : meaning.alias[a] # open'[i].entity
    BY <1>1, <1>4 DEF Anonymous
  <2>1. CASE i \in DOMAIN open
    <3>1. /\ open'[i] = open[i] /\ open[i].tag = NoTag
          /\ open[i].entity \in DOMAIN entities /\ open[i].entity # Len(entities) + 1
      BY <1>4, <1>8, <1>10, <2>1
    <3>2. /\ entities[open[i].entity] = {}
          /\ \A n \in 1..len : \A u \in Tags : Entity(n, u) # open[i].entity
          /\ \A j \in DOMAIN open : i # j => open[j].entity # open[i].entity
          /\ \A x \in DOMAIN structs : meaning.object[x].entity # open[i].entity
          /\ \A a \in DOMAIN aliases : meaning.alias[a] # open[i].entity
      BY <1>5, <2>1, <3>1 DEF Meanings, Anonymous
    <3>3. e # open[i].entity
      BY <1>2, <1>5, <3>1, <3>2
    <3>4. \A j \in DOMAIN open' : i # j => open'[j].entity # open[i].entity
      BY <1>2, <1>10, <3>2, <3>3
    <3>5. \A n \in 1..len : \A u \in Tags : Entity(n, u)' # open[i].entity
      BY <1>4, <3>1, <3>2
    <3> QED
      BY <1>4, <3>1, <3>2, <3>4, <3>5
  <2>2. CASE i = i0
    <3>1. tag = NoTag /\ tag \notin Tags /\ open'[i].entity = e
      BY <1>2, <2>2, TagsAssumption
    <3>2. NewEntity(tag) /\ e = Len(entities) + 1
      BY <1>2, <3>1
    <3>3. e \notin DOMAIN entities /\ e # 0
      BY <1>4, <3>2
    <3>4. \A n \in 1..len : \A u \in Tags : Entity(n, u)' # e
      BY <1>4, <1>6, <3>1, <3>3
    <3>5. \A j \in DOMAIN open' : i # j => open'[j].entity # e
      BY <1>8, <1>10, <2>2, <3>3
    <3> QED
      BY <1>8, <1>11, <3>1, <3>2, <3>3, <3>4, <3>5
  <2> QED
    BY <1>10, <2>1, <2>2
<1>13. OpenHere'
  <2>1. \A u \in Tags : Entity(len, u) # 0 => MapFind(c_env'[len], u) = MapFind(c_env[len], u)
    BY <1>5, <1>9 DEF Entity
  <2> SUFFICES ASSUME NEW i \in DOMAIN open', open'[i].tag # NoTag
               PROVE  MapFind(c_env'[len], open'[i].tag) = open'[i].entity
    BY <1>4 DEF OpenHere, Entity
  <2>2. CASE i \in DOMAIN open
    <3>1. /\ open'[i] = open[i] /\ open[i].tag \in Tags /\ Entity(len, open[i].tag) = open[i].entity
          /\ open[i].entity # 0
      BY <1>4, <1>8, <1>10, <2>2, ElementTypes DEF Meanings, OpenHere, len
    <3> QED
      BY <2>1, <3>1 DEF Entity
  <2>3. CASE i = i0
    <3>1. tag \in Tags /\ open'[i].tag = tag /\ open'[i].entity = e
      BY <1>2, <2>3
    <3>2. CASE UNCHANGED <<entities, c_env>> /\ Entity(Innermost, tag) = e
      BY <1>5, <3>1, <3>2 DEF Entity
    <3>3. CASE NewEntity(tag) /\ e = Len(entities) + 1
      <4>1. \A n \in 1..Len(c_env) : \A u \in Tags :
              Entity(n, u)' = IF n = Innermost /\ u = tag THEN Len(entities) + 1 ELSE Entity(n, u)
        BY <3>3 DEF NewEntity
      <4>2. MapFind(c_env'[len], tag) = e
        BY <1>5, <3>1, <3>3, <4>1 DEF Entity, len
      <4> QED
        BY <3>1, <4>2
    <3> QED
      BY <1>2, <3>2, <3>3
  <2> QED
    BY <1>10, <2>2, <2>3
<1>14. Bindings'
  <2> SUFFICES ASSUME NEW n \in DOMAIN struct_env', NEW u \in Tags
               PROVE  /\ Object(n, u)' # 0 => /\ structs'[Object(n, u)'].name = u
                                              /\ Entity(n, u)' = meaning'.object[Object(n, u)'].entity
                      /\ Entity(n, u)' # 0 /\ Object(n, u)' = 0 =>
                           n = Len(c_env') /\ \E i \in DOMAIN open' : open'[i].tag = u
    BY DEF Bindings
  <2> n \in 1..len
    BY <1>1, <1>5
  <2>1. /\ Object(n, u) # 0 => /\ structs[Object(n, u)].name = u
                               /\ Entity(n, u) = meaning.object[Object(n, u)].entity
                               /\ Entity(n, u) # 0
        /\ Entity(n, u) # 0 /\ Object(n, u) = 0 => n = len /\ \E i \in DOMAIN open : open[i].tag = u
    BY <1>5, Beside DEF Meanings, Bindings, len
  <2>2. Object(n, u)' = Object(n, u)
    BY <1>7
  <2>3. Object(n, u) # 0 => Entity(n, u)' = Entity(n, u)
    BY <1>9, <2>1
  <2>4. Entity(n, u)' # 0 /\ Object(n, u) = 0 => n = len /\ \E i \in DOMAIN open' : open'[i].tag = u
    <3>1. CASE Entity(n, u) # 0
      BY <1>10, <2>1, <3>1
    <3>2. CASE Entity(n, u)' # 0 /\ Entity(n, u) = 0
      BY <1>2, <1>4, <1>5, <1>10, <3>2
    <3> QED
      BY <3>1, <3>2
  <2> QED
    BY <1>1, <1>4, <2>1, <2>2, <2>3, <2>4
<1>15. CompleteBound'
  <2> SUFFICES ASSUME NEW n \in 1..len, NEW u \in Tags, Entity(n, u)' # 0, entities'[Entity(n, u)'] # {}
               PROVE  Object(n, u)' # 0 /\ structs'[Object(n, u)'].fields # 0
    BY <1>4 DEF CompleteBound, Complete
  <2>1. Entity(n, u)' = Entity(n, u)
    <3>1. CASE UNCHANGED <<entities, c_env>>
      BY <3>1 DEF Entity
    <3>2. CASE NewEntity(tag)
      BY <1>4, <1>11, <3>2
    <3> QED
      BY <1>2, <3>1, <3>2
  <2>2. Entity(n, u) \in DOMAIN entities
    BY <1>6, <2>1
  <2>3. Object(n, u) # 0 /\ structs[Object(n, u)].fields # 0
    BY <1>4, <1>5, <2>1, <2>2 DEF Meanings, CompleteBound, Complete
  <2> QED
    BY <1>1, <1>7, <2>3
<1>16. FirstBound'
  <2> SUFFICES ASSUME NEW x \in DOMAIN structs, meaning.object[x].first,
                      NEW n \in 1..len, NEW u \in Tags,
                      Entity(n, u)' = meaning.object[x].entity
               PROVE  Object(n, u)' = x
    BY <1>1, <1>4 DEF FirstBound
  <2>1. Entity(n, u) = meaning.object[x].entity
    BY <1>8, <1>9
  <2> QED
    BY <1>5, <1>7, <2>1 DEF Meanings, FirstBound
<1>17. LateComplete' /\ Unnamed'
  BY <1>1, <1>4, <1>8 DEF Meanings, LateComplete, Unnamed, Complete
<1>18. AliasOutermost'
  <2> SUFFICES ASSUME NEW a \in DOMAIN aliases, NEW u \in Tags, structs[aliases[a]].name = u
               PROVE  Entity(1, u)' = meaning.alias[a] /\ Object(1, u)' # 0
    BY <1>1 DEF AliasOutermost
  <2>1. Entity(1, u) = meaning.alias[a] /\ Object(1, u) # 0
    BY DEF Meanings, AliasOutermost
  <2>2. 1 \in 1..len
    BY <1>5 DEF len
  <2>3. meaning.alias[a] \in 1..Len(entities)
    BY <1>4, <1>8
  <2>4. Entity(1, u) # 0
    BY <1>4, <2>1, <2>3
  <2> QED
    BY <1>7, <1>9, <2>1, <2>2, <2>4
<1>19. FirstMentionsCompleted'
  BY <1>1, <1>4, <1>8 DEF Meanings, FirstMentionsCompleted, Complete
<1>20. FirstAliasCompleted'
  BY <1>1, <1>4, <1>8 DEF Meanings, FirstAliasCompleted, Complete
<1>21. NeverOtherFields'
  BY <1>1, <1>4, <1>8 DEF Meanings, NeverOtherFields
<1> QED
  BY <1>3, <1>12, <1>13, <1>14, <1>15, <1>16, <1>17, <1>18, <1>19, <1>20, <1>21 DEF Meanings

-----------------------------------------------------------------------------
(* The body of a struct ends.                                              *)

ClosedAs(top, named) ==
  /\ Closed(top) /\ top.tag \in Tags \cup {NoTag}
  /\ top.fields \in 1..bodies /\ top.entity \in DOMAIN entities
  /\ ~DuplicateStruct(top.tag, top.fields)
  /\ NewObject(top.tag, top.fields) /\ NewBinding(top.tag)
  /\ NewAlias(top.tag, top.entity, named) /\ NewMeaning(top.tag, top.entity)
  /\ Len(aliases') = Len(aliases) \/ Len(struct_env) = 1

\* The entity gets its only body; its object in this scope is known.
LEMMA ClosedFacts ==
  ASSUME Typed, InRange, shadowed = {}, Meanings, Typed', InRange',
         NEW named \in BOOLEAN, NEW top, ClosedAs(top, named)
  PROVE  /\ entities[top.entity] = {} /\ entities'[top.entity] = {top.fields}
         /\ DOMAIN entities' = DOMAIN entities
         /\ \A x \in DOMAIN entities : x # top.entity => entities'[x] = entities[x]
         /\ top.fields # 0 /\ Len(open) \in DOMAIN open /\ open[Len(open)] = top
         /\ top.tag \in Tags =>
              /\ \A n \in 1..Len(c_env) : n = Innermost => Entity(n, top.tag) = top.entity
              /\ Existing(top.tag) # 0 => Existing(top.tag) = Object(Innermost, top.tag)
         /\ \A n \in 1..Len(c_env) : \A u \in Tags :
              Entity(n, u) = top.entity => u = top.tag /\ n = Innermost
<1> DEFINE e == top.entity
           t == top.tag
           f == top.fields
           len == Len(c_env)
<1>1. /\ Len(open) > 0 /\ top = open[Len(open)]
      /\ entities' = [entities EXCEPT ![e] = @ \cup {f}]
      /\ t \in Tags \cup {NoTag} /\ f \in 1..bodies /\ e \in DOMAIN entities
      /\ ~DuplicateStruct(t, f)
  BY DEF ClosedAs, Closed
<1>2. /\ Len(open) \in DOMAIN open /\ bodies \in Nat
      /\ DOMAIN c_env = 1..len /\ len \in 1..len /\ Innermost = len
      /\ DOMAIN entities = 1..Len(entities)
  BY <1>1, Domains DEF Typed, Innermost
<1>3. f # 0 /\ e # 0
  BY <1>1, <1>2
<1> HIDE DEF e, t, f, len
<1>4. t \in Tags => Entity(len, t) = e
  BY <1>1, <1>2, TagsAssumption DEF Meanings, OpenHere, e, t, len
<1>5. entities[e] = {}
  <2>1. CASE t = NoTag
    BY <1>1, <1>2, <2>1 DEF Meanings, Anonymous, e, t
  <2>2. CASE t \in Tags
    <3>1. entities[e] # {} => Object(len, t) # 0 /\ structs[Object(len, t)].fields # 0
      BY <1>2, <1>3, <1>4, <2>2 DEF Meanings, CompleteBound, Complete
    <3>2. LocalStruct(t) = Object(len, t) /\ t # NoTag
      BY <1>2, <2>2, ExistingIs, TagsAssumption
    <3> QED
      BY <1>1, <1>3, <3>1, <3>2 DEF DuplicateStruct, Fields
  <2> QED
    BY <1>1, <2>1, <2>2
<1>6. entities'[e] = {f} /\ \A x \in DOMAIN entities : x # e => entities'[x] = entities[x]
  BY <1>1, <1>5
<1>7. t \in Tags /\ Existing(t) # 0 => Existing(t) = Object(len, t)
  <2> SUFFICES ASSUME t \in Tags, Existing(t) # 0
               PROVE  Existing(t) = Object(len, t)
    OBVIOUS
  <2>1. PICK n \in 1..len : Existing(t) = Object(n, t)
    BY ExistingIs DEF len
  <2>2. n = len
    BY <1>2, <1>3, <1>4, <2>1, Beside DEF len
  <2> QED
    BY <2>1, <2>2
<1>8. ASSUME NEW n \in 1..len, NEW u \in Tags, Entity(n, u) = e
      PROVE  u = t /\ n = len
  <2>1. t # NoTag
    BY <1>1, <1>2, <1>8 DEF Meanings, Anonymous, e, t
  <2>2. t \in Tags
    BY <1>1, <2>1
  <2>3. u = t
    BY <1>2, <1>3, <1>4, <1>8, <2>2 DEF Meanings, OneTag
  <2>4. n = len
    BY <1>2, <1>3, <1>4, <1>8, <2>2, <2>3 DEF Meanings, OneScope
  <2> QED
    BY <2>3, <2>4
<1>9. DOMAIN entities' = DOMAIN entities
  BY <1>1
<1>10. \A n \in 1..len : n = Innermost => (t \in Tags => Entity(n, t) = e)
  BY <1>2, <1>4
<1> QED
  BY <1>1, <1>2, <1>3, <1>5, <1>6, <1>7, <1>8, <1>9, <1>10 DEF e, t, f, len

LEMMA CloseBodyMeanings ==
  ASSUME Typed, InRange, shadowed = {}, Meanings, Typed', InRange',
         NEW named \in BOOLEAN, NEW top, ClosedAs(top, named)
  PROVE  Meanings'
<1> DEFINE s == Len(structs) + 1
           e == top.entity
           t == top.tag
           f == top.fields
           len == Len(c_env)
<1>1. /\ Len(open) > 0 /\ e \in DOMAIN entities /\ f \in 1..bodies /\ t \in Tags \cup {NoTag}
      /\ Len(open') = Len(open) - 1 /\ \A i \in 1..(Len(open) - 1) : open'[i] = open[i]
      /\ UNCHANGED <<bodies, c_env, shadowed>>
      /\ NewObject(t, f) /\ NewBinding(t) /\ NewAlias(t, e, named) /\ NewMeaning(t, e)
      /\ Len(aliases') = Len(aliases) \/ Len(struct_env) = 1
  BY DEF ClosedAs, Closed
<1>2. /\ entities[e] = {} /\ entities'[e] = {f}
      /\ DOMAIN entities' = DOMAIN entities
      /\ \A x \in DOMAIN entities : x # e => entities'[x] = entities[x]
      /\ f # 0 /\ Len(open) \in DOMAIN open /\ open[Len(open)] = top
      /\ t \in Tags =>
           /\ \A n \in 1..len : n = Innermost => Entity(n, t) = e
           /\ Existing(t) # 0 => Existing(t) = Object(Innermost, t)
      /\ \A n \in 1..len : \A u \in Tags : Entity(n, u) = e => u = t /\ n = Innermost
  BY ClosedFacts
<1>3. /\ DOMAIN c_env = 1..len /\ DOMAIN c_env' = 1..len /\ DOMAIN struct_env = 1..len
      /\ DOMAIN struct_env' = 1..len /\ len \in 1..len /\ Innermost = len
      /\ Len(struct_env) = len /\ DOMAIN entities = 1..Len(entities) /\ Len(entities) \in Nat
      /\ Len(structs) \in Nat /\ DOMAIN structs = 1..Len(structs)
      /\ Len(aliases) \in Nat /\ DOMAIN aliases = 1..Len(aliases)
      /\ DOMAIN aliases' = 1..Len(aliases')
      /\ Len(open) \in Nat /\ DOMAIN open = 1..Len(open) /\ DOMAIN open' = 1..Len(open')
  <2>1. DOMAIN c_env' = 1..Len(c_env') /\ DOMAIN struct_env' = 1..Len(c_env')
    BY NextDomains
  <2>2. DOMAIN c_env' = 1..len /\ DOMAIN struct_env' = 1..len
    BY <1>1, <2>1
  <2>3. DOMAIN aliases' = 1..Len(aliases') /\ DOMAIN open' = 1..Len(open')
    BY NextDomains
  <2> QED
    BY <2>2, <2>3, Domains DEF Innermost
<1>4. \A n \in 1..len : \A u \in Tags : Entity(n, u)' = Entity(n, u)
  BY <1>1 DEF Entity
<1>5. /\ DOMAIN structs' = 1..s /\ (\A x \in 1..s : x = s \/ x \in DOMAIN structs)
      /\ s # 0 /\ s \notin DOMAIN structs
  <2>1. Len(structs') = s
    BY <1>1 DEF NewObject
  <2> QED
    BY <1>3, <2>1, NextDomains
<1>6. \A n \in 1..len : \A u \in Tags :
        /\ Object(n, u) \in Nat /\ (Object(n, u) # 0 => Object(n, u) \in DOMAIN structs)
        /\ Entity(n, u) \in Nat /\ (Entity(n, u) # 0 => Entity(n, u) \in DOMAIN entities)
  BY Bound
<1>7. \A n \in 1..len : \A u \in Tags :
        Object(n, u)' = IF Existing(t) = 0 /\ n = len /\ u = t THEN s ELSE Object(n, u)
  BY <1>1, <1>3 DEF NewBinding
<1>8. Existing(t) = 0 /\ t \in Tags => \A n \in 1..len : Object(n, t) = 0
  BY Beside
<1>9. \A n \in 1..len : \A u \in Tags : Object(n, u) # 0 => Object(n, u)' = Object(n, u)
  BY <1>7, <1>8
<1>10. structs'[s].name = t /\ structs'[s].fields = f
       /\ \A x \in DOMAIN structs : structs'[x].name = structs[x].name
  BY <1>1, <1>2, <1>3 DEF NewObject
<1>11. t = NoTag => Existing(t) = 0
  BY DEF Existing
<1>12. \A x \in DOMAIN structs :
         structs'[x].fields = IF t \in Tags /\ x = Object(len, t) THEN f ELSE structs[x].fields
  <2>1. \A x \in DOMAIN structs :
          structs'[x].fields = IF f # 0 /\ Existing(t) # 0 /\ x = Object(Innermost, t)
                               THEN f ELSE structs[x].fields
    BY <1>1, <1>3 DEF NewObject
  <2>2. \A x \in DOMAIN structs : t \in Tags /\ x = Object(len, t) => Existing(t) # 0
    BY <1>3, <1>8
  <2> HIDE DEF t, f, len
  <2> QED
    BY <1>1, <1>2, <1>3, <1>11, <2>1, <2>2
<1>13. /\ meaning'.object[s].entity = e
       /\ \A x \in DOMAIN structs : meaning'.object[x] = meaning.object[x]
  BY <1>1, <1>3 DEF NewMeaning
<1>14. (meaning'.object[s].first <=> Existing(t) = 0) /\ ~meaning'.object[s].late
  <2>1. /\ meaning'.object[s].first <=> Existing(t) = 0
        /\ meaning'.object[s].late <=> e <= Len(entities) /\ entities[e] # {}
    BY <1>1 DEF NewMeaning
  <2> QED
    BY <1>2, <2>1
<1>15. t \in Tags => \A n \in 1..len : n = len => Object(n, t)' # 0
  <2>1. CASE Existing(t) = 0
    BY <1>3, <1>5, <1>7, <2>1
  <2>2. CASE Existing(t) # 0
    BY <1>2, <1>3, <1>9, <2>2
  <2> QED
    BY <2>1, <2>2
<1>16. /\ \A a \in DOMAIN aliases : a \in DOMAIN aliases'
       /\ \A a \in DOMAIN aliases' : a \in DOMAIN aliases \/ a = Len(aliases) + 1
       /\ Len(aliases) + 1 \in DOMAIN aliases' =>
            len = 1 /\ aliases'[Len(aliases) + 1] = s /\ meaning'.alias[Len(aliases) + 1] = e
  <2>1. \/ Len(aliases') = Len(aliases)
        \/ /\ Len(aliases') = Len(aliases) + 1 /\ len = 1
           /\ aliases'[Len(aliases) + 1] = s /\ meaning'.alias[Len(aliases) + 1] = e
    BY <1>1, <1>3 DEF NewAlias
  <2>2. CASE Len(aliases') = Len(aliases)
    BY <1>3, <2>2
  <2>3. CASE /\ Len(aliases') = Len(aliases) + 1 /\ len = 1
             /\ aliases'[Len(aliases) + 1] = s /\ meaning'.alias[Len(aliases) + 1] = e
    <3>1. /\ \A a \in 1..Len(aliases) : a \in 1..(Len(aliases) + 1)
          /\ \A a \in 1..(Len(aliases) + 1) : a \in 1..Len(aliases) \/ a = Len(aliases) + 1
      BY <1>3
    <3> QED
      BY <1>3, <2>3, <3>1
  <2> QED
    BY <2>1, <2>2, <2>3
<1>17. \A a \in DOMAIN aliases :
         /\ aliases'[a] = IF Existing(t) # 0 /\ a = AliasOf(t) THEN s ELSE aliases[a]
         /\ meaning'.alias[a] = meaning.alias[a]
  BY <1>1, <1>3 DEF NewAlias
<1>18. /\ \A a \in DOMAIN aliases : aliases[a] \in DOMAIN structs /\ meaning.alias[a] \in DOMAIN entities
       /\ \A x \in DOMAIN structs : meaning.object[x].entity \in DOMAIN entities
       /\ \A i \in DOMAIN open : open[i].entity \in DOMAIN entities
       /\ \A x \in DOMAIN entities : x # 0
  BY <1>3 DEF InRange
<1>19. AliasOf(t) \in DOMAIN aliases => structs[aliases[AliasOf(t)]].name = t
  BY <1>3, AliasOfIs
<1>20. /\ DOMAIN open' = 1..(Len(open) - 1)
       /\ \A i \in DOMAIN open' : i \in DOMAIN open /\ i # Len(open) /\ open'[i] = open[i]
       /\ \A i \in DOMAIN open : i # Len(open) => i \in DOMAIN open'
  <2> DEFINE p == Len(open)
  <2>1. DOMAIN open' = 1..(p - 1) /\ DOMAIN open = 1..p /\ p \in Nat
    BY <1>1, <1>3
  <2>2. \A i \in 1..(p - 1) : open'[i] = open[i]
    BY <1>1
  <2> HIDE DEF p
  <2>3. /\ \A i \in 1..(p - 1) : i \in 1..p /\ i # p
        /\ \A i \in 1..p : i # p => i \in 1..(p - 1)
    BY <2>1
  <2> QED
    BY <2>1, <2>2, <2>3 DEF p
<1>21. t = NoTag =>
         /\ \A x \in DOMAIN structs : meaning.object[x].entity # e
         /\ \A a \in DOMAIN aliases : meaning.alias[a] # e
  BY <1>2 DEF Meanings, Anonymous
<1>22. ASSUME NEW a \in DOMAIN aliases, structs[aliases[a]].name = t, t \in Tags
       PROVE  len = 1 /\ meaning.alias[a] = e /\ Existing(t) # 0
  <2>1. Entity(1, t) = meaning.alias[a] /\ Object(1, t) # 0
    BY <1>22 DEF Meanings, AliasOutermost
  <2>2. 1 \in 1..len /\ Entity(1, t) # 0
    BY <1>3, <1>18, <2>1
  <2>3. len = 1
    BY <1>2, <1>3, <1>18, <1>22, <2>1, <2>2, Beside
  <2>4. Existing(t) = Object(1, t)
    BY <1>22, <2>1, <2>2, Beside
  <2> QED
    BY <1>2, <1>3, <1>22, <2>1, <2>2, <2>3, <2>4
<1> HIDE DEF s, e, t, f, len
<1>23. \A a \in DOMAIN aliases : structs'[aliases'[a]].name = structs[aliases[a]].name
  BY <1>10, <1>17, <1>18, <1>19
<1>24. \A a \in DOMAIN aliases' :
         \/ aliases'[a] = s /\ meaning'.alias[a] = e
         \/ /\ a \in DOMAIN aliases /\ ~(Existing(t) # 0 /\ a = AliasOf(t))
            /\ aliases'[a] = aliases[a] /\ meaning'.alias[a] = meaning.alias[a]
  BY <1>1, <1>11, <1>16, <1>17, <1>19, <1>22
<1>25. ASSUME t \in Tags
       PROVE  /\ Object(len, t) # 0 =>
                   structs[Object(len, t)].name = t /\ meaning.object[Object(len, t)].entity = e
              /\ Entity(len, t) = e
  BY <1>2, <1>3, <1>25 DEF Meanings, Bindings
<1>26. OneScope' /\ OneTag'
  BY <1>3, <1>4 DEF Meanings, OneScope, OneTag
<1>27. Anonymous'
  <2> SUFFICES ASSUME NEW i \in DOMAIN open', open'[i].tag = NoTag
               PROVE  /\ entities'[open'[i].entity] = {}
                      /\ \A n \in 1..len : \A u \in Tags : Entity(n, u)' # open'[i].entity
                      /\ \A j \in DOMAIN open' : i # j => open'[j].entity # open'[i].entity
                      /\ \A x \in DOMAIN structs' : meaning'.object[x].entity # open'[i].entity
                      /\ \A a \in DOMAIN aliases' : meaning'.alias[a] # open'[i].entity
    BY <1>3 DEF Anonymous
  <2>1. i \in DOMAIN open /\ open'[i] = open[i] /\ i # Len(open) /\ open[i].tag = NoTag
    BY <1>20
  <2>2. /\ entities[open[i].entity] = {}
        /\ \A n \in 1..len : \A u \in Tags : Entity(n, u) # open[i].entity
        /\ \A j \in DOMAIN open : i # j => open[j].entity # open[i].entity
        /\ \A x \in DOMAIN structs : meaning.object[x].entity # open[i].entity
        /\ \A a \in DOMAIN aliases : meaning.alias[a] # open[i].entity
    BY <1>3, <2>1 DEF Meanings, Anonymous
  <2>3. open[i].entity # e
    BY <1>2, <2>1, <2>2 DEF e
  <2>4. entities'[open[i].entity] = {}
    BY <1>2, <1>18, <2>1, <2>2, <2>3
  <2>5. \A x \in DOMAIN structs' : meaning'.object[x].entity # open[i].entity
    BY <1>5, <1>13, <2>2, <2>3
  <2>6. \A a \in DOMAIN aliases' : meaning'.alias[a] # open[i].entity
    BY <1>24, <2>2, <2>3
  <2>7. \A j \in DOMAIN open' : i # j => open'[j].entity # open[i].entity
    BY <1>20, <2>2
  <2> QED
    BY <1>4, <2>1, <2>2, <2>4, <2>5, <2>6, <2>7
<1>28. OpenHere'
  <2>1. c_env' = c_env
    BY <1>1
  <2> SUFFICES ASSUME NEW i \in DOMAIN open', open'[i].tag # NoTag
               PROVE  MapFind(c_env[Len(c_env)], open'[i].tag) = open'[i].entity
    BY <2>1 DEF OpenHere, Entity
  <2> QED
    BY <1>20 DEF Meanings, OpenHere, Entity
<1>29. Bindings'
  <2> SUFFICES ASSUME NEW n \in DOMAIN struct_env', NEW u \in Tags
               PROVE  /\ Object(n, u)' # 0 => /\ structs'[Object(n, u)'].name = u
                                              /\ Entity(n, u)' = meaning'.object[Object(n, u)'].entity
                      /\ Entity(n, u)' # 0 /\ Object(n, u)' = 0 =>
                           n = Len(c_env') /\ \E i \in DOMAIN open' : open'[i].tag = u
    BY DEF Bindings
  <2> n \in 1..len
    BY <1>3
  <2>1. /\ Object(n, u) # 0 => /\ structs[Object(n, u)].name = u
                               /\ Entity(n, u) = meaning.object[Object(n, u)].entity
        /\ Entity(n, u) # 0 /\ Object(n, u) = 0 => n = len /\ \E i \in DOMAIN open : open[i].tag = u
    BY <1>3 DEF Meanings, Bindings, len
  <2>2. Object(n, u)' # 0 => /\ structs'[Object(n, u)'].name = u
                             /\ Entity(n, u) = meaning'.object[Object(n, u)'].entity
    <3>1. CASE Existing(t) = 0 /\ n = len /\ u = t
      BY <1>7, <1>10, <1>13, <1>25, <3>1
    <3>2. CASE ~(Existing(t) = 0 /\ n = len /\ u = t)
      <4>1. Object(n, u)' = Object(n, u)
        BY <1>7, <3>2
      <4> QED
        BY <1>6, <1>10, <1>13, <2>1, <4>1
    <3> QED
      BY <3>1, <3>2
  <2>3. Entity(n, u) # 0 /\ Object(n, u)' = 0 => n = len /\ \E i \in DOMAIN open' : open'[i].tag = u
    <3> SUFFICES ASSUME Entity(n, u) # 0, Object(n, u)' = 0
                 PROVE  n = len /\ \E i \in DOMAIN open' : open'[i].tag = u
      OBVIOUS
    <3>1. Object(n, u) = 0
      BY <1>9
    <3>2. PICK i \in DOMAIN open : n = len /\ open[i].tag = u
      BY <2>1, <3>1
    <3>3. u = t => Object(n, u)' # 0
      BY <1>15, <3>2
    <3>4. i # Len(open)
      BY <1>2, <3>2, <3>3 DEF t
    <3>5. i \in DOMAIN open'
      BY <1>20, <3>4
    <3> QED
      BY <1>20, <3>2, <3>5
  <2> QED
    BY <1>1, <1>4, <2>2, <2>3 DEF len
<1>30. CompleteBound'
  <2> SUFFICES ASSUME NEW n \in 1..len, NEW u \in Tags, Entity(n, u) # 0, entities'[Entity(n, u)] # {}
               PROVE  Object(n, u)' # 0 /\ structs'[Object(n, u)'].fields # 0
    BY <1>3, <1>4 DEF CompleteBound, Complete
  <2>1. CASE Entity(n, u) = e
    <3>1. u = t /\ n = len
      BY <1>2, <1>3, <2>1
    <3>2. Object(n, t)' # 0
      BY <1>15, <3>1
    <3>3. CASE Existing(t) = 0
      BY <1>2, <1>7, <1>10, <3>1, <3>2, <3>3
    <3>4. CASE Existing(t) # 0
      <4>1. Object(n, u)' = Object(n, u)
        BY <1>7, <3>4
      <4>2. Object(len, t) \in DOMAIN structs
        BY <1>6, <3>1, <3>2, <4>1
      <4> QED
        BY <1>2, <1>12, <3>1, <3>2, <4>1, <4>2
    <3> QED
      BY <3>3, <3>4
  <2>2. CASE Entity(n, u) # e
    <3>1. entities[Entity(n, u)] # {}
      BY <1>2, <1>6, <2>2
    <3>2. Object(n, u) # 0 /\ structs[Object(n, u)].fields # 0
      BY <1>3, <3>1 DEF Meanings, CompleteBound, Complete
    <3> QED
      BY <1>2, <1>6, <1>9, <1>12, <3>2
  <2> QED
    BY <2>1, <2>2
<1>31. FirstBound'
  <2> SUFFICES ASSUME NEW x \in DOMAIN structs', meaning'.object[x].first,
                      NEW n \in 1..len, NEW u \in Tags,
                      Entity(n, u) = meaning'.object[x].entity
               PROVE  Object(n, u)' = x
    BY <1>3, <1>4 DEF FirstBound
  <2>1. CASE x \in DOMAIN structs
    <3>0. meaning.object[x].first /\ Entity(n, u) = meaning.object[x].entity
      BY <1>13, <2>1
    <3>1. Object(n, u) = x
      BY <1>3, <2>1, <3>0 DEF Meanings, FirstBound
    <3>2. x # 0
      BY <1>3, <2>1
    <3> QED
      BY <1>9, <3>1, <3>2
  <2>2. CASE x = s
    <3>1. Existing(t) = 0 /\ Entity(n, u) = e
      BY <1>13, <1>14, <2>2
    <3>2. u = t /\ n = len
      BY <1>2, <1>3, <3>1
    <3> QED
      BY <1>7, <2>2, <3>1, <3>2
  <2> QED
    BY <1>5, <2>1, <2>2
<1>32. LateComplete'
  <2> SUFFICES ASSUME NEW x \in DOMAIN structs', meaning'.object[x].late
               PROVE  entities'[meaning'.object[x].entity] # {}
    BY DEF LateComplete, Complete
  <2>1. x \in DOMAIN structs
    BY <1>5, <1>14
  <2>2. entities[meaning.object[x].entity] # {}
    BY <1>13, <2>1 DEF Meanings, LateComplete, Complete
  <2> QED
    BY <1>2, <1>13, <1>18, <2>1, <2>2
<1>33. Unnamed'
  <2>1. \A x \in DOMAIN structs' : structs'[x].name = NoTag => structs'[x].fields # 0
    BY <1>2, <1>5, <1>10, <1>12 DEF Meanings, Unnamed
  <2> QED
    BY <2>1 DEF Unnamed
<1>34. AliasOutermost'
  <2> SUFFICES ASSUME NEW a \in DOMAIN aliases', NEW u \in Tags, structs'[aliases'[a]].name = u
               PROVE  Entity(1, u)' = meaning'.alias[a] /\ Object(1, u)' # 0
    BY DEF AliasOutermost
  <2>1. 1 \in 1..len
    BY <1>3 DEF len
  <2>2. CASE a \in DOMAIN aliases
    <3>1. structs[aliases[a]].name = u
      BY <1>23, <2>2
    <3>2. Entity(1, u) = meaning.alias[a] /\ Object(1, u) # 0
      BY <2>2, <3>1 DEF Meanings, AliasOutermost
    <3> QED
      BY <1>4, <1>9, <1>17, <2>1, <2>2, <3>2
  <2>3. CASE a = Len(aliases) + 1
    <3>1. len = 1 /\ aliases'[a] = s /\ meaning'.alias[a] = e
      BY <1>16, <2>3
    <3>2. u = t
      BY <1>10, <3>1
    <3>3. Object(1, u)' # 0
      BY <1>15, <2>1, <3>1, <3>2
    <3>4. Entity(1, u)' = Entity(1, u)
      BY <1>4, <2>1
    <3> QED
      BY <1>25, <3>1, <3>2, <3>3, <3>4
  <2> QED
    BY <1>16, <2>2, <2>3
<1>35. AtMostOneBody'
  <2>1. f \in Nat
    BY <1>1 DEF Typed
  <2>2. \A x \in DOMAIN entities : entities'[x] = {} \/ \E g \in Nat : entities'[x] = {g}
    BY <1>2, <2>1 DEF Meanings, AtMostOneBody
  <2> QED
    BY <1>2, <2>2 DEF AtMostOneBody
<1>36. ASSUME NEW x \in DOMAIN structs, t \in Tags, x = Object(len, t)
       PROVE  structs'[x].fields = f /\ meaning.object[x].entity = e /\ structs[x].name = t
  <2>1. x # 0
    BY <1>3
  <2> QED
    BY <1>12, <1>25, <1>36, <2>1
<1>37. FirstMentionsCompleted'
  <2> SUFFICES ASSUME NEW x \in DOMAIN structs', entities'[meaning'.object[x].entity] # {},
                      meaning'.object[x].first \/ meaning'.object[x].late
               PROVE  structs'[x].fields \in entities'[meaning'.object[x].entity]
    BY DEF FirstMentionsCompleted, Complete
  <2>1. CASE x = s
    BY <1>2, <1>10, <1>13, <2>1
  <2>2. CASE x \in DOMAIN structs /\ meaning.object[x].entity # e
    <3>1. /\ meaning'.object[x] = meaning.object[x]
          /\ entities'[meaning.object[x].entity] = entities[meaning.object[x].entity]
      BY <1>2, <1>13, <1>18, <2>2
    <3>2. structs'[x].fields = structs[x].fields
      BY <1>12, <1>36, <2>2
    <3> QED
      BY <2>2, <3>1, <3>2 DEF Meanings, FirstMentionsCompleted, Complete
  <2>3. CASE x \in DOMAIN structs /\ meaning.object[x].entity = e
    <3>1. meaning'.object[x] = meaning.object[x] /\ ~meaning.object[x].late
      BY <1>2, <1>13, <2>3 DEF Meanings, LateComplete, Complete
    <3>2. t \in Tags
      BY <1>1, <1>21, <2>3
    <3>3. Object(len, t) = x
      BY <1>3, <1>25, <2>3, <3>1, <3>2 DEF Meanings, FirstBound
    <3> QED
      BY <1>2, <1>36, <2>3, <3>1, <3>2, <3>3
  <2> QED
    BY <1>5, <2>1, <2>2, <2>3
<1>38. ASSUME NEW a \in DOMAIN aliases, meaning.alias[a] # e
       PROVE  structs'[aliases[a]].fields = structs[aliases[a]].fields
  <2>1. ~(t \in Tags /\ aliases[a] = Object(len, t))
    BY <1>18, <1>22, <1>36, <1>38
  <2> QED
    BY <1>12, <1>18, <2>1
<1>39. FirstAliasCompleted'
  <2> SUFFICES ASSUME NEW a \in DOMAIN aliases',
                      \A b \in 1..(a - 1) : structs'[aliases'[b]].name # structs'[aliases'[a]].name,
                      entities'[meaning'.alias[a]] # {}
               PROVE  structs'[aliases'[a]].fields \in entities'[meaning'.alias[a]]
    BY DEF FirstAliasCompleted, Complete
  <2>1. CASE aliases'[a] = s /\ meaning'.alias[a] = e
    BY <1>2, <1>10, <2>1
  <2>2. CASE /\ a \in DOMAIN aliases /\ ~(Existing(t) # 0 /\ a = AliasOf(t))
             /\ aliases'[a] = aliases[a] /\ meaning'.alias[a] = meaning.alias[a]
    <3>1. \A b \in 1..(a - 1) : structs[aliases[b]].name # structs[aliases[a]].name
      <4>1. \A b \in 1..(a - 1) : b \in DOMAIN aliases
        BY <1>3, <2>2
      <4> QED
        BY <1>23, <2>2, <4>1
    <3>2. meaning.alias[a] # e
      <4> SUFFICES ASSUME meaning.alias[a] = e
                   PROVE  FALSE
        OBVIOUS
      <4> DEFINE w == structs[aliases[a]].name
      <4>1. t \in Tags
        BY <1>1, <1>21, <2>2
      <4>2. w # NoTag
        BY <1>2, <1>18, <2>2 DEF Meanings, Unnamed, NeverOtherFields
      <4>3. w \in Tags
        BY <1>18, <2>2, <4>2, ElementTypes
      <4>4. Entity(1, w) = e
        BY <2>2, <4>3 DEF Meanings, AliasOutermost
      <4>5. 1 \in 1..len
        BY <1>3 DEF len
      <4>6. w = t
        BY <1>2, <4>3, <4>4, <4>5
      <4>7. Existing(t) # 0
        BY <1>22, <2>2, <4>1, <4>6
      <4>8. AliasOf(t) \in 1..Len(aliases) /\ \A b \in 1..(AliasOf(t) - 1) : structs[aliases[b]].name # t
        BY <1>3, <2>2, <4>6, AliasOfIs
      <4>9. a = AliasOf(t)
        <5>1. ~(AliasOf(t) < a)
          BY <1>3, <1>19, <2>2, <3>1, <4>6, <4>8
        <5>2. ~(a < AliasOf(t))
          <6>1. a \in Nat /\ a >= 1 /\ AliasOf(t) \in Nat
            BY <1>3, <2>2, <4>8
          <6>2. a < AliasOf(t) => a \in 1..(AliasOf(t) - 1)
            BY <6>1
          <6> QED
            BY <4>6, <4>8, <6>2
        <5> QED
          BY <1>3, <2>2, <4>8, <5>1, <5>2
      <4> QED
        BY <2>2, <4>7, <4>9
    <3>3. entities'[meaning.alias[a]] = entities[meaning.alias[a]]
      BY <1>2, <1>18, <2>2, <3>2
    <3>4. structs[aliases[a]].fields \in entities[meaning.alias[a]]
      BY <2>2, <3>1, <3>3 DEF Meanings, FirstAliasCompleted, Complete
    <3> QED
      BY <1>38, <2>2, <3>2, <3>3, <3>4
  <2> QED
    BY <1>24, <2>1, <2>2
<1>40. NeverOtherFields'
  <2>1. \A x \in DOMAIN entities : entities[x] \subseteq entities'[x]
    BY <1>2
  <2>2. \A x \in DOMAIN structs :
          structs'[x].fields \in {0} \cup entities'[meaning.object[x].entity]
    <3> SUFFICES ASSUME NEW x \in DOMAIN structs
                 PROVE  structs'[x].fields \in {0} \cup entities'[meaning.object[x].entity]
      OBVIOUS
    <3>1. CASE t \in Tags /\ x = Object(len, t)
      BY <1>2, <1>36, <3>1
    <3>2. CASE ~(t \in Tags /\ x = Object(len, t))
      BY <1>12, <1>18, <2>1, <3>2 DEF Meanings, NeverOtherFields
    <3> QED
      BY <3>1, <3>2
  <2>3. \A x \in DOMAIN structs' :
          structs'[x].fields \in {0} \cup entities'[meaning'.object[x].entity]
    BY <1>2, <1>5, <1>10, <1>13, <2>2
  <2>4. \A a \in DOMAIN aliases : structs'[aliases[a]].fields \in {0} \cup entities'[meaning.alias[a]]
    <3> SUFFICES ASSUME NEW a \in DOMAIN aliases
                 PROVE  structs'[aliases[a]].fields \in {0} \cup entities'[meaning.alias[a]]
      OBVIOUS
    <3>1. structs[aliases[a]].fields \in {0} \cup entities[meaning.alias[a]]
      BY DEF Meanings, NeverOtherFields
    <3>2. CASE meaning.alias[a] # e
      BY <1>18, <1>38, <2>1, <3>1, <3>2
    <3>3. CASE meaning.alias[a] = e
      <4>1. structs[aliases[a]].fields = 0
        BY <1>2, <3>1, <3>3
      <4> QED
        BY <1>2, <1>12, <1>18, <3>3, <4>1
    <3> QED
      BY <3>2, <3>3
  <2>5. \A a \in DOMAIN aliases' :
          structs'[aliases'[a]].fields \in {0} \cup entities'[meaning'.alias[a]]
    BY <1>2, <1>10, <1>24, <2>4
  <2> QED
    BY <2>3, <2>5 DEF NeverOtherFields
<1> QED
  BY <1>26, <1>27, <1>28, <1>29, <1>30, <1>31, <1>32, <1>33, <1>34, <1>35, <1>37, <1>39, <1>40 DEF Meanings

-----------------------------------------------------------------------------
(* typedef of an alias, and blocks.                                        *)

LEMMA TypedefAliasMeanings ==
  ASSUME Typed, InRange, shadowed = {}, Meanings, Typed', InRange',
         NEW a \in DOMAIN aliases, TypedefAlias(a)
  PROVE  Meanings'
<1> DEFINE p == Len(aliases) + 1
<1>1. /\ UNCHANGED <<structs, struct_env, open, entities, c_env, shadowed>>
      /\ Len(aliases') = p
      /\ aliases'[p] = aliases[a] /\ meaning'.alias[p] = meaning.alias[a]
      /\ \A x \in 1..Len(aliases) : aliases'[x] = aliases[x] /\ meaning'.alias[x] = meaning.alias[x]
      /\ meaning'.object = meaning.object
  BY TypedefAliasTyped DEF TypedefAlias
<1>2. /\ Len(aliases) \in Nat /\ DOMAIN aliases = 1..Len(aliases) /\ DOMAIN aliases' = 1..p
      /\ \A x \in 1..p : x = p \/ x \in 1..Len(aliases)
      /\ a \in 1..(p - 1)
  <2>1. /\ Len(aliases) \in Nat /\ DOMAIN aliases = 1..Len(aliases)
        /\ DOMAIN aliases' = 1..Len(aliases')
    BY Domains, NextDomains
  <2>2. a \in 1..Len(aliases)
    BY <2>1
  <2> QED
    BY <1>1, <2>1, <2>2
<1> HIDE DEF p
<1>3. \A x \in DOMAIN aliases' :
        \/ /\ x \in DOMAIN aliases
           /\ aliases'[x] = aliases[x] /\ meaning'.alias[x] = meaning.alias[x]
        \/ x = p /\ aliases'[x] = aliases[a] /\ meaning'.alias[x] = meaning.alias[a]
  BY <1>1, <1>2
<1>4. /\ \A n \in DOMAIN c_env : \A u \in Tags : Entity(n, u)' = Entity(n, u)
      /\ \A n \in DOMAIN struct_env : \A u \in Tags : Object(n, u)' = Object(n, u)
  BY <1>1 DEF Entity, Object
<1>5. DOMAIN c_env = DOMAIN struct_env /\ 1 \in DOMAIN c_env
  BY Domains
<1>6. OneScope' /\ OneTag'
  BY <1>1, <1>4 DEF Meanings, OneScope, OneTag
<1>7. Anonymous'
  <2> SUFFICES ASSUME NEW i \in DOMAIN open', open'[i].tag = NoTag
               PROVE  /\ entities'[open'[i].entity] = {}
                      /\ \A n \in DOMAIN c_env' : \A u \in Tags : Entity(n, u)' # open'[i].entity
                      /\ \A j \in DOMAIN open' : i # j => open'[j].entity # open'[i].entity
                      /\ \A x \in DOMAIN structs' : meaning'.object[x].entity # open'[i].entity
                      /\ \A x \in DOMAIN aliases' : meaning'.alias[x] # open'[i].entity
    BY DEF Anonymous
  <2>1. /\ entities[open[i].entity] = {}
        /\ \A n \in DOMAIN c_env : \A u \in Tags : Entity(n, u) # open[i].entity
        /\ \A j \in DOMAIN open : i # j => open[j].entity # open[i].entity
        /\ \A x \in DOMAIN structs : meaning.object[x].entity # open[i].entity
        /\ \A x \in DOMAIN aliases : meaning.alias[x] # open[i].entity
    BY <1>1 DEF Meanings, Anonymous
  <2>2. \A x \in DOMAIN aliases' : meaning'.alias[x] # open[i].entity
    BY <1>3, <2>1
  <2> QED
    BY <1>1, <1>4, <2>1, <2>2
<1>8. OpenHere'
  BY <1>1 DEF Meanings, OpenHere, Entity
<1>9. Bindings'
  BY <1>1, <1>4, <1>5 DEF Meanings, Bindings
<1>10. CompleteBound'
  BY <1>1, <1>4, <1>5 DEF Meanings, CompleteBound, Complete
<1>11. FirstBound'
  BY <1>1, <1>4, <1>5 DEF Meanings, FirstBound
<1>12. LateComplete' /\ Unnamed' /\ AtMostOneBody' /\ FirstMentionsCompleted'
  BY <1>1, Zenon DEF Meanings, LateComplete, Unnamed, AtMostOneBody, FirstMentionsCompleted, Complete
<1>13. AliasOutermost'
  <2> SUFFICES ASSUME NEW x \in DOMAIN aliases', NEW u \in Tags, structs[aliases'[x]].name = u
               PROVE  Entity(1, u)' = meaning'.alias[x] /\ Object(1, u)' # 0
    BY <1>1 DEF AliasOutermost
  <2> QED
    BY <1>3, <1>4, <1>5 DEF Meanings, AliasOutermost
<1>14. FirstAliasCompleted'
  <2> SUFFICES ASSUME NEW x \in DOMAIN aliases',
                      \A b \in 1..(x - 1) : structs[aliases'[b]].name # structs[aliases'[x]].name,
                      entities[meaning'.alias[x]] # {}
               PROVE  structs[aliases'[x]].fields \in entities[meaning'.alias[x]]
    BY <1>1 DEF FirstAliasCompleted, Complete
  <2>1. x # p
    BY <1>1, <1>2
  <2>2. x \in DOMAIN aliases /\ aliases'[x] = aliases[x] /\ meaning'.alias[x] = meaning.alias[x]
    BY <1>3, <2>1
  <2>3. \A b \in 1..(x - 1) : b \in 1..Len(aliases)
    BY <1>2, <2>2
  <2>4. \A b \in 1..(x - 1) : structs[aliases[b]].name # structs[aliases[x]].name
    BY <1>1, <2>2, <2>3
  <2> QED
    BY <2>2, <2>4 DEF Meanings, FirstAliasCompleted, Complete
<1>15. NeverOtherFields'
  <2>1. \A x \in DOMAIN aliases' : structs[aliases'[x]].fields \in {0} \cup entities[meaning'.alias[x]]
    BY <1>3 DEF Meanings, NeverOtherFields
  <2> QED
    BY <1>1, <2>1 DEF Meanings, NeverOtherFields
<1> QED
  BY <1>6, <1>7, <1>8, <1>9, <1>10, <1>11, <1>12, <1>13, <1>14, <1>15 DEF Meanings

\* Scopes without a binding come, and scopes go, while no struct is open.
LEMMA Rescoped ==
  ASSUME Typed, InRange, shadowed = {}, Meanings, Typed', open = <<>>,
         UNCHANGED <<structs, aliases, open, meaning, entities, shadowed>>,
         1 \in DOMAIN c_env, 1 \in DOMAIN c_env',
         \A n \in DOMAIN c_env' : \A u \in Tags :
           \/ n \in DOMAIN c_env /\ Object(n, u)' = Object(n, u) /\ Entity(n, u)' = Entity(n, u)
           \/ n # 1 /\ Object(n, u)' = 0 /\ Entity(n, u)' = 0
  PROVE  Meanings'
<1>1. /\ DOMAIN open = {} /\ DOMAIN open' = {}
      /\ DOMAIN c_env = DOMAIN struct_env /\ DOMAIN c_env' = DOMAIN struct_env'
  BY Domains, NextDomains
<1>2. OneScope'
  BY DEF Meanings, OneScope
<1>3. OneTag'
  BY DEF Meanings, OneTag
<1>4. Anonymous'
  BY <1>1 DEF Anonymous
<1>5. OpenHere'
  BY <1>1 DEF OpenHere
<1>6. Bindings'
  <2> SUFFICES ASSUME NEW n \in DOMAIN struct_env', NEW u \in Tags
               PROVE  /\ Object(n, u)' # 0 => /\ structs'[Object(n, u)'].name = u
                                              /\ Entity(n, u)' = meaning'.object[Object(n, u)'].entity
                      /\ Entity(n, u)' # 0 /\ Object(n, u)' = 0 =>
                           n = Len(c_env') /\ \E i \in DOMAIN open' : open'[i].tag = u
    BY DEF Bindings
  <2>1. CASE n \in DOMAIN c_env /\ Object(n, u)' = Object(n, u) /\ Entity(n, u)' = Entity(n, u)
    <3>1. /\ Object(n, u) # 0 => /\ structs[Object(n, u)].name = u
                                 /\ Entity(n, u) = meaning.object[Object(n, u)].entity
          /\ Entity(n, u) # 0 => Object(n, u) # 0
      BY <1>1, <2>1 DEF Meanings, Bindings
    <3> QED
      BY <2>1, <3>1
  <2>2. CASE Object(n, u)' = 0 /\ Entity(n, u)' = 0
    BY <2>2
  <2> QED
    BY <1>1, <2>1, <2>2
<1>7. CompleteBound'
  <2> SUFFICES ASSUME NEW n \in DOMAIN c_env', NEW u \in Tags,
                      Entity(n, u)' # 0, entities[Entity(n, u)'] # {}
               PROVE  Object(n, u)' # 0 /\ structs[Object(n, u)'].fields # 0
    BY DEF CompleteBound, Complete
  <2> QED
    BY DEF Meanings, CompleteBound, Complete
<1>8. FirstBound'
  <2> SUFFICES ASSUME NEW x \in DOMAIN structs, meaning.object[x].first,
                      NEW n \in DOMAIN c_env', NEW u \in Tags, Entity(n, u)' = meaning.object[x].entity
               PROVE  Object(n, u)' = x
    BY DEF FirstBound
  <2>1. meaning.object[x].entity \in 1..Len(entities)
    BY Domains DEF InRange
  <2>2. Entity(n, u)' # 0
    BY <2>1, Domains
  <2> QED
    BY <2>2 DEF Meanings, FirstBound
<1>9. LateComplete' /\ Unnamed' /\ AtMostOneBody' /\ FirstMentionsCompleted' /\ FirstAliasCompleted'
      /\ NeverOtherFields'
  BY Zenon DEF Meanings, LateComplete, Unnamed, AtMostOneBody, FirstMentionsCompleted, Complete,
               FirstAliasCompleted, NeverOtherFields
<1>10. AliasOutermost'
  BY DEF Meanings, AliasOutermost
<1> QED
  BY <1>2, <1>3, <1>4, <1>5, <1>6, <1>7, <1>8, <1>9, <1>10 DEF Meanings

LEMMA EnterBlockMeanings ==
  ASSUME Typed, InRange, shadowed = {}, Meanings, Typed', EnterBlock
  PROVE  Meanings'
<1>1. open = <<>> /\ UNCHANGED <<structs, aliases, open, meaning, entities, shadowed>>
  BY DEF EnterBlock
<1>2. /\ Len(c_env) \in Nat \ {0} /\ DOMAIN c_env = 1..Len(c_env) /\ DOMAIN c_env' = 1..Len(c_env')
      /\ Len(c_env') = Len(c_env) + 1
  BY Domains, NextDomains, EnterBlockTyped
<1>3. 1 \in DOMAIN c_env /\ 1 \in DOMAIN c_env' /\ Len(c_env) + 1 # 1
  BY <1>2
<1>4. \A n \in DOMAIN c_env' : \A u \in Tags :
        \/ n \in DOMAIN c_env /\ Object(n, u)' = Object(n, u) /\ Entity(n, u)' = Entity(n, u)
        \/ n # 1 /\ Object(n, u)' = 0 /\ Entity(n, u)' = 0
  <2> SUFFICES ASSUME NEW n \in DOMAIN c_env', NEW u \in Tags
               PROVE  \/ n \in DOMAIN c_env /\ Object(n, u)' = Object(n, u) /\ Entity(n, u)' = Entity(n, u)
                      \/ n # 1 /\ Object(n, u)' = 0 /\ Entity(n, u)' = 0
    OBVIOUS
  <2>1. n \in 1..Len(c_env) \/ n = Len(c_env) + 1
    BY <1>2
  <2>2. CASE n \in 1..Len(c_env)
    BY <1>2, <2>2, EnterBlockTyped
  <2>3. CASE n = Len(c_env) + 1
    <3>1. n \in Nat
      BY <1>2
    <3> QED
      BY <1>3, <2>3, <3>1, EnterBlockTyped
  <2> QED
    BY <2>1, <2>2, <2>3
<1> QED
  BY <1>1, <1>3, <1>4, Rescoped

LEMMA LeaveBlockMeanings ==
  ASSUME Typed, InRange, shadowed = {}, Meanings, Typed', LeaveBlock
  PROVE  Meanings'
<1>1. open = <<>> /\ UNCHANGED <<structs, aliases, open, meaning, entities, shadowed>>
      /\ Len(struct_env) > 1
  BY DEF LeaveBlock
<1>2. /\ Len(c_env) \in Nat \ {0} /\ DOMAIN c_env = 1..Len(c_env) /\ DOMAIN c_env' = 1..Len(c_env')
      /\ Len(c_env') = Len(c_env) - 1 /\ Len(struct_env) = Len(c_env)
  BY Domains, NextDomains, LeaveBlockTyped
<1>3. /\ 1 \in DOMAIN c_env /\ 1 \in DOMAIN c_env'
      /\ \A n \in DOMAIN c_env' : n \in DOMAIN c_env /\ n \in 1..(Len(c_env) - 1)
  BY <1>1, <1>2
<1>4. \A n \in DOMAIN c_env' : \A u \in Tags :
        n \in DOMAIN c_env /\ Object(n, u)' = Object(n, u) /\ Entity(n, u)' = Entity(n, u)
  BY <1>3, LeaveBlockTyped
<1> QED
  BY <1>1, <1>3, <1>4, Rescoped

-----------------------------------------------------------------------------
(* Bodies, whether or not tags are shadowed.                               *)

\* While structs are open, C declares an entity at most, and a body adds to that of
\* the struct it closes; bindings to entities stay.
LEMMA EntitiesBound ==
  ASSUME Typed, InRange, Typed', Once, NEW tag \in Tags \cup {NoTag}, DeclaredHere(tag)
  PROVE  Once'
<1>1. /\ DOMAIN c_env = 1..Len(c_env) /\ DOMAIN c_env' = 1..Len(c_env)
      /\ Len(entities) \in Nat
      /\ \A n \in 1..Len(c_env) : \A u \in Tags :
           \/ Entity(n, u)' = Entity(n, u)
           \/ Entity(n, u)' = Len(entities) + 1 /\ n = Innermost /\ u = tag
  BY DeclaredFacts, Domains
<1>2. \A n \in 1..Len(c_env) : \A u \in Tags :
        Entity(n, u) \in Nat /\ Entity(n, u) <= Len(entities)
  <2>1. Len(entities) \in Nat /\ DOMAIN entities = 1..Len(entities)
    BY Domains
  <2> QED
    BY <2>1, Bound
<1> SUFFICES ASSUME NEW n \in 1..Len(c_env), NEW m \in 1..Len(c_env), NEW u \in Tags, NEW v \in Tags,
                    Entity(n, u)' # 0, Entity(n, u)' = Entity(m, v)'
             PROVE  n = m /\ u = v
  BY <1>1 DEF Once
<1>3. Entity(n, u) # 0 /\ Entity(n, u) = Entity(m, v) => n = m /\ u = v
  BY <1>1 DEF Once
<1>4. /\ Entity(n, u) \in Nat /\ Entity(n, u) <= Len(entities)
      /\ Entity(m, v) \in Nat /\ Entity(m, v) <= Len(entities)
  BY <1>2
<1>5. /\ Entity(n, u)' = Entity(n, u) \/ (Entity(n, u)' = Len(entities) + 1 /\ n = Innermost /\ u = tag)
      /\ Entity(m, v)' = Entity(m, v) \/ (Entity(m, v)' = Len(entities) + 1 /\ m = Innermost /\ v = tag)
  BY <1>1
<1>6. CASE Entity(n, u)' = Entity(n, u) /\ Entity(m, v)' = Entity(m, v)
  BY <1>3, <1>6
<1>7. CASE ~(Entity(n, u)' = Entity(n, u) /\ Entity(m, v)' = Entity(m, v))
  BY <1>1, <1>4, <1>5, <1>7
<1> QED
  BY <1>6, <1>7

\* What an entity is bound to is still bound to it, and what was unbound and old is so.
LEMMA EntityStays ==
  ASSUME Typed, InRange, Typed', NEW tag \in Tags \cup {NoTag}, DeclaredHere(tag),
         NEW n \in 1..Len(c_env), NEW u \in Tags, NEW e \in DOMAIN entities
  PROVE  Entity(n, u)' = e <=> Entity(n, u) = e
<1>1. /\ Len(entities) \in Nat /\ DOMAIN entities = 1..Len(entities)
      /\ \/ Entity(n, u)' = Entity(n, u)
         \/ Entity(n, u) = 0 /\ Entity(n, u)' = Len(entities) + 1
  BY DeclaredFacts
<1> QED
  BY <1>1

\* An entity just declared has no body.
LEMMA CompleteBefore ==
  ASSUME Typed, InRange, Typed', NEW tag \in Tags \cup {NoTag}, DeclaredHere(tag),
         NEW n \in 1..Len(c_env), NEW u \in Tags,
         Entity(n, u)' # 0, entities'[Entity(n, u)'] # {}
  PROVE  /\ Entity(n, u)' = Entity(n, u) /\ Entity(n, u) \in DOMAIN entities
         /\ entities[Entity(n, u)] # {}
<1>1. /\ \/ Entity(n, u)' = Entity(n, u)
         \/ Entity(n, u) = 0 /\ Entity(n, u)' = Len(entities) + 1
      /\ \A x \in DOMAIN entities : entities'[x] = entities[x]
  BY DeclaredFacts
<1>2. Entity(n, u) # 0 => Entity(n, u) \in DOMAIN entities
  BY Bound
<1>3. CASE Entity(n, u)' = Entity(n, u)
  BY <1>1, <1>2, <1>3
<1>4. CASE Entity(n, u)' # Entity(n, u)
  <2>1. entities'[Len(entities) + 1] = {}
    <3>1. ~UNCHANGED <<entities, c_env>>
      BY <1>4 DEF Entity
    <3> QED
      BY <3>1 DEF DeclaredHere, NewEntity
  <2> QED
    BY <1>1, <1>4, <2>1
<1> QED
  BY <1>3, <1>4

\* A tag bound to an object stays bound to it, and the object keeps what fields it has.
LEMMA ObjectStays ==
  ASSUME Typed, InRange, Typed', NEW tag \in Tags \cup {NoTag}, NEW fields \in Nat,
         NewObject(tag, fields), NewBinding(tag),
         NEW n \in 1..Len(c_env), NEW u \in Tags, Object(n, u) # 0
  PROVE  /\ Object(n, u)' = Object(n, u)
         /\ structs[Object(n, u)].fields # 0 => structs'[Object(n, u)].fields # 0
<1>1. /\ Object(n, u) \in DOMAIN structs /\ DOMAIN structs = 1..Len(structs)
      /\ Len(structs) \in Nat
  BY Bound, Domains
<1>2. Existing(tag) = 0 /\ u = tag => Object(n, u) = 0
  BY ExistingIs, TagsAssumption
<1>3. Object(n, u)' = Object(n, u)
  BY <1>2 DEF NewBinding
<1>4. structs'[Object(n, u)].fields \in {structs[Object(n, u)].fields, fields}
      /\ (structs'[Object(n, u)].fields = structs[Object(n, u)].fields \/ fields # 0)
  BY <1>1 DEF NewObject
<1> QED
  BY <1>3, <1>4

\* Whether a tag is bound to an object here or nowhere is not changed by one more.
LEMMA BegunStays ==
  ASSUME Typed, InRange, Typed', NEW tag \in Tags \cup {NoTag}, NEW fields \in Nat,
         NewObject(tag, fields), NewBinding(tag), NEW u \in Tags,
         Len(c_env') = Len(c_env),
         Object(Innermost, u) # 0 \/ \A n \in 1..Len(c_env) : Object(n, u) = 0
  PROVE  Object(Innermost, u)' # 0 \/ \A n \in 1..Len(c_env) : Object(n, u)' = 0
<1>1. Innermost \in 1..Len(c_env) /\ Innermost' = Innermost /\ Len(structs) \in Nat
  BY Domains DEF Innermost
<1>2. CASE Object(Innermost, u) # 0
  BY <1>1, <1>2, ObjectStays
<1>3. CASE \A n \in 1..Len(c_env) : Object(n, u) = 0
  <2>1. CASE Existing(tag) = 0 /\ u = tag
    <3>1. Object(Innermost, u)' = Len(structs) + 1
      BY <1>1, <2>1 DEF NewBinding
    <3> QED
      BY <1>1, <3>1
  <2>2. CASE ~(Existing(tag) = 0 /\ u = tag)
    BY <1>3, <2>2 DEF NewBinding
  <2> QED
    BY <2>1, <2>2
<1> QED
  BY <1>2, <1>3

LEMMA MentionBodies ==
  ASSUME Typed, InRange, Typed', InRange', Bodies,
         NEW tag \in Tags, NEW named \in BOOLEAN, Mention(tag, named)
  PROVE  Bodies'
<1> DEFINE e == CMeans(tag, FALSE)
<1>1. /\ CDeclare(tag, FALSE) /\ ParseStruct(tag, 0, e, named)
      /\ UNCHANGED <<enum_env, open, bodies, phase, shadowed>>
  BY DEF Mention
<1>2. /\ Len(entities) \in Nat /\ DOMAIN entities = 1..Len(entities)
      /\ DOMAIN c_env = 1..Len(c_env) /\ DOMAIN struct_env = 1..Len(c_env)
      /\ Innermost \in 1..Len(c_env) /\ DOMAIN open = 1..Len(open)
  BY Domains DEF Innermost
<1>3. DeclaredHere(tag) /\ e \in Nat
  <2>1. \/ UNCHANGED <<entities, c_env>> /\ e \in DOMAIN entities
        \/ /\ NewEntity(tag) /\ e = Len(entities) + 1
           /\ \A n \in 1..Len(c_env) : Entity(n, tag) = 0
    BY <1>1, DeclaredMention
  <2> HIDE DEF e
  <2> QED
    BY <1>2, <2>1 DEF DeclaredHere
<1> HIDE DEF e
<1>4. NewObject(tag, 0) /\ NewBinding(tag)
  BY <1>1, <1>3, Parsed
<1>5. /\ Len(c_env') = Len(c_env) /\ DOMAIN c_env' = 1..Len(c_env)
      /\ \A x \in DOMAIN entities : entities'[x] = entities[x] /\ x \in DOMAIN entities'
      /\ \A x \in DOMAIN entities' : x \in DOMAIN entities \/ (x = Len(entities) + 1 /\ entities'[x] = {})
  BY <1>3, DeclaredFacts
<1>6. \A i \in DOMAIN open : open[i].entity \in DOMAIN entities /\ (open[i].tag # NoTag <=> open[i].tag \in Tags)
  BY ElementTypes, TagsAssumption DEF InRange
<1>7. Once'
  BY <1>3, EntitiesBound DEF Bodies
<1>8. OpenHere'
  BY <1>1, <1>2, <1>3, <1>5, <1>6, EntityStays DEF Bodies, OpenHere, Innermost
<1>9. Fresh'
  BY <1>1, <1>2, <1>3, <1>5, <1>6, EntityStays DEF Bodies, Fresh
<1>10. Begun'
  <2> SUFFICES ASSUME NEW i \in DOMAIN open, open[i].tag # NoTag, open[i].entity \notin shadowed
               PROVE  \/ Object(Innermost, open[i].tag)' # 0
                      \/ \A n \in 1..Len(c_env) : Object(n, open[i].tag)' = 0
    BY <1>1, <1>5 DEF Begun, Innermost
  <2>1. PICK u \in Tags : u = open[i].tag
    BY <1>6
  <2>2. Object(Innermost, u) # 0 \/ \A n \in 1..Len(c_env) : Object(n, u) = 0
    BY <1>2, <2>1 DEF Bodies, Begun, Innermost
  <2>3. Object(Innermost, u)' # 0 \/ \A n \in 1..Len(c_env) : Object(n, u)' = 0
    BY <1>4, <1>5, <2>2, BegunStays
  <2>4. open' = open
    BY <1>1
  <2> QED
    BY <2>1, <2>3, <2>4
<1>11. Filled'
  <2> SUFFICES ASSUME NEW n \in 1..Len(c_env), NEW u \in Tags,
                      Entity(n, u)' # 0, Entity(n, u)' \notin shadowed, Complete(Entity(n, u))'
               PROVE  Object(n, u)' # 0 /\ structs'[Object(n, u)'].fields # 0
    BY <1>1, <1>5 DEF Filled
  <2>1. Entity(n, u) = Entity(n, u)' /\ Entity(n, u) \in DOMAIN entities /\ Complete(Entity(n, u))
    BY <1>3, CompleteBefore DEF Complete
  <2>2. Object(n, u) # 0 /\ structs[Object(n, u)].fields # 0
    BY <1>2, <2>1 DEF Bodies, Filled
  <2> QED
    BY <1>4, <2>2, ObjectStays
<1>12. OneEach'
  BY <1>1, <1>5 DEF Bodies, OneEach
<1> QED
  BY <1>7, <1>8, <1>9, <1>10, <1>11, <1>12 DEF Bodies

LEMMA OpenBodyBodies ==
  ASSUME Typed, InRange, Typed', InRange', Bodies, NEW tag \in Tags \cup {NoTag}, OpenBody(tag)
  PROVE  Bodies'
<1> DEFINE e == CMeans(tag, TRUE)
           k == Len(open) + 1
<1>1. /\ CDeclare(tag, TRUE) /\ UNCHANGED <<structs, struct_env, aliases, meaning>>
      /\ shadowed' = IF tag # NoTag /\ LocalStruct(tag) = 0 /\ EnvFind(struct_env, tag) # 0
                     THEN shadowed \cup {e} ELSE shadowed
  BY Zenon DEF OpenBody
<1>2. /\ Len(entities) \in Nat /\ DOMAIN entities = 1..Len(entities)
      /\ DOMAIN c_env = 1..Len(c_env) /\ DOMAIN struct_env = 1..Len(c_env)
      /\ Innermost \in 1..Len(c_env) /\ DOMAIN open = 1..Len(open) /\ Len(open) \in Nat
      /\ DOMAIN open' = 1..Len(open')
  BY Domains, NextDomains DEF Innermost
<1>3. /\ Len(open') = k /\ open'[k].tag = tag /\ open'[k].entity = e
      /\ \A i \in 1..Len(open) : open'[i] = open[i]
  BY OpenBodyTyped
<1>4. \A i \in DOMAIN open' : i = k \/ (i \in DOMAIN open /\ i # k /\ open'[i] = open[i])
  BY <1>2, <1>3
<1>5. \/ /\ UNCHANGED <<entities, c_env>> /\ e \in DOMAIN entities
         /\ tag \in Tags /\ Entity(Innermost, tag) = e
      \/ /\ NewEntity(tag) /\ e = Len(entities) + 1
         /\ tag \in Tags => Entity(Innermost, tag) = 0
  BY <1>1, DeclaredBody
<1>6. tag # NoTag <=> tag \in Tags
  BY TagsAssumption
<1> HIDE DEF e, k
<1>7. DeclaredHere(tag)
  BY <1>5 DEF DeclaredHere
<1>8. /\ Len(c_env') = Len(c_env) /\ DOMAIN c_env' = 1..Len(c_env)
      /\ \A x \in DOMAIN entities : entities'[x] = entities[x] /\ x \in DOMAIN entities'
      /\ \A x \in DOMAIN entities' : x \in DOMAIN entities \/ (x = Len(entities) + 1 /\ entities'[x] = {})
  BY <1>7, DeclaredFacts
<1>9. \A i \in DOMAIN open : open[i].entity \in DOMAIN entities /\ (open[i].tag # NoTag <=> open[i].tag \in Tags)
  BY ElementTypes, TagsAssumption DEF InRange
<1>10. \A n \in 1..Len(c_env) : \A u \in Tags : Object(n, u)' = Object(n, u)
  BY <1>1 DEF Object
<1>11. shadowed \subseteq shadowed'
  BY <1>1
<1>12. Once'
  BY <1>7, EntitiesBound DEF Bodies
<1>13. OpenHere'
  <2>0. PICK inner \in 1..Len(c_env) : inner = Innermost
    BY <1>2
  <2>1. tag \in Tags => Entity(inner, tag)' = e
    <3>1. CASE NewEntity(tag) /\ e = Len(entities) + 1
      BY <2>0, <3>1 DEF NewEntity
    <3>2. CASE UNCHANGED <<entities, c_env>> /\ Entity(Innermost, tag) = e
      BY <2>0, <3>2 DEF Entity
    <3> QED
      BY <1>5, <3>1, <3>2
  <2>2. \A i \in DOMAIN open : open[i].tag # NoTag =>
          MapFind(c_env'[inner], open[i].tag) = open[i].entity
    <3> SUFFICES ASSUME NEW i \in DOMAIN open, open[i].tag # NoTag
                 PROVE  MapFind(c_env'[inner], open[i].tag) = open[i].entity
      OBVIOUS
    <3>1. PICK u \in Tags : u = open[i].tag
      BY <1>9
    <3>2. PICK x \in DOMAIN entities : x = open[i].entity
      BY <1>9
    <3>3. Entity(inner, u) = x
      BY <2>0, <3>1, <3>2 DEF Bodies, OpenHere, Innermost
    <3>4. Entity(inner, u)' = x
      BY <1>7, <3>3, EntityStays
    <3> QED
      BY <3>1, <3>2, <3>4 DEF Entity
  <2>3. \A i \in DOMAIN open' : open'[i].tag # NoTag =>
          MapFind(c_env'[inner], open'[i].tag) = open'[i].entity
    BY <1>3, <1>4, <1>6, <2>1, <2>2 DEF Entity
  <2> QED
    BY <1>8, <2>0, <2>3 DEF OpenHere, Entity, Innermost
<1>14. Fresh'
  <2>1. ASSUME tag = NoTag
        PROVE  /\ entities'[e] = {} /\ e \notin DOMAIN entities
               /\ \A n \in 1..Len(c_env) : \A u \in Tags : Entity(n, u)' # e
    <3>1. NewEntity(tag) /\ e = Len(entities) + 1
      BY <1>5, <1>6, <2>1
    <3>2. \A n \in 1..Len(c_env) : \A u \in Tags : Entity(n, u)' = Entity(n, u)
      <4>1. \A u \in Tags : u # tag
        BY <1>6, <2>1
      <4> QED
        BY <3>1, <4>1 DEF NewEntity
    <3>3. \A n \in 1..Len(c_env) : \A u \in Tags : Entity(n, u) # Len(entities) + 1
      <4>1. \A n \in 1..Len(c_env) : \A u \in Tags : Entity(n, u) # 0 => Entity(n, u) \in DOMAIN entities
        BY Bound
      <4>2. Len(entities) + 1 # 0 /\ Len(entities) + 1 \notin DOMAIN entities
        BY <1>2
      <4> QED
        BY <4>1, <4>2, Zenon
    <3> QED
      BY <1>2, <3>1, <3>2, <3>3 DEF NewEntity
  <2>2. \A i \in DOMAIN open : open[i].tag = NoTag =>
          /\ entities'[open[i].entity] = {} /\ open[i].entity # e
          /\ \A n \in 1..Len(c_env) : \A u \in Tags : Entity(n, u)' # open[i].entity
    <3>1. \A i \in DOMAIN open : open[i].tag = NoTag =>
            /\ entities'[open[i].entity] = {}
            /\ \A n \in 1..Len(c_env) : \A u \in Tags : Entity(n, u)' # open[i].entity
      BY <1>2, <1>7, <1>8, <1>9, EntityStays DEF Bodies, Fresh
    <3>2. \A i \in DOMAIN open : open[i].tag = NoTag => open[i].entity # e
      BY <1>2, <1>5, <1>9 DEF Bodies, Fresh
    <3> QED
      BY <3>1, <3>2
  <2>3. \A i, j \in DOMAIN open : open[i].tag = NoTag /\ i # j => open[j].entity # open[i].entity
    BY DEF Bodies, Fresh
  <2> QED
    BY <1>3, <1>4, <1>8, <1>9, <2>1, <2>2, <2>3 DEF Fresh
<1>15. Begun'
  <2>1. ASSUME tag # NoTag, e \notin shadowed'
        PROVE  \/ Object(Innermost, tag) # 0
               \/ \A n \in 1..Len(c_env) : Object(n, tag) = 0
    <3>1. LocalStruct(tag) # 0 \/ EnvFind(struct_env, tag) = 0
      BY <1>1, <2>1
    <3>2. LocalStruct(tag) = Object(Innermost, tag)
      BY ExistingIs
    <3>3. Existing(tag) = 0 => \A n \in 1..Len(c_env) : Object(n, tag) = 0
      BY <2>1, ExistingIs
    <3> QED
      BY <2>1, <3>1, <3>2, <3>3 DEF Existing
  <2>2. \A i \in DOMAIN open : open[i].tag # NoTag /\ open[i].entity \notin shadowed' =>
          \/ Object(Innermost, open[i].tag) # 0
          \/ \A n \in 1..Len(c_env) : Object(n, open[i].tag) = 0
    BY <1>2, <1>11 DEF Bodies, Begun, Innermost
  <2>3. \A i \in DOMAIN open' : open'[i].tag # NoTag /\ open'[i].entity \notin shadowed' =>
          \/ Object(Innermost, open'[i].tag) # 0
          \/ \A n \in 1..Len(c_env) : Object(n, open'[i].tag) = 0
    BY <1>3, <1>4, <2>1, <2>2
  <2>4. \A i \in DOMAIN open' : open'[i].tag # NoTag => open'[i].tag \in Tags
    BY <1>3, <1>4, <1>6, <1>9
  <2>5. \A i \in DOMAIN open' : open'[i].tag # NoTag /\ open'[i].entity \notin shadowed' =>
          \/ MapFind(struct_env'[Len(c_env')], open'[i].tag) # 0
          \/ \A n \in DOMAIN c_env' : MapFind(struct_env'[n], open'[i].tag) = 0
    BY <1>1, <1>8, <2>3 DEF Object, Innermost
  <2> QED
    BY <2>5 DEF Begun, Object
<1>16. Filled'
  <2> SUFFICES ASSUME NEW n \in 1..Len(c_env), NEW u \in Tags,
                      Entity(n, u)' # 0, Entity(n, u)' \notin shadowed', Complete(Entity(n, u))'
               PROVE  Object(n, u)' # 0 /\ structs'[Object(n, u)'].fields # 0
    BY <1>8 DEF Filled
  <2>1. Entity(n, u) = Entity(n, u)' /\ Entity(n, u) \in DOMAIN entities /\ Complete(Entity(n, u))
    BY <1>7, CompleteBefore DEF Complete
  <2>2. Object(n, u) # 0 /\ structs[Object(n, u)].fields # 0
    BY <1>2, <1>11, <2>1 DEF Bodies, Filled
  <2> QED
    BY <1>1, <1>10, <2>2
<1>17. OneEach'
  BY <1>8, <1>11 DEF Bodies, OneEach
<1> QED
  BY <1>12, <1>13, <1>14, <1>15, <1>16, <1>17 DEF Bodies

LEMMA CloseBodyBodies ==
  ASSUME Typed, InRange, Typed', InRange', Bodies,
         NEW named \in BOOLEAN, NEW top, ClosedAs(top, named)
  PROVE  Bodies'
<1> DEFINE k == Len(open)
           e == top.entity
           u0 == top.tag
<1>1. /\ Closed(top) /\ u0 \in Tags \cup {NoTag} /\ top.fields \in 1..bodies
      /\ e \in DOMAIN entities /\ ~DuplicateStruct(u0, top.fields)
      /\ NewObject(u0, top.fields) /\ NewBinding(u0)
  BY DEF ClosedAs
<1>2. /\ Len(entities) \in Nat /\ DOMAIN entities = 1..Len(entities)
      /\ DOMAIN c_env = 1..Len(c_env) /\ DOMAIN struct_env = 1..Len(c_env)
      /\ Innermost \in 1..Len(c_env) /\ DOMAIN open = 1..k /\ k \in Nat
      /\ DOMAIN open' = 1..Len(open') /\ bodies \in Nat /\ Len(structs) \in Nat
  BY Domains, NextDomains DEF Innermost, Typed
<1>3. /\ k > 0 /\ top = open[k] /\ UNCHANGED <<c_env, shadowed>>
      /\ entities' = [entities EXCEPT ![e] = @ \cup {top.fields}]
      /\ Len(open') = k - 1 /\ \A i \in 1..(k - 1) : open'[i] = open[i]
  BY <1>1 DEF Closed
<1>4. k \in DOMAIN open /\ top.fields \in Nat \ {0} /\ (u0 # NoTag <=> u0 \in Tags)
  BY <1>1, <1>2, <1>3, TagsAssumption
<1>5. \A i \in DOMAIN open' : i \in DOMAIN open /\ i # k /\ open'[i] = open[i]
  BY <1>2, <1>3
<1>6. /\ DOMAIN entities' = DOMAIN entities /\ entities'[e] = entities[e] \cup {top.fields}
      /\ \A x \in DOMAIN entities : x # e => entities'[x] = entities[x]
  BY <1>1, <1>3
<1>7. \A n \in 1..Len(c_env) : \A u \in Tags : Entity(n, u)' = Entity(n, u)
  BY <1>3 DEF Entity
<1>8. u0 \in Tags => Entity(Innermost, u0) = e
  BY <1>3, <1>4 DEF Bodies, OpenHere, Innermost
<1>9. u0 = NoTag => /\ entities[e] = {}
                    /\ \A n \in 1..Len(c_env) : \A u \in Tags : Entity(n, u) # e
                    /\ \A j \in DOMAIN open : j # k => open[j].entity # e
  <2> SUFFICES ASSUME open[k].tag = NoTag
               PROVE  /\ entities[open[k].entity] = {}
                      /\ \A n \in 1..Len(c_env) : \A u \in Tags : Entity(n, u) # open[k].entity
                      /\ \A j \in DOMAIN open : j # k => open[j].entity # open[k].entity
    BY <1>3
  <2> QED
    BY <1>2, <1>4 DEF Bodies, Fresh
<1>10. \A i \in DOMAIN open : open[i].entity \in DOMAIN entities /\ (open[i].tag # NoTag <=> open[i].tag \in Tags)
  BY ElementTypes, TagsAssumption DEF InRange
<1>11. ASSUME u0 \in Tags, e \notin shadowed
       PROVE  Object(Innermost, u0) # 0 \/ \A n \in 1..Len(c_env) : Object(n, u0) = 0
  BY <1>2, <1>3, <1>4, <1>11 DEF Bodies, Begun, Innermost
<1>12. ASSUME u0 \in Tags, e \notin shadowed
       PROVE  entities[e] = {}
  <2> SUFFICES ASSUME Complete(e)
               PROVE  FALSE
    BY DEF Complete
  <2>1. e # 0
    BY <1>1, <1>2
  <2>2. Object(Innermost, u0) # 0 /\ structs[Object(Innermost, u0)].fields # 0
    BY <1>2, <1>8, <1>12, <2>1 DEF Bodies, Filled
  <2>3. LocalStruct(u0) = Object(Innermost, u0)
    BY ExistingIs
  <2> QED
    BY <1>1, <1>4, <1>12, <2>2, <2>3 DEF DuplicateStruct, Fields
<1>13. top.fields \in Nat
  BY <1>4
<1> HIDE DEF k, e, u0
<1>14. Once'
  BY <1>2, <1>3, <1>7 DEF Bodies, Once
<1>15. OpenHere'
  BY <1>2, <1>3, <1>5, <1>7, <1>10 DEF Bodies, OpenHere, Entity
<1>16. Fresh'
  <2>1. \A i \in DOMAIN open : i # k /\ open[i].tag = NoTag => open[i].entity # e
    <3>1. CASE u0 \in Tags
      BY <1>2, <1>8, <3>1 DEF Bodies, Fresh
    <3>2. CASE u0 = NoTag
      BY <1>9, <3>2, Zenon
    <3> QED
      BY <1>4, <3>1, <3>2
  <2> QED
    BY <1>2, <1>3, <1>5, <1>6, <1>7, <1>10, <2>1 DEF Bodies, Fresh
<1>17. Begun'
  <2> SUFFICES ASSUME NEW i \in DOMAIN open, open[i].tag # NoTag, open[i].entity \notin shadowed
               PROVE  \/ MapFind(struct_env'[Len(c_env)], open[i].tag) # 0
                      \/ \A n \in 1..Len(c_env) : MapFind(struct_env'[n], open[i].tag) = 0
    BY <1>2, <1>3, <1>5 DEF Begun, Object
  <2>1. PICK u \in Tags : u = open[i].tag
    BY <1>10
  <2>2. Object(Innermost, u) # 0 \/ \A n \in 1..Len(c_env) : Object(n, u) = 0
    BY <1>2, <2>1 DEF Bodies, Begun, Innermost
  <2>3. Object(Innermost, u)' # 0 \/ \A n \in 1..Len(c_env) : Object(n, u)' = 0
    BY <1>1, <1>3, <1>13, <2>2, BegunStays
  <2>4. UNCHANGED c_env
    BY <1>3
  <2> QED
    BY <2>1, <2>3, <2>4 DEF Object, Innermost
<1>18. Filled'
  <2> SUFFICES ASSUME NEW n \in 1..Len(c_env), NEW u \in Tags,
                      Entity(n, u) # 0, Entity(n, u) \notin shadowed, entities'[Entity(n, u)] # {}
               PROVE  Object(n, u)' # 0 /\ structs'[Object(n, u)'].fields # 0
    BY <1>2, <1>3, <1>7 DEF Filled, Complete
  <2>1. Entity(n, u) \in DOMAIN entities
    BY Bound
  <2>2. CASE Entity(n, u) # e
    <3>1. Object(n, u) # 0 /\ structs[Object(n, u)].fields # 0
      BY <1>2, <1>6, <2>1, <2>2 DEF Bodies, Filled, Complete
    <3> QED
      BY <1>1, <1>13, <3>1, ObjectStays
  <2>3. CASE Entity(n, u) = e
    <3>1. u0 \in Tags /\ n = Innermost /\ u = u0
      <4>1. u0 \in Tags
        BY <1>4, <1>9, <2>3
      <4> QED
        BY <1>2, <1>8, <2>3, <4>1 DEF Bodies, Once
    <3>2. Object(Innermost, u0) # 0 \/ \A m \in 1..Len(c_env) : Object(m, u0) = 0
      BY <1>11, <2>3, <3>1
    <3>3. CASE Object(Innermost, u0) # 0
      <4>1. Existing(u0) # 0
        BY <1>2, <1>4, <3>1, <3>3, ExistingIs
      <4>2. Object(n, u)' = Object(Innermost, u0)
        BY <1>1, <3>1, <4>1 DEF NewBinding
      <4>3. Object(Innermost, u0) \in 1..Len(structs)
        BY <3>3, ExistingIs, Domains
      <4>4. structs'[Object(Innermost, u0)].fields = top.fields
        BY <1>1, <1>4, <4>1, <4>3 DEF NewObject
      <4> QED
        BY <1>4, <3>3, <4>2, <4>4
    <3>4. CASE \A m \in 1..Len(c_env) : Object(m, u0) = 0
      <4>1. Existing(u0) = 0
        BY <3>4, ExistingIs
      <4>2. Object(n, u)' = Len(structs) + 1
        BY <1>1, <3>1, <4>1 DEF NewBinding
      <4>3. structs'[Len(structs) + 1].fields = top.fields
        BY <1>1, <4>1 DEF NewObject
      <4> QED
        BY <1>2, <1>4, <4>2, <4>3
    <3> QED
      BY <3>2, <3>3, <3>4
  <2> QED
    BY <2>2, <2>3
<1>19. OneEach'
  <2> SUFFICES ASSUME NEW x \in DOMAIN entities, x \notin shadowed
               PROVE  entities'[x] = {} \/ \E f \in Nat : entities'[x] = {f}
    BY <1>3, <1>6 DEF OneEach
  <2>1. CASE x = e
    <3>1. entities[e] = {}
      BY <1>4, <1>9, <1>12, <2>1
    <3> QED
      BY <1>6, <1>13, <2>1, <3>1
  <2>2. CASE x # e
    BY <1>6, <2>2 DEF Bodies, OneEach
  <2> QED
    BY <2>1, <2>2
<1> QED
  BY <1>14, <1>15, <1>16, <1>17, <1>18, <1>19 DEF Bodies

\* Scopes come and go only while no struct is open.
LEMMA RescopedBodies ==
  ASSUME Bodies, open = <<>>, UNCHANGED <<structs, open, entities, shadowed>>,
         \A n \in DOMAIN c_env' : \A u \in Tags :
           \/ n \in DOMAIN c_env /\ Object(n, u)' = Object(n, u) /\ Entity(n, u)' = Entity(n, u)
           \/ Entity(n, u)' = 0
  PROVE  Bodies'
<1>1. DOMAIN open' = {}
  OBVIOUS
<1>2. Once'
  BY DEF Bodies, Once
<1>3. OpenHere' /\ Fresh' /\ Begun'
  BY <1>1 DEF OpenHere, Fresh, Begun
<1>4. Filled'
  BY DEF Bodies, Filled, Complete
<1>5. OneEach'
  BY DEF Bodies, OneEach
<1> QED
  BY <1>2, <1>3, <1>4, <1>5 DEF Bodies

LEMMA EnterBlockBodies ==
  ASSUME Typed, InRange, Bodies, Typed', EnterBlock
  PROVE  Bodies'
<1>1. open = <<>> /\ UNCHANGED <<structs, aliases, open, meaning, entities, shadowed>>
  BY DEF EnterBlock
<1>2. /\ Len(c_env) \in Nat \ {0} /\ DOMAIN c_env = 1..Len(c_env) /\ DOMAIN c_env' = 1..Len(c_env')
      /\ Len(c_env') = Len(c_env) + 1
  BY Domains, NextDomains, EnterBlockTyped
<1>3. \A n \in DOMAIN c_env' : n \in 1..Len(c_env) \/ (n \in Nat /\ n = Len(c_env) + 1)
  BY <1>2
<1>4. \A n \in DOMAIN c_env' : \A u \in Tags :
        \/ n \in DOMAIN c_env /\ Object(n, u)' = Object(n, u) /\ Entity(n, u)' = Entity(n, u)
        \/ Entity(n, u)' = 0
  BY <1>2, <1>3, EnterBlockTyped
<1> QED
  BY <1>1, <1>4, RescopedBodies

LEMMA LeaveBlockBodies ==
  ASSUME Typed, InRange, Bodies, Typed', LeaveBlock
  PROVE  Bodies'
<1>1. open = <<>> /\ UNCHANGED <<structs, aliases, open, meaning, entities, shadowed>>
  BY DEF LeaveBlock
<1>2. /\ Len(c_env) \in Nat \ {0} /\ DOMAIN c_env = 1..Len(c_env) /\ DOMAIN c_env' = 1..Len(c_env')
      /\ Len(c_env') = Len(c_env) - 1
  BY Domains, NextDomains, LeaveBlockTyped
<1>3. \A n \in DOMAIN c_env' : n \in DOMAIN c_env /\ n \in 1..(Len(c_env) - 1)
  BY <1>2
<1>4. \A n \in DOMAIN c_env' : \A u \in Tags :
        n \in DOMAIN c_env /\ Object(n, u)' = Object(n, u) /\ Entity(n, u)' = Entity(n, u)
  BY <1>3, LeaveBlockTyped
<1> QED
  BY <1>1, <1>4, RescopedBodies

LEMMA UnchangedBodies ==
  ASSUME Bodies, UNCHANGED <<structs, struct_env, open, entities, c_env, shadowed>>
  PROVE  Bodies'
<1>1. Once' /\ OpenHere'
  BY DEF Bodies, Once, OpenHere, Entity
<1>2. Fresh'
  BY DEF Bodies, Fresh, Entity
<1>3. Begun' /\ Filled' /\ OneEach'
  BY DEF Bodies, Begun, Filled, OneEach, Entity, Object, Complete
<1> QED
  BY <1>1, <1>2, <1>3 DEF Bodies

-----------------------------------------------------------------------------
(* The specification.                                                      *)

LEMMA InitIInv == Init => IInv
<1> SUFFICES ASSUME Init
             PROVE  IInv
  OBVIOUS
<1>1. /\ structs = <<>> /\ struct_env = <<<<>>>> /\ enum_env = <<<<>>>> /\ aliases = <<>>
      /\ open = <<>> /\ bodies = 0 /\ meaning = [object |-> <<>>, alias |-> <<>>]
      /\ entities = <<>> /\ c_env = <<<<>>>> /\ shadowed = {}
  BY DEF Init
<1>2. <<>> \in Map /\ <<<<>>>> \in Seq(Map) /\ Len(<<<<>>>>) = 1
      /\ DOMAIN <<<<>>>> = {1} /\ <<<<>>>>[1] = <<>> /\ DOMAIN <<>> = {}
  BY DEF Map
<1>3. Typed
  <2>1. meaning \in [object : Seq(MeaningT), alias : Seq(Nat)]
        /\ Len(meaning.object) = 0 /\ Len(meaning.alias) = 0
    BY <1>1
  <2>2. EnvsTyped
    BY <1>1, <1>2 DEF EnvsTyped
  <2>3. ObjectsTyped
    BY <1>1, <2>1 DEF ObjectsTyped
  <2>4. OthersTyped
    <3>1. shadowed \in SUBSET Nat
      BY <1>1
    <3>2. entities \in Seq(SUBSET Nat)
      BY <1>1
    <3> QED
      BY <1>1, <3>1, <3>2 DEF OthersTyped
  <2> QED
    BY <2>2, <2>3, <2>4, TypedParts
<1>4. InRange
  BY <1>1, <1>2 DEF InRange
<1>5. \A n \in {1} : \A u \in Tags : Object(n, u) = 0 /\ Entity(n, u) = 0
  BY <1>1, <1>2, MapFindEmpty DEF Object, Entity
<1>6. OneScope /\ OneTag /\ Bindings /\ CompleteBound /\ FirstBound
  BY <1>1, <1>2, <1>5 DEF OneScope, OneTag, Bindings, CompleteBound, FirstBound
<1>7. Anonymous /\ OpenHere /\ LateComplete /\ Unnamed /\ AliasOutermost /\ AtMostOneBody
  BY <1>1, <1>2 DEF Anonymous, OpenHere, LateComplete, Unnamed, AliasOutermost, AtMostOneBody
<1>8. FirstMentionsCompleted /\ FirstAliasCompleted /\ NeverOtherFields
  BY <1>1, <1>2 DEF FirstMentionsCompleted, FirstAliasCompleted, NeverOtherFields
<1>9. Once /\ Fresh /\ Begun /\ Filled /\ OneEach
  BY <1>1, <1>2, <1>5 DEF Once, Fresh, Begun, Filled, OneEach
<1> QED
  BY <1>3, <1>4, <1>6, <1>7, <1>8, <1>9 DEF IInv, Bodies, Meanings

\* Most of the state stays as it is.
LEMMA Unchanged ==
  ASSUME Meanings, UNCHANGED <<structs, struct_env, aliases, open, C>>
  PROVE  Meanings'
<1>1. UNCHANGED <<structs, struct_env, aliases, open, meaning, entities, c_env>>
  BY DEF C
<1>2. OneScope' /\ OneTag'
  BY <1>1 DEF Meanings, OneScope, OneTag, Entity
<1>3. Anonymous'
  BY <1>1 DEF Meanings, Anonymous, Entity
<1>4. OpenHere'
  BY <1>1 DEF Meanings, OpenHere, Entity
<1>5. Bindings'
  BY <1>1 DEF Meanings, Bindings, Entity, Object
<1>6. CompleteBound'
  BY <1>1 DEF Meanings, CompleteBound, Entity, Object, Complete
<1>7. FirstBound'
  BY <1>1 DEF Meanings, FirstBound, Entity, Object
<1>8. LateComplete' /\ Unnamed'
  BY <1>1 DEF Meanings, LateComplete, Unnamed, Complete
<1>9. AliasOutermost' /\ AtMostOneBody'
  BY <1>1 DEF Meanings, AliasOutermost, AtMostOneBody, Entity, Object
<1>10. FirstMentionsCompleted' /\ FirstAliasCompleted' /\ NeverOtherFields'
  <2>1. UNCHANGED shadowed
    BY DEF C
  <2> QED
    BY <1>1, <2>1, Zenon DEF Meanings, FirstMentionsCompleted, FirstAliasCompleted, NeverOtherFields, Complete
<1> QED
  BY <1>2, <1>3, <1>4, <1>5, <1>6, <1>7, <1>8, <1>9, <1>10 DEF Meanings

LEMMA StepIInv == IInv /\ [Next]_vars => IInv'
<1> SUFFICES ASSUME IInv, [Next]_vars
             PROVE  IInv'
  OBVIOUS
<1>1. Typed /\ InRange /\ Bodies /\ (shadowed = {} => Meanings)
  BY DEF IInv
<1>2. CASE UNCHANGED vars \/ Exit \/ Stop
  <2>1. UNCHANGED <<structs, struct_env, enum_env, aliases, open, bodies, C>>
    BY <1>2 DEF vars, Exit, Stop, C
  <2>2. UNCHANGED <<structs, struct_env, enum_env, aliases, open, bodies, meaning, entities,
                    c_env, shadowed>>
    BY <2>1 DEF C
  <2>3. Typed' /\ InRange'
    BY <1>1, <2>2, Zenon DEF Typed, InRange
  <2> QED
    BY <1>1, <2>1, <2>2, <2>3, Unchanged, UnchangedBodies DEF IInv
<1>3. ASSUME NEW tag \in Tags, NEW named \in BOOLEAN, Mention(tag, named)
      PROVE  IInv'
  <2>1. Typed' /\ InRange' /\ shadowed' = shadowed
    BY <1>1, <1>3, MentionTyped DEF Mention
  <2> QED
    BY <1>1, <1>3, <2>1, MentionMeanings, MentionBodies DEF IInv
<1>4. ASSUME NEW tag \in Tags \cup {NoTag}, OpenBody(tag)
      PROVE  IInv'
  <2>1. Typed' /\ InRange'
    BY <1>1, <1>4, OpenBodyTyped
  <2>2. shadowed' = {} => shadowed = {}
    <3>1. shadowed' = shadowed \/ shadowed' = shadowed \cup {CMeans(tag, TRUE)}
      BY <1>4, Zenon DEF OpenBody
    <3> QED
      BY <3>1
  <2>3. Bodies'
    BY <1>1, <1>4, <2>1, OpenBodyBodies
  <2> QED
    BY <1>1, <1>4, <2>1, <2>2, <2>3, OpenBodyMeanings DEF IInv
<1>5. ASSUME NEW named \in BOOLEAN, CloseBody(named), ~Exit
      PROVE  IInv'
  <2>1. Typed' /\ InRange'
    BY <1>1, <1>5, CloseBodyTyped
  <2>2. PICK top : ClosedAs(top, named)
    BY <1>1, <1>5, CloseBodyTyped DEF ClosedAs
  <2>3. shadowed' = shadowed
    BY <2>2 DEF ClosedAs, Closed
  <2> QED
    BY <1>1, <1>5, <2>1, <2>2, <2>3, CloseBodyMeanings, CloseBodyBodies DEF IInv
<1>6. ASSUME NEW a \in DOMAIN aliases, TypedefAlias(a)
      PROVE  IInv'
  <2>1. Typed' /\ InRange' /\ shadowed' = shadowed
    BY <1>1, <1>6, TypedefAliasTyped DEF TypedefAlias
  <2>2. UNCHANGED <<structs, struct_env, open, entities, c_env, shadowed>>
    BY <1>6 DEF TypedefAlias
  <2> QED
    BY <1>1, <1>6, <2>1, <2>2, TypedefAliasMeanings, UnchangedBodies DEF IInv
<1>7. ASSUME NEW tag \in Tags, EnumBody(tag), ~Exit
      PROVE  IInv'
  <2>1. Typed' /\ InRange' /\ UNCHANGED <<structs, struct_env, aliases, open, C>>
    BY <1>1, <1>7, EnumBodyTyped
  <2>2. UNCHANGED <<structs, struct_env, open, entities, c_env, shadowed>>
    BY <2>1 DEF C
  <2> QED
    BY <1>1, <2>1, <2>2, Unchanged, UnchangedBodies DEF IInv
<1>8. CASE EnterBlock
  <2>1. Typed' /\ InRange' /\ shadowed' = shadowed
    BY <1>1, <1>8, EnterBlockTyped DEF EnterBlock
  <2> QED
    BY <1>1, <1>8, <2>1, EnterBlockMeanings, EnterBlockBodies DEF IInv
<1>9. CASE LeaveBlock
  <2>1. Typed' /\ InRange' /\ shadowed' = shadowed
    BY <1>1, <1>9, LeaveBlockTyped DEF LeaveBlock
  <2> QED
    BY <1>1, <1>9, <2>1, LeaveBlockMeanings, LeaveBlockBodies DEF IInv
<1> QED
  BY <1>2, <1>3, <1>4, <1>5, <1>6, <1>7, <1>8, <1>9, Zenon DEF Next, EnumUndefined

\* The invariant in full: how the scopes of the parser stand to those of C, as long
\* as no block gives a body to a tag of an outer scope.
THEOREM Invariance == Spec => []IInv
BY InitIInv, StepIInv, PTL DEF Spec

-----------------------------------------------------------------------------
(* The properties.                                                         *)

\* Objects, bindings and aliases stay well-formed: parse_struct never binds or points
\* to an object there is none of, and the three environments are as deep as each other.
THEOREM TypeCorrect == Spec => []TypeOK
<1>1. IInv => TypeOK
  <2> SUFFICES ASSUME IInv
               PROVE  TypeOK
    OBVIOUS
  <2>1. Typed /\ InRange
    BY DEF IInv
  <2>2. \A s \in DOMAIN structs : structs[s].name \in Tags \cup {NoTag} /\ structs[s].fields \in 0..bodies
    <3>1. bodies \in Nat
      BY <2>1 DEF Typed
    <3> QED
      BY <2>1, <3>1, ElementTypes DEF InRange
  <2>3. \A n \in DOMAIN struct_env : \A b \in ToSet(struct_env[n]) : b.to \in DOMAIN structs
    BY <2>1 DEF InRange, ToSet
  <2>4. ToSet(aliases) \subseteq DOMAIN structs
    BY <2>1 DEF InRange, ToSet
  <2> QED
    BY <2>1, <2>2, <2>3, <2>4 DEF TypeOK, Typed
<1> QED
  BY <1>1, Invariance, PTL

\* A type mentioned before the body of its struct gets the fields when it is the first
\* mention in its scope, or behind the first alias of its tag; one mentioned later has them.
THEOREM MentionsCompleted == Spec => []CompletedAsKnown
<1>1. IInv => CompletedAsKnown
  BY DEF IInv, Meanings, CompletedAsKnown, FirstMentionsCompleted, FirstAliasCompleted
<1> QED
  BY <1>1, Invariance, PTL

\* No type ever has the fields of another struct than its tag denotes where it stands.
THEOREM NoMixup == Spec => []NeverOtherFields
<1>1. IInv => NeverOtherFields
  BY DEF IInv, Meanings, NeverOtherFields
<1> QED
  BY <1>1, Invariance, PTL

\* The error "duplicate struct" comes whenever a tag would get a second body in a scope,
\* at every depth of blocks and nested bodies and whatever else is shadowed: but for a
\* tag in a block that an outer scope has and the block had not when its body began.
THEOREM OneBody == Spec => []OneBodyEach
<1>1. IInv => OneBodyEach
  <2> SUFFICES ASSUME IInv, NEW e \in DOMAIN entities, e \notin shadowed
               PROVE  Cardinality(entities[e]) <= 1
    BY DEF OneBodyEach
  <2>1. entities[e] = {} \/ \E f \in Nat : entities[e] = {f}
    BY DEF IInv, Bodies, OneEach
  <2>2. CASE entities[e] = {}
    BY <2>2, FS_EmptySet
  <2>3. CASE \E f \in Nat : entities[e] = {f}
    BY <2>3, FS_Singleton
  <2> QED
    BY <2>1, <2>2, <2>3
<1> QED
  BY <1>1, Invariance, PTL
=============================================================================
