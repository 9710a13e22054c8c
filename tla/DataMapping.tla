---------------------------- MODULE DataMapping ----------------------------
(***************************************************************************)
(* packages/data-mapping-common: a tree of nodes and leaves that says      *)
(* which property of a source becomes which property of a destination; its *)
(* builder, its export and import, the tree built from the metadata of a   *)
(* class, kept per class, and the mapper that applies it.                  *)
(*                                                                         *)
(* A value is tagged with its type.  An object is <<"object", class,       *)
(* function>>, the class of a plain one is None.  A member of a tree is    *)
(* one record whatever its type; the children of a node are in the order   *)
(* of the keys of `nodes`, which are the source properties.  Normalizers   *)
(* run with their default options.                                         *)
(***************************************************************************)
EXTENDS Naturals, Sequences, FiniteSets, SequencesExt

CONSTANTS None,         \* no class, an option that is not given
          Error         \* an error that is thrown

Undef == <<"undefined">>
Null == <<"null">>
Object(class, f) == <<"object", class, f>>
IsObject(v) == v[1] = "object"
Plain(f) == Object(None, f)
Put(object, key, v) ==
    Object(object[2], [k \in DOMAIN object[3] \cup {key} |-> IF k = key THEN v ELSE object[3][k]])
Get(object, key) == IF IsObject(object) /\ key \in DOMAIN object[3] THEN object[3][key] ELSE Undef
Has(object, key) == IsObject(object) /\ key \in DOMAIN object[3]

-----------------------------------------------------------------------------
(* Normalizers.                                                             *)

\* parseFloat() reads the number that a text begins with.
parseFloat(t) == CASE t = "1" -> 1 [] t = "5" -> 5 [] t = "3d" -> 3 [] OTHER -> None

normalizeBoolean(v) ==
    CASE v[1] = "string" -> <<"boolean", v[2] \in {"true", "1"}>>
      [] v[1] = "number" -> <<"boolean", v[2] = 1>>
      [] v[1] = "boolean" -> v
      [] OTHER -> <<"boolean", FALSE>>
\* What is not a number is dropped.
normalizeNumber(v) ==
    CASE v[1] = "string" -> IF parseFloat(v[2]) = None THEN Undef ELSE <<"number", parseFloat(v[2])>>
      [] v[1] = "number" -> v
      [] OTHER -> Undef
RECURSIVE normalizeString(_)
normalizeString(v) ==
    CASE v[1] \in {"undefined", "null"} -> Undef
      [] v[1] = "string" -> v
      [] v[1] = "number" -> <<"string", ToString(v[2])>>
      [] v[1] = "boolean" -> <<"string", IF v[2] THEN "true" ELSE "false">>
      [] v[1] = "array" -> <<"array", [i \in DOMAIN v[2] |-> normalizeString(v[2][i])]>>
      [] OTHER -> <<"json", v>>
normalizeDate(v) ==
    CASE v[1] = "date" -> v
      [] v[1] = "number" \/ (v[1] = "string" /\ parseFloat(v[2]) # None) -> <<"date", normalizeNumber(v)[2]>>
      [] IsObject(v) -> <<"date", 0>>
      [] OTHER -> Undef
normalizeLowercase(v) == IF v = <<"string", "A">> THEN <<"string", "a">> ELSE v
normalize(key, v) ==
    CASE key = "boolean" -> normalizeBoolean(v)
      [] key = "number" -> normalizeNumber(v)
      [] key = "string" -> normalizeString(v)
      [] key = "date" -> normalizeDate(v)
      [] key = "lowercase" -> normalizeLowercase(v)
Normalizers == {"boolean", "number", "string", "date", "lowercase"}

-----------------------------------------------------------------------------
(* Trees and their builder.                                                 *)

Member(type, source, destination) ==
    [type |-> type, source |-> source, destination |-> destination, optional |-> FALSE,
     class |-> None, normalizers |-> <<>>, excluded |-> {}, nodes |-> <<>>]
EmptyBuilder == [normalizers |-> <<>>, before |-> <<>>, after |-> <<>>, nodes |-> <<>>]

\* addNode(): `nodes` is keyed by the source property, so a second member for the same
\* source takes the place of the first.
addNode(parent, n) ==
    LET same == {i \in DOMAIN parent.nodes : parent.nodes[i].source = n.source}
    IN  IF None \in {n.source, n.destination} THEN Error
        ELSE [parent EXCEPT !.nodes = IF same = {} THEN Append(@, n)
                                      ELSE [i \in DOMAIN @ |-> IF i \in same THEN n ELSE @[i]]]
addNormalizer(root, l, key) ==
    IF key \in ToSet(l.normalizers) \cup ToSet(root.normalizers) THEN Error
    ELSE [l EXCEPT !.normalizers = Append(@, key)]
addRootNormalizer(root, key) ==
    IF key \in ToSet(root.normalizers) THEN Error ELSE [root EXCEPT !.normalizers = Append(@, key)]
excludeNormalizer(l, key) == IF key \in l.excluded THEN Error ELSE [l EXCEPT !.excluded = @ \cup {key}]
addBeforeMappingInterceptor(root, key) ==
    IF key \in ToSet(root.before) THEN Error ELSE [root EXCEPT !.before = Append(@, key)]
addAfterMappingInterceptor(root, key) ==
    IF key \in ToSet(root.after) THEN Error ELSE [root EXCEPT !.after = Append(@, key)]

OrError(v, F(_)) == IF v = Error THEN Error ELSE F(v)
\* field() and arrayOfScalars(): exclusions before normalizers, then end().
field(root, parent, type, source, destination, optional, excluded, normalizers) ==
    LET leaf == [Member(type, source, IF destination = None THEN source ELSE destination) EXCEPT !.optional = optional]
        without == FoldLeft(LAMBDA l, k : OrError(l, LAMBDA x : excludeNormalizer(x, k)), leaf, excluded)
        with == FoldLeft(LAMBDA l, k : OrError(l, LAMBDA x : addNormalizer(root, x, k)), without, normalizers)
    IN  OrError(with, LAMBDA l : addNode(parent, l))
\* nested() and arrayOfObjects(), `children` being what the callback adds.
nested(parent, type, source, destination, optional, class, children) ==
    addNode(parent, FoldLeft(addNode, [Member(type, source, destination) EXCEPT !.optional = optional, !.class = class],
                             children))

\* export() and import() of a tree: the class of a node is not exported, exclusions
\* become the keys of an object.
RECURSIVE exportNode(_)
exportNode(n) ==
    [fields |-> [n EXCEPT !.class = None, !.nodes = <<>>, !.excluded = {}],
     excludedNormalizers |-> [k \in n.excluded |-> TRUE],
     nodes |-> [i \in DOMAIN n.nodes |-> exportNode(n.nodes[i])]]
forgetExcluded(schema) == {}
importExcluded(schema) == DOMAIN schema.excludedNormalizers
RECURSIVE importNode(_)
importNode(schema) ==
    [schema.fields EXCEPT !.excluded = importExcluded(schema),
                          !.nodes = [i \in DOMAIN schema.nodes |-> importNode(schema.nodes[i])]]
export(b) == [b EXCEPT !.nodes = [i \in DOMAIN @ |-> exportNode(@[i])]]
import(schema) == [schema EXCEPT !.nodes = [i \in DOMAIN @ |-> importNode(@[i])]]

-----------------------------------------------------------------------------
(* Mapping.                                                                 *)

\* The root's normalizers come first.
getEffectiveNormalizers(root, l) == SelectSeq(root.normalizers, LAMBDA k : k \notin l.excluded) \o l.normalizers
normalizeAll(root, l, v) == FoldLeft(LAMBDA x, k : normalize(k, x), v, getEffectiveNormalizers(root, l))

mapLeaf(l, root, source, destination) ==
    LET v == Get(source, l.source)
    IN  CASE ~Has(source, l.source) -> IF l.optional THEN destination ELSE Error
          [] Has(source, l.source) /\ ~(ToSet(getEffectiveNormalizers(root, l)) \subseteq Normalizers) -> Error
          [] Has(source, l.source) /\ l.type = "ScalarArray" ->
               IF v[1] # "array" THEN Error
               ELSE Put(destination, l.destination, <<"array", [i \in DOMAIN v[2] |-> normalizeAll(root, l, v[2][i])]>>)
          [] OTHER -> Put(destination, l.destination, normalizeAll(root, l, v))

\* buildDestinationObject(), buildArrayMemberDestination(): an instance of the class, with
\* the keys of the source unless extraneous values are excluded.
buildDestination(n, v, exclude) ==
    Object(n.class, IF IsObject(v) /\ exclude # TRUE THEN v[3] ELSE <<>>)

AllOrError(elements) == IF Error \in ToSet(elements) THEN Error ELSE <<"array", elements>>
RECURSIVE mapNode(_, _, _, _, _)
runSubNodes(n, root, source, destination, exclude) ==
    FoldLeft(LAMBDA d, child : OrError(d, LAMBDA x : mapNode(child, root, source, x, exclude)), destination, n.nodes)
\* map() of a node: a missing property is an error unless it is optional; undefined is
\* skipped, null stays null, in an array too.
mapNode(n, root, source, destination, exclude) ==
    LET v == Get(source, n.source)
        one(x) == IF x = Null THEN Null
                  ELSE runSubNodes(n, root, x, buildDestination(n, x, exclude), exclude)
    IN  CASE source[1] \in {"undefined", "null"} -> Error
          [] n.type \in {"Leaf", "ScalarArray"} -> mapLeaf(n, root, source, destination)
          [] n.type \in {"Node", "ObjectArray"} /\ ~Has(source, n.source) -> IF n.optional THEN destination ELSE Error
          [] n.type \in {"Node", "ObjectArray"} /\ Has(source, n.source) /\ v = Undef -> destination
          [] n.type \in {"Node", "ObjectArray"} /\ v = Null -> Put(destination, n.destination, Null)
          [] n.type = "ObjectArray" /\ v \notin {Undef, Null} ->
               IF v[1] # "array" THEN Error
               ELSE OrError(AllOrError([i \in DOMAIN v[2] |-> one(v[2][i])]), LAMBDA a : Put(destination, n.destination, a))
          [] OTHER -> OrError(one(v), LAMBDA m : Put(destination, n.destination, m))

\* The interceptors are functions of the application; here each one wraps the value of
\* a property of its own name, and one that is not registered throws.
Interceptors == {"before", "after"}
intercept(keys, v) ==
    IF ~(ToSet(keys) \subseteq Interceptors) THEN Error
    ELSE FoldLeft(LAMBDA x, k : IF IsObject(x) THEN Put(x, k, <<"string", "1">>) ELSE x, v, keys)
\* DataMapper.map(): the keys of the source are copied only when the option is false, while
\* an option that is not given is false for the nodes.
map(b, source, class, exclude) ==
    LET seed == Plain(IF exclude = FALSE /\ IsObject(source) THEN source[3] ELSE <<>>)
        intercepted == intercept(b.before, source)
        mapped == OrError(intercepted, LAMBDA s : runSubNodes(b, b, s, seed, exclude))
        done == OrError(mapped, LAMBDA d : intercept(b.after, d))
    IN  OrError(done, LAMBDA d : IF class = None THEN d ELSE Object(class, d[3]))
mapAll(b, sources, class) == [i \in DOMAIN sources |-> map(b, sources[i], class, None)]

-----------------------------------------------------------------------------
(* Trees built from metadata.  A class is a sequence of [name, type,        *)
(* member]: `member` is the class of an object, or of the objects of an     *)
(* array; None in an array of scalars, whose first element tells the type.  *)

Scalars == {"string", "number", "boolean", "date"}
inferred(v) == IF v[1] \in Scalars \ {"boolean"} THEN <<v[1]>> ELSE <<>>

RECURSIVE internalBuild(_, _, _, _, _)
propertyNode(classes, p, source, optional, root) ==
    LET v == Get(source, p.name)
        As(type, class, normalizers) ==
            [Member(type, p.name, p.name) EXCEPT !.optional = optional, !.class = class, !.normalizers = normalizers]
    IN  CASE p.type = "object" -> internalBuild(classes, p.member, v, optional, As("Node", p.member, <<>>))
          [] p.type = "array" /\ p.member = None -> As("ScalarArray", None, inferred(v[2][1]))
          [] p.type = "array" /\ p.member # None ->
               internalBuild(classes, p.member, v[2][1], optional, As("ObjectArray", p.member, <<>>))
          [] OTHER -> As("Leaf", None, IF p.type \in Scalars THEN <<p.type>> ELSE <<>>)
\* Nothing is added for a source that is falsy, nor for an array that is absent or empty.
internalBuild(classes, class, source, optional, parent) ==
    LET isEmptyArray(p) == p.type = "array" /\ (Get(source, p.name)[1] # "array" \/ Get(source, p.name)[2] = <<>>)
        falsy == source \in {Undef, Null, <<"boolean", FALSE>>}
        known == IF falsy THEN <<>> ELSE SelectSeq(classes[class], LAMBDA p : ~isEmptyArray(p))
    IN  FoldLeft(LAMBDA n, p : addNode(n, propertyNode(classes, p, source, optional, n)), parent, known)

\* build(): the cache is a function from classes to builders, and ignores the source
\* and the options.
anyCached(cache, class) == IF DOMAIN cache = {} THEN None ELSE cache[CHOOSE c \in DOMAIN cache : TRUE]
cached(cache, class) == IF class \in DOMAIN cache THEN cache[class] ELSE None
build(classes, cache, source, class, optional) ==
    IF cached(cache, class) # None THEN cached(cache, class)
    ELSE internalBuild(classes, class, source, optional, EmptyBuilder)
remember(cache, class, b) == [c \in DOMAIN cache \cup {class} |-> IF c = class THEN b ELSE cache[c]]
clearCache(cache, class) == [c \in IF class = None THEN {} ELSE DOMAIN cache \ {class} |-> cache[c]]

\* autoMap(): an array is mapped with the tree of its first element; a source that
\* cannot be mapped is returned as it is, and `failed` says so to who wants the error.
Finished(source, results, cache) ==
    [result |-> IF results = Error THEN source ELSE IF source[1] = "array" THEN results ELSE results[2][1],
     failed |-> results = Error, cache |-> cache]
mapWith(b, cache, source, sources, class, exclude) ==
    Finished(source, AllOrError([i \in DOMAIN sources |-> map(b, sources[i], class, exclude)]), remember(cache, class, b))
autoMap(classes, cache, source, class, optional, exclude) ==
    LET sources == IF source[1] = "array" THEN source[2] ELSE <<source>>
    IN  IF class \in Scalars THEN [result |-> normalize(class, source), failed |-> FALSE, cache |-> cache]
        ELSE IF sources = <<>> THEN [result |-> source, failed |-> FALSE, cache |-> cache]
        ELSE mapWith(build(classes, cache, sources[1], class, optional), cache, source, sources, class,
                     IF exclude = TRUE THEN TRUE ELSE FALSE)

-----------------------------------------------------------------------------
RECURSIVE Classless(_)
Classless(v) ==
    CASE v = Error -> Error
      [] IsObject(v) -> Plain([k \in DOMAIN v[3] |-> Classless(v[3][k])])
      [] v[1] = "array" -> <<"array", [i \in DOMAIN v[2] |-> Classless(v[2][i])]>>
      [] OTHER -> v

\* A tree that was exported and imported maps every source as the original, up to the
\* classes of the nested objects, which are not exported.
ImportMapsAlike(b, source, exclude) ==
    LET copy == import(export(b))
    IN  Classless(map(copy, source, None, exclude)) = Classless(map(b, source, None, exclude))

RECURSIVE KeysAreMapped(_, _, _)
KeysAreMapped(n, v, source) ==
    \A k \in DOMAIN v[3] :
       \E i \in DOMAIN n.nodes :
          /\ n.nodes[i].destination = k
          /\ n.nodes[i].type = "Node" /\ IsObject(v[3][k]) => KeysAreMapped(n.nodes[i], v[3][k], Get(source, n.nodes[i].source))

\* With extraneous values excluded the result has nothing but what the tree maps, at any
\* depth; with them included no key of the source is lost.
ExtraneousFollowsOption(b, source) ==
    /\ LET r == map(b, source, None, TRUE) IN r # Error /\ b.after = <<>> => KeysAreMapped(b, r, source)
    /\ LET r == map(b, source, None, FALSE) IN r # Error /\ IsObject(source) => DOMAIN source[3] \subseteq DOMAIN r[3]

\* What the tree of a class depends on, besides the class.
RECURSIVE Shape(_, _, _)
Shape(classes, class, source) ==
    IF ~IsObject(source) THEN <<source[1]>>
    ELSE <<"object", [i \in DOMAIN classes[class] |->
             LET p == classes[class][i]
                 v == Get(source, p.name)
             IN  CASE p.type = "object" -> Shape(classes, p.member, v)
                   [] p.type = "array" ->
                        IF v[1] # "array" \/ v[2] = <<>> THEN <<"none">>
                        ELSE IF p.member = None THEN <<v[2][1][1]>> ELSE Shape(classes, p.member, v[2][1])
                   [] OTHER -> <<"any">>]>>

\* A tree that is kept for a class maps a later source of the same shape, and every
\* source of another class, as a tree built for that source.
CacheMapsAlike(classes, first, firstClass, second, class, exclude) ==
    LET before == autoMap(classes, <<>>, first, firstClass, TRUE, exclude)
    IN  firstClass # class \/ Shape(classes, class, first) = Shape(classes, class, second)
        => autoMap(classes, before.cache, second, class, TRUE, exclude).result
           = autoMap(classes, <<>>, second, class, TRUE, exclude).result
=============================================================================
