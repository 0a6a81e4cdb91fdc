--------------------------- MODULE EnvelopeAssert ---------------------------
(***************************************************************************)
(* The envelope language of src/src/wcd/envelope.py as operators: the      *)
(* bounded predicates with their three outcomes, the categorised delta,    *)
(* and assert_envelope.                                                    *)
(*                                                                         *)
(* A dotted key is the sequence of its parts.  A value is tagged: None, a  *)
(* number (a bool is one), a text, or a collection, of which only what it  *)
(* contains matters (a list's items, the GUIDs of an extension list).      *)
(* A predicate is its syntax tree; `facts` is the alias it is of `post`.   *)
(* A sign is a difference from 0.  Left out: the order and arithmetic of   *)
(* texts, `is`, list literals, subscripts into a value, and the binding of *)
(* scope_key.                                                              *)
(***************************************************************************)
EXTENDS Integers, SequencesExt

CONSTANT Predicates     \* the predicates in use, with all their parts

None    == <<"none">>
Num(n)  == <<"num", n>>
Text(t) == <<"text", t>>
Coll(S) == <<"coll", S>>
Bool(b) == Num(IF b THEN 1 ELSE 0)

\* What evaluate raises: an absent reference or a type error.
Unresolved == <<"unresolved">>

Truthy(v) == v \notin {None, Num(0), Text(""), Coll({})}

IsNum(v) == v[1] = "num"

---------------------------------------------------------------------------
\* Predicates.

DottedKeys == Seq(STRING) \ {<<>>}

Const(v)       == [op |-> "const", value |-> v]
Ref(path)      == [op |-> "ref", path |-> path]
Not(p)         == [op |-> "not", arg |-> p]
And(ps)        == [op |-> "and", args |-> ps]
Or(ps)         == [op |-> "or", args |-> ps]
Bin(op, l, r)  == [op |-> op, args |-> <<l, r>>]
Cmp(rels, ps)  == [op |-> "compare", rels |-> rels, args |-> ps]

Parts(p) == CASE p.op \in {"const", "ref"} -> <<>>
              [] p.op = "not" -> <<p.arg>>
              [] OTHER -> p.args

Arithmetic == {"+", "-", "*", "//", "%"}

\* _validate: the subset of forms (its bounds on size and depth are left out).
Shaped(p) ==
    /\ p.op \in {"const", "ref", "not", "and", "or", "compare"} \cup Arithmetic
    /\ p.op = "ref" => p.path \in DottedKeys
    /\ p.op \in Arithmetic => Len(p.args) = 2
    /\ p.op = "compare" =>
          /\ Len(p.args) = Len(p.rels) + 1
          /\ p.rels \in Seq({"==", "!=", "<", "<=", ">", ">=", "in", "not in"})

ASSUME PredicatesAssumption ==
    \A p \in Predicates : Shaped(p) /\ Parts(p) \in Seq(Predicates)

\* A predicate is a finite tree (compile_predicate bounds its depth): a set of
\* them has one that is made of none of the others.
ASSUME TreesAssumption ==
    \A T \in SUBSET Predicates : T # {} => \E p \in T : ToSet(Parts(p)) \cap T = {}

Paths[p \in Predicates] ==
    IF p.op = "ref" THEN {p.path} ELSE UNION {Paths[q] : q \in ToSet(Parts(p))}

PostKeys(p) == {Tail(path) : path \in {q \in Paths[p] :
                                         Head(q) \in {"post", "facts"} /\ Len(q) > 1}}

\* None contains nothing; a number cannot be asked.
Member(left, right) ==
    CASE right = None -> Bool(FALSE)
      [] right[1] = "coll" -> Bool(left \in right[2])
      [] OTHER -> Unresolved

Ordered(rel, a, b) == CASE rel = "<"  -> a < b
                        [] rel = "<=" -> a <= b
                        [] rel = ">"  -> a > b
                        [] rel = ">=" -> a >= b

\* Integer division rounds down, also by a negative number.
Quotient(a, b) == IF b > 0 THEN a \div b ELSE (-a) \div (-b)

Computed(op, a, b) ==
    IF ~(IsNum(a) /\ IsNum(b)) \/ (op \in {"//", "%"} /\ b = Num(0)) THEN Unresolved
    ELSE CASE op = "+"  -> Num(a[2] + b[2])
           [] op = "-"  -> Num(a[2] - b[2])
           [] op = "*"  -> Num(a[2] * b[2])
           [] op = "//" -> Num(Quotient(a[2], b[2]))
           [] op = "%"  -> Num(a[2] - b[2] * Quotient(a[2], b[2]))

Negated(v) == IF v = Unresolved THEN v ELSE Bool(~Truthy(v))

Compared(rel, a, b) ==
    IF Unresolved \in {a, b} THEN Unresolved
    ELSE CASE rel = "==" -> Bool(a = b)
           [] rel = "!=" -> Bool(a # b)
           [] rel = "in" -> Member(a, b)
           [] rel = "not in" -> Negated(Member(a, b))
           [] rel \in {"<", "<=", ">", ">="} /\ IsNum(a) /\ IsNum(b) ->
                 Bool(Ordered(rel, a[2], b[2]))
           [] OTHER -> Unresolved

\* The first value, from the left, that is worth `stop` or cannot be evaluated
\* ends a chain; the values after it are never looked at.
Chained(vals, stop) ==
    LET i == SelectInSeq(vals, LAMBDA v : v = Unresolved \/ Truthy(v) = stop)
    IN  CASE i = 0 -> Bool(~stop)
          [] i # 0 /\ vals[i] = Unresolved -> Unresolved
          [] OTHER -> Bool(stop)

\* _eval of one node, left to right, from the values of its parts.
ValueOf(p, vals, bindings) ==
    CASE p.op = "const" -> p.value
      [] p.op = "ref" -> IF p.path \in DOMAIN bindings
                         THEN bindings[p.path] ELSE Unresolved
      [] p.op = "not" -> Negated(vals[1])
      [] p.op = "and" -> Chained(vals, FALSE)
      [] p.op = "or" -> Chained(vals, TRUE)
      [] p.op \in Arithmetic -> Computed(p.op, vals[1], vals[2])
      [] p.op = "compare" ->
            Chained([i \in DOMAIN p.rels |->
                        Compared(p.rels[i], vals[i], vals[i + 1])], FALSE)

\* _eval.
Eval(predicate, bindings) ==
    LET value[p \in Predicates] ==
          ValueOf(p, [i \in DOMAIN Parts(p) |-> value[Parts(p)[i]]], bindings)
    IN  value[predicate]

---------------------------------------------------------------------------
\* Envelopes: sets of clauses
\*   require: [fact, predicate], derive: predicates, forbid: [scope, predicate],
\*   allow: categories.

Bindings(pre, post) ==
    [path \in {<<"pre">> \o k : k \in DOMAIN pre}
                \cup {<<side>> \o k : side \in {"post", "facts"}, k \in DOMAIN post} |->
        IF Head(path) = "pre" THEN pre[Tail(path)] ELSE post[Tail(path)]]

\* Mutant: what cannot be evaluated does not hold, so it is violated.
HoldsOrNot(p, bindings) ==
    LET v == Eval(p, bindings)
    IN  IF v # Unresolved /\ Truthy(v) THEN "satisfied" ELSE "violated"

Holds(p, bindings) ==
    LET v == Eval(p, bindings)
    IN  CASE v = Unresolved -> "unresolved"
          [] v # Unresolved /\ Truthy(v) -> "satisfied"
          [] OTHER -> "violated"

\* scope_bindings: the value of the scope fact under a name of its own.
WithScope(bindings, value) ==
    [path \in DOMAIN bindings \cup {<<"scope">>} |->
        IF path = <<"scope">> THEN value ELSE bindings[path]]

\* A forbid clause whose scope fact was not observed is violated.
ForbidOutcome(c, bindings) ==
    IF <<"post">> \o c.scope \notin DOMAIN bindings THEN "violated"
    ELSE Holds(c.predicate, WithScope(bindings, bindings[<<"post">> \o c.scope]))

Outcomes(env, pre, post) ==
    LET bindings == Bindings(pre, post)
    IN  {Holds(c.predicate, bindings) : c \in env.require}
          \cup {Holds(p, bindings) : p \in env.derive}
          \cup {ForbidOutcome(c, bindings) : c \in env.forbid}

PredictedKeys(env) ==
    {c.fact : c \in env.require}
      \cup (UNION {PostKeys(c.predicate) : c \in env.require})
      \cup (UNION {PostKeys(p) : p \in env.derive})

\* A key is predicted by its own name or by that of a key above it.
IsPredicted(key, env) == \E p \in PredictedKeys(env) : IsPrefix(p, key)

\* Mutant: stability is over the require and derive clauses alone.
NormalizedWithoutForbid(env) == PredictedKeys(env)

\* The facts whose values must agree from poll to poll.
NormalizedKeys(env) ==
    PredictedKeys(env)
      \cup {c.scope : c \in env.forbid}
      \cup (UNION {PostKeys(c.predicate) : c \in env.forbid})

\* parse_envelope: an envelope that observes no post-state fact is refused.
Parses(env) ==
    /\ \A c \in env.require \cup env.forbid : c.predicate \in Predicates
    /\ \A p \in env.derive : p \in Predicates
    /\ \A c \in env.forbid : c.scope \in DottedKeys
    /\ NormalizedKeys(env) # {}

\* Mutant: only what is there afterwards is compared with what was before.
DeltaOfPost(pre, post) ==
    {k \in DOMAIN post : k \notin DOMAIN pre \/ pre[k] # post[k]}

\* compute_delta: the keys changed, added and removed.
Delta(pre, post) ==
    {k \in DOMAIN pre \cap DOMAIN post : pre[k] # post[k]}
      \cup (DOMAIN post \ DOMAIN pre) \cup (DOMAIN pre \ DOMAIN post)

Category(categories, key) ==
    IF key \in DOMAIN categories THEN categories[key] ELSE "unclassified"

Unclassified(env, pre, post, categories) ==
    {k \in Delta(pre, post) : /\ Category(categories, k) \notin env.allow
                              /\ ~IsPredicted(k, env)}

\* assert_envelope.
AssertEnvelope(env, pre, post, categories) ==
    LET outcomes == Outcomes(env, pre, post)
    IN  CASE "unresolved" \in outcomes -> "indeterminate"
          [] "unresolved" \notin outcomes
                /\ ("violated" \in outcomes
                      \/ Unclassified(env, pre, post, categories) # {}) -> "disproven"
          [] OTHER -> "satisfied"

=============================================================================
