----------------------------- MODULE MCConverge -----------------------------
(***************************************************************************)
(* A GPO's version, the script entry that appears with the change, and the *)
(* extension list that must not grow; each changes once, or flaps.         *)
(***************************************************************************)
EXTENDS EnvelopeVerdict

version == <<"version">>
script  == <<"ini", "script">>
lists   == <<"lists">>

MCFacts == {version, script, lists}

MCObserved ==
    [f \in MCFacts |->
        CASE f = version -> [v \in 0..1 |-> Num(v)]
          [] f = script  -> [v \in 0..1 |-> IF v = 0 THEN Missing ELSE Text("logon")]
          [] f = lists   -> [v \in 0..1 |-> IF v = 0 THEN None ELSE Coll({Text("guid")})]]

MCDeclared == [f \in MCFacts |-> IF f = script THEN "content" ELSE "structural"]

Bumped == Cmp(<<"==">>, <<Ref(<<"post", "version">>),
                          Bin("+", Ref(<<"pre", "version">>), Const(Num(1)))>>)
HasScript == Cmp(<<"==">>, <<Ref(<<"post", "ini", "script">>), Const(Text("logon"))>>)
NoGuid == Cmp(<<"not in">>, <<Const(Text("guid")), Ref(<<"scope">>)>>)

\* Values of constants that are evaluated once.
MCNormalized == NormalizedOf
MCAssess == AssessOf

MCPredicates ==
    LET tops == {Or(<<Bumped, Not(HasScript)>>), NoGuid}
        Below(ps) == ps \cup UNION {ToSet(Parts(p)) : p \in ps}
    IN  Below(Below(Below(Below(tops))))

\* expression: the usual shape, scripts and version predicted, the list forbidden.
\* tolerant: a clause that need not look at everything; any structural change.
\* counter: the version alone; a changed list is not covered.
MCClauses ==
    [expression |-> [require |-> {[fact |-> <<"ini">>, predicate |-> HasScript]},
                     derive  |-> {Bumped},
                     forbid  |-> {[scope |-> lists, predicate |-> NoGuid]},
                     allow   |-> {}],
     tolerant   |-> [require |-> {[fact |-> version,
                                   predicate |-> Or(<<Bumped, Not(HasScript)>>)]},
                     derive  |-> {},
                     forbid  |-> {},
                     allow   |-> {"structural"}],
     counter    |-> [require |-> {},
                     derive  |-> {Bumped},
                     forbid  |-> {},
                     allow   |-> {"content"}]]

=============================================================================
