---------------------------- MODULE MCTypesCheck ----------------------------
(* TypesCheck on all declarations of two classes: p has one property of    *)
(* any basic type or of a container, q has a p in some form, or itself; or *)
(* p has no property, or is not registered.                                *)
EXTENDS TypesCheck

MCBasic == {<<"bool">>, <<"char">>, <<"int", 2>>, <<"uint", 2>>, <<"double">>, <<"string">>,
            <<"enum", <<"red", "green">>>>, <<"pointer">>}

MCP == <<"class", "p">>
MCQ == <<"class", "q">>

Vector(t) == <<"vector", t>>
Map(t)    == <<"map", <<"string">>, t>>

MCContainers ==
    {Vector(t) : t \in MCBasic} \cup {Map(t) : t \in MCBasic}
    \cup {<<"set", t>> : t \in MCBasic \ {<<"pointer">>}}
    \cup {<<"map", <<"char">>, <<"bool">>>>, Vector(Vector(<<"bool">>)), Vector(Map(<<"bool">>)),
          Vector(<<"set", <<"bool">>>>), Map(Vector(<<"bool">>)), <<"set", Vector(<<"bool">>)>>}

Property(n, t)          == [name |-> n, type |-> t, hidden |-> FALSE, readonly |-> FALSE]
Classes(ctor, ps, qs)   == [c \in {"p", "q"} |-> IF c = "p" THEN [ctor |-> ctor, props |-> ps]
                                                 ELSE [ctor |-> "object", props |-> qs]]
Method(cs, rs)          == [classes |-> cs, roots |-> rs]

Plain == {Property("x", t) : t \in MCBasic \cup {Vector(<<"bool">>), Map(<<"bool">>), <<"set", <<"bool">>>>}}

MCDeclarations ==
    {Method([c \in {} |-> 0], <<t>>) : t \in MCBasic \cup MCContainers \cup {MCP}}
    \cup {Method(Classes("object", <<Property("x", t)>>, <<Property("p", MCP)>>), <<MCP, MCQ, MCP>>) :
             t \in MCContainers}
    \cup {Method(Classes(k, <<x>>, q), <<MCQ, MCP, MCQ>>) :
             k \in {"object", "shared", "none"},
             x \in Plain \cup {[Property("x", <<"int", 2>>) EXCEPT !.hidden = h, !.readonly = r] :
                                   h, r \in BOOLEAN},
             q \in {<<Property("p", t)>> : t \in {MCP, Vector(MCP), <<"set", MCP>>, Map(MCP), MCQ}}
                    \cup {<<Property("p", MCP), Property("y", <<"bool">>)>>}}
    \cup {Method(Classes("object", <<Property("x", <<"bool">>)>>,
                        <<Property("p", MCP), Property("q", MCP)>>), <<MCQ>>)}
    \cup {Method(Classes("object", <<>>, <<Property("p", t)>>), <<MCQ, MCP>>) :
             t \in {MCP, Vector(MCP), Map(MCP)}}
    \cup {Method(Classes("object", <<Property("q", MCQ)>>, <<Property("p", MCP)>>), <<MCQ, MCP>>)}

MCOrders == {NameFirst, ValueFirst}
=============================================================================
