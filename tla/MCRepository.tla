---------------------------- MODULE MCRepository ----------------------------
(* Repository on a small instance: two services named after those of the   *)
(* example server.  Here the calculator is not thread safe and the test    *)
(* object is, the other way round than in the example, so that the         *)
(* overloaded method is the one that is called under the mutex.            *)
EXTENDS Repository, TLC

CONSTANTS t1, t2, calc, test

MCInstances     == {calc, test}
MCThreadSafe    == {test}
MCRegistrations == {<<<<"calc">>, calc>>, <<<<"test">>, test>>}

-----------------------------------------------------------------------------
Number == [parses |-> {"number", "vector"}, fits |-> {"number"}]
Vector == [parses |-> {"vector"}, fits |-> {"vector"}]
Param(name, type, default) == [name |-> name, type |-> type, default |-> default]
Method1(params, result)   == [params |-> params, result |-> result, throws |-> FALSE]

(* calc.sum takes two vectors or two numbers; calc.reset returns nothing;  *)
(* test.log has a default parameter; test.fail throws.                     *)
MCMethods ==
    (calc :> (   <<"sum">>   :> <<Method1(<<Param("a", "vector", FALSE)>>, "value"),
                                  Method1(<<Param("a", "number", FALSE)>>, "value")>>
              @@ <<"reset">> :> <<Method1(<<>>, "null")>>)
  @@ test :> (   <<"log">>   :> <<Method1(<<Param("a", "number", TRUE)>>, "value")>>
              @@ <<"fail">>  :> <<[Method1(<<>>, "null") EXCEPT !.throws = TRUE]>>))

Id(type, value)  == [type |-> type, value |-> value]
Named(name)      == [given |-> "string", name |-> name]
NoParamsGiven    == [shape |-> "null"]
ArrayOf(v)       == [shape |-> "array", array |-> <<v>>]
ObjectOf(v)      == [shape |-> "object", object |-> ("a" :> v)]

Doc(id, name, params) ==
    [shape |-> "object", version |-> "2.0", method |-> Named(name), id |-> id,
     params |-> params, result |-> FALSE, empty |-> FALSE]
Other(shape) == [Doc(Id("none", 0), <<"">>, NoParamsGiven)
                    EXCEPT !.shape = shape, !.method.given = "none"]

Calls == {Doc(Id("integer", 1), <<"calc", "sum">>, ArrayOf(Number)),
          Doc(Id("integer", 9), <<"calc", "sum">>, ObjectOf(Vector)),
          Doc(Id("string", 2), <<"calc", "sum">>, [shape |-> "scalar"]),
          Doc(Id("integer", 1), <<"calc", "reset">>, NoParamsGiven),
          Doc(Id("integer", 3), <<"test", "log">>, NoParamsGiven),
          Doc(NoId, <<"calc", "reset">>, NoParamsGiven)}

Others == {Doc(Id("integer", 1), <<"__init__">>, NoParamsGiven),
           Doc(Id("null", 0), <<"nosuch", "sum">>, NoParamsGiven),
           [Doc(Id("integer", 2), <<"calc", "nosuch">>, NoParamsGiven) EXCEPT !.result = TRUE],
           Doc(Id("integer", 2), <<"test", "log">>, ArrayOf(Vector)),
           Doc(NoId, <<"calc", "sum">>, ArrayOf(Number)),
           Doc(Id("integer", 2), <<"test", "fail">>, NoParamsGiven),
           [Other("object") EXCEPT !.result = TRUE, !.id = Id("integer", 1)],
           Doc(Id("other", 0), <<"calc", "sum">>, ArrayOf(Number)),
           [Doc(Id("string", 2), <<"calc", "sum">>, NoParamsGiven) EXCEPT !.version = "none"],
           Other("undecodable"), Other("array")}

MCDocs == Calls \cup Others
=============================================================================
