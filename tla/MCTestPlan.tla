------------------------------ MODULE MCTestPlan ------------------------------
(***************************************************************************)
(* An instance of TestPlan for TLC: a suite of four pickles, and support   *)
(* code that defines a parameter type, steps with and without it, and      *)
(* hooks.                                                                  *)
(***************************************************************************)
EXTENDS TestPlan

Tagged == {{"t"}}

Always == {{}, {"t"}}

(* A function of cucumber called in line 3, in line 5 by a helper, and one *)
(* called by native code.                                                  *)
Frame(file, line) == [file |-> file, line |-> line]

CalledDirectly == <<Frame("cucumber", 1), Frame("cucumber", 2), Frame("user", 3), Frame("node:internal/a", 4)>>

CalledInHelper == <<Frame("cucumber", 1), Frame("user", 5), Frame("none", 0), Frame("user", 6)>>

CalledByNative == <<Frame("cucumber", 1), Frame("none", 0), Frame("user", 7)>>

Given(options, tags, timeout, code) ==
    [pattern |-> "string", options |-> options, tags |-> tags, timeout |-> timeout, code |-> code]

Function == Given("function", "undefined", "undefined", "undefined")

Definition(kind, for, type, arguments, codeLength, stack) ==
    [kind |-> kind, for |-> for, type |-> type, arguments |-> arguments,
     codeLength |-> codeLength, stack |-> stack]

TestRunHook(kind, on, arguments) ==
    Definition(kind, {}, "none", arguments, 0, CalledDirectly) @@ [on |-> on]

ParameterType(type, stack) == [kind |-> "parameterType", type |-> type, stack |-> stack]

Setting(kind, value) == [kind |-> kind, value |-> value]

MCSupportCode ==
    {ParameterType("colour", CalledDirectly),
     ParameterType("colour", CalledByNative),
     Definition("step", {"one"}, "colour", Function, 1, CalledDirectly),
     Definition("step", {"one", "two"}, "none",
                Given("object", "undefined", "number", "function"), 2, CalledInHelper),
     Definition("step", {"two"}, "none",
                Given("object", "undefined", "string", "function"), 0, CalledDirectly),
     Definition("before", Always, "none", Function, 0, CalledDirectly),
     Definition("after", Tagged, "none",
                Given("string", "undefined", "undefined", "function"), 2, CalledInHelper),
     Definition("beforeStep", Always, "none", Function, 1, CalledDirectly),
     TestRunHook("beforeAll", "undefined", Given("string", "undefined", "undefined", "function")),
     TestRunHook("beforeAll", "COORDINATOR", Given("object", "undefined", "undefined", "function")),
     TestRunHook("afterAll", "COORDINATOR", Given("object", "undefined", "undefined", "function")),
     Setting("defaultTimeout", "100"),
     Setting("definitionFunctionWrapper", "promisify"),
     Setting("definitionFunctionWrapper", "identity")}

MCWrappers == {"promisify"}

MCPickles ==
    <<[uri |-> "a", lines |-> {3}, name |-> "x", tags |-> {}, steps |-> <<"one">>],
      [uri |-> "a", lines |-> {5, 8}, name |-> "y", tags |-> {"t"}, steps |-> <<"one", "two">>],
      [uri |-> "a", lines |-> {5, 9}, name |-> "y", tags |-> {}, steps |-> <<"two">>],
      [uri |-> "b", lines |-> {3}, name |-> "x", tags |-> {"t"}, steps |-> <<"two">>]>>

NoLines == [uri \in {} |-> {}]

(* No filter; of the first file an outline by its line; a name and a tag.  *)
MCFilters ==
    {[lines |-> NoLines, names |-> {}, tagExpression |-> Always],
     [lines |-> [uri \in {"a"} |-> {5}], names |-> {}, tagExpression |-> Always],
     [lines |-> NoLines, names |-> {"y"}, tagExpression |-> Tagged]}
=============================================================================
