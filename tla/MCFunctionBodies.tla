-------------------------- MODULE MCFunctionBodies --------------------------
(***************************************************************************)
(* Programs of three functions for FunctionBodies.                           *)
(***************************************************************************)
EXTENDS FunctionBodies

IfThen(c, u)    == <<"if">> \o c \o <<"then">> \o u \o <<"endif">>
IfElse(c, u, v) == <<"if">> \o c \o <<"then">> \o u \o <<"else">> \o v \o <<"endif">>
WhileLoop(c, u)  == <<"while">> \o c \o <<"loop">> \o u \o <<"endloop">>
Line(u)       == <<"nl">> \o u
Lines(u)      == <<"nl">> \o u \o <<"nl">>

Test == <<"test">>
Stmt == <<"stmt">>

Conditions == {Test, <<"call">>, <<"bad">>}
Simple     == {<<"call">>, <<"return">>, <<"bad">>}

Flat   == {IfThen(c, Lines(u)) : c \in Conditions, u \in Simple}
            \cup {IfElse(c, Lines(u), Lines(Stmt)) : c \in Conditions, u \in Simple}
Nested == {IfElse(Test, Lines(u), Lines(v)) : u \in {IfThen(Test, Line(Stmt)), IfElse(Test, Stmt, Lines(<<"call">>))},
                                              v \in {IfElse(Test, Lines(<<"return">>), Stmt), IfThen(<<"bad">>, Stmt)}}
Loops  == {WhileLoop(c, u) : c \in Conditions, u \in {<<"return">>, <<"call">>, IfThen(Test, Stmt), IfElse(Test, <<"bad">>, Stmt)}}

First  == {Lines(u) \o Stmt : u \in Flat \cup Nested \cup Loops}
            \cup {u \o v : u \in Loops, v \in {IfThen(Test, Stmt), Line(IfThen(<<"call">>, Stmt))}}
            \cup {IfThen(Test, Lines(<<"call">>) \o IfThen(Test, Lines(Stmt))) \o Line(Stmt)}
            \cup {<<"comment">> \o IfThen(<<"nl", "test">>, <<"comment", "stmt">>)}
Second == {Lines(<<"call">>), Line(IfElse(<<"call">>, Lines(<<"call">>), Stmt)) \o Line(Stmt), IfThen(<<"bad">>, <<"stmt">>),
           WhileLoop(Test, <<"return">>) \o IfThen(Test, Stmt)}
Third  == {Line(Stmt), IfThen(Test, Stmt) \o Stmt}

Programs == {<<a, b, c>> : a \in First, b \in Second, c \in Third}

Breakpoints == {[fn |-> 1, line |-> 2, temporary |-> FALSE], [fn |-> 2, line |-> 1, temporary |-> TRUE]}
=============================================================================
