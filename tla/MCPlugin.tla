------------------------------ MODULE MCPlugin ------------------------------
(***************************************************************************)
(* A small instance of Plugin: a root agent, an instance below it that     *)
(* shares its full id, a process without environment, and two instances    *)
(* that selectors make up, one by a name with a "/": they have one         *)
(* hierarchy.                                                              *)
(***************************************************************************)
EXTENDS Plugin

CONSTANTS a, b \* two agents

Root       == [parent |-> <<>>, name |-> <<"mundus-animarum">>]
Child      == [parent |-> <<"mundus-animarum">>, name |-> <<"x">>]
Grandchild == [parent |-> <<"mundus-animarum", "x">>, name |-> <<"y">>]
Namesake   == [parent |-> <<"mundus-animarum">>, name |-> <<"x", "y">>]

FourInstances   == {Root, Child, Grandchild, Namesake}
ThreeIdentities == {[full |-> a, self |-> Root], [full |-> a, self |-> Child],
                    [full |-> None, self |-> None]}

Agents2   == {a, b}
Key       == <<a, "k">>
Soul      == <<a, SoulScope>>
FewWishes == {<<Child, Key>>, <<Child, Soul>>,
              <<Grandchild, Key>>, <<Namesake, Key>>}
NoRow     == {}
=============================================================================
