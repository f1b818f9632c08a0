---------------------------- MODULE MCForwarder ----------------------------
(* Names, content objects and Interests for the runs of Forwarder. *)
EXTENDS Forwarder

CONSTANTS a, b, c, h1

Name == <<a, b, c>>

\* One content object, which an Interest asks for by its name or by its hash.
OneName    == {Name}
OneObject  == {[name |-> Name, hash |-> h1, until |-> 0]}
ByName     == [name |-> Name, hash |-> NullHash, lifetime |-> 1]
ByHash     == [name |-> NoName, hash |-> h1, lifetime |-> 1]
TwoKeys    == {ByName, ByHash}

AllPrefixes == {<<a>>, <<a, b>>, <<a, b, c>>}
NoSegments  == <<>>

\* The route a protocol has found leads to every connection.
OneRoute == {[connection \in Connections |-> 1]}
=============================================================================
