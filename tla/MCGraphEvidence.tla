---- MODULE MCGraphEvidence ----
(* Two memories of the project and one of a session that one caller sees,   *)
(* and answers of extractors that share names, texts and statements, cite   *)
(* what they did not name, cross scopes or refer to what was refused.       *)
EXTENDS GraphEvidence

Scope == <<"project", "project", "session">>
Sees == [owner |-> {"project", "session"}, other |-> {"project"}]

E(n, from) == [name |-> n, from |-> from]
R(a, b, from) == [subject |-> a, object |-> b, from |-> from]
F(text, from, about, causes) == [text |-> text, from |-> from, about |-> about, causes |-> causes]
O(statement, facts) == [statement |-> statement, facts |-> facts]
X(sources, entities, relations, facts, observations) ==
    [sources |-> sources, entities |-> entities, relations |-> relations, facts |-> facts,
     observations |-> observations]

Answers == {
    X({1}, <<E(1, {1}), E(2, {1})>>, <<R(1, 2, {1})>>,
      <<F("a", {1}, {1}, {}), F("b", {1}, {1}, {1})>>, <<O("p", {1, 2})>>),
    X({2}, <<E(1, {2}), E(3, {2})>>, <<R(1, 3, {2}), R(1, 2, {2})>>,
      <<F("a", {2}, {1, 2}, {}), F("b", {2}, {3}, {})>>, <<O("p", {1}), O("q", {1})>>),
    X({1, 2}, <<E(1, {1, 2}), E(2, {2})>>, <<R(1, 2, {1, 2})>>,
      <<F("a", {1, 2}, {1, 2}, {}), F("b", {1}, {3}, {1})>>, <<O("p", {1, 2}), O("q", {1, 2})>>),
    X({1, 3}, <<E(1, {1, 3}), E(1, {3}), E(2, {3})>>, <<R(1, 2, {3}), R(2, 3, {1})>>,
      <<F("a", {3}, {1, 2}, {3}), F("b", {3}, {1, 2}, {}), F("c", {1}, {2}, {2})>>,
      <<O("p", {2}), O("q", {1, 2})>>)}
====
