-------------------------- MODULE MCPrefixRegistry --------------------------
(* SchemaGate for TLC: the prefixes a and a.b, one tag, two nodes.         *)
EXTENDS SchemaGate

a == <<"a", 0>>
b == <<"b", 0>>
c == <<"c", 0>>
Str == <<"str", "s">>
One == <<"num", 1>>
Two == <<"num", 2>>
Three == <<"num", 3>>

(* a is a map: b a number (where a.b has no prefix of its own), c a list   *)
(* of numbers up to 1, not enforced unless its members say so.             *)
Bounded == [Node EXCEPT !.type = "integer", !.maximum = <<1>>, !.enforce = "on"]
Listed == [Node EXCEPT !.type = "array", !.items = <<Bounded>>, !.enforce = "off"]
Mapped == [Node EXCEPT !.type = "object",
             !.properties = [k \in {b, c} |-> IF k = b THEN Bounded ELSE Listed]]
Texts == [Node EXCEPT !.enum = <<{Str, One}>>]
Nonsense == [Node EXCEPT !.type = "string", !.minimum = <<1>>]

PrefixA == [Blank EXCEPT !.selector = <<"all">>, !.enforce = "on", !.schema = <<Mapped>>]
Enforcing == [schema |-> <<>>, enforce |-> "on", hidden |-> "unset"]
PrefixB == [Blank EXCEPT !.selector = <<"all">>, !.schema = <<Texts>>,
              !.nodes = "n2" :> Enforcing]
Tagged == [Blank EXCEPT !.selector = <<"tag", "t">>, !.enforce = "on",
              !.schema = <<[Node EXCEPT !.type = "string"]>>]

MCNames == << <<a>>, <<a, b>> >>
MCPackaged == (<<a>> :> {None, Text(PrefixA)}) @@ (<<a, b>> :> {None, Text(PrefixB)})
MCHandWritten == {None, Garbled, Text(Tagged), Text([PrefixA EXCEPT !.nodes = "n?" :> Enforcing])}

Edit(act, name, field, value, cas) ==
  [act |-> act, name |-> name, field |-> field, value |-> value, cas |-> cas]
MCEdits ==
  {Edit("replace", <<a, b>>, "", Tagged, TRUE),
   Edit("replace", <<a>>, "", [PrefixA EXCEPT !.schema = <<Nonsense>>], FALSE),
   Edit("set", <<a>>, "enforce", "off", TRUE),
   Edit("set", <<a, b>>, "enforce", "on", FALSE),
   Edit("unset", <<a, b>>, "selector", <<>>, TRUE),
   Edit("delete", <<a, b>>, "", <<>>, FALSE)}

Put(act, view, value, force) ==
  [act |-> act, view |-> view, value |-> value, force |-> force, comments |-> FALSE]
MCRequests ==
  {Put("replace", <<a, b>>, Two, TRUE), Put("replace", <<a, b>>, One, FALSE),
   Put("replace", <<a>>, Str, FALSE), Put("replace", <<>>, Str, FALSE),
   Put("replace", <<a, c>>, <<"array", <<One, Three>> >>, FALSE),
   Put("merge", <<>>, Map(<< <<c, One>>, <<a, Map(<< <<c, Null>> >>)>> >>), FALSE),
   Put("remove", <<a, b>>, Null, FALSE)}

MCDocuments ==
  {Map(<< <<a, Map(<< <<b, Str>>, <<c, <<"array", <<One, Two>> >> >> >>)>> >>)}
=============================================================================
