-------------------------- MODULE MCDocumentViews --------------------------
(* DocumentViews for TLC: two plain keys, a note on one of them, the bare  *)
(* note of a map, a key outside the charset, and lists with notes inside.  *)
EXTENDS DocumentViews

a == <<"a", 0>>
b == <<"b", 0>>
aNote == <<"a", 1>>
bad == <<"?", 0>>
Text == <<"str", "s">>
One == <<"num", 1>>
AWithNote == Map(<< <<aNote, Text>>, <<a, One>> >>)
List == <<"array", << AWithNote >> >>

MCBadNames == {"?"}
MCViews == {<<>>, <<a>>, <<a, b>>, <<aNote>>}

MCPayloads == {EmptyMap, One, Null, List, AWithNote,
               Map(<< <<b, One>>, <<aNote, Text>> >>),
               Map(<< <<a, One>>, <<BareNote, Text>>, <<b, Text>> >>),
               Map(<< <<b, Text>>, <<a, One>> >>)}

Deletes == {Map(<< <<a, Null>> >>), Map(<< <<a, Null>>, <<aNote, Text>> >>)}
MCPatches == {EmptyMap, One, List, Map(<< <<a, One>>, <<bad, One>> >>),
              Map(<< <<aNote, One>> >>), Map(<< <<b, AWithNote>>, <<bad, Null>> >>)}
               \cup Deletes \cup {Map(<< <<b, d>> >>) : d \in Deletes \cup {EmptyMap}}

(* A stored note that is not a string, and a file that does not parse.     *)
MCHandWritten == {Garbled, Map(<< <<aNote, One>>, <<a, One>> >>)}

(* Documents of at most this many values are written to.                   *)
MaxValues == 6
RECURSIVE ValuesIn(_)
ValuesIn(v) ==
  IF IsMap(v) THEN 1 + FoldLeft(LAMBDA n, e : n + ValuesIn(e[2]), 0, v[2]) ELSE 1
Small == ValuesIn(Stored(file)) <= MaxValues
=============================================================================
