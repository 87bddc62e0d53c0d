------------------------------- MODULE MCWire -------------------------------
EXTENDS Wire

MCLimit == [id |-> 2, title |-> 2, summary |-> 3, agent |-> 1, category |-> 1,
            placeholder |-> 2, option |-> 2]

One == <<Plain>>
Strings == {<<>>, One, <<Plain, Plain>>, <<Angle, Angle>>, <<Wide, Plain>>, <<Plain, Plain, Plain>>}
Long == {<<>>, One, <<Angle, Angle, Angle>>, <<Wide, Wide, Wide>>,
         <<Plain, Plain, Plain, Plain>>}
Base == [kind |-> "yesno", id |-> One, title |-> <<>>, summary |-> <<>>,
         category |-> <<>>, agent |-> <<>>, options |-> Absent,
         placeholder |-> <<>>, max_len |-> 0, expires_in_s |-> 0,
         request_seq |-> 0, deadline_ms |-> 0, sig |-> Absent]

MCInput ==
  {[Base EXCEPT !.id = i, !.title = t, !.summary = s, !.expires_in_s = e] :
     i \in Strings, t \in Strings, s \in Long, e \in {0, 1, 10}}
  \cup {[Base EXCEPT !.kind = "choice", !.options = o, !.title = t, !.agent = a] :
     o \in {Absent, <<>>, <<One>>, <<One, One>>, <<One, <<Plain, Plain>>>>,
            <<<<Plain, Plain>>, One>>, <<<<Angle>>, <<Wide>>>>, <<One, <<>>>>,
            <<One, <<Plain, Plain, Plain>>>>, <<One, <<Angle>>, <<Wide>>>>},
     t \in {<<>>, One, <<Angle, Angle>>}, a \in {<<>>, One}}
  \cup {[Base EXCEPT !.kind = "text", !.placeholder = p, !.max_len = n,
                     !.category = c, !.agent = a] :
     p \in Strings, n \in {-1, 0, 1, 10, 11}, c \in {<<>>, One}, a \in {<<>>, One}}
  \cup {[Base EXCEPT !.kind = k, !.options = o, !.placeholder = p, !.max_len = n] :
     k \in {"yesno", "text"}, o \in {<<>>, <<One>>}, p \in {<<>>, One}, n \in {0, 1}}

Rep(c, n) == [i \in 1..n |-> c]
MCTyped == {<<>>, One, <<Plain, Wide>>, <<Plain, Lone>>, Rep(Wide, 7),
            Rep(Angle, 12), Rep(Wide, 12)}

MCKnown == {One, <<Angle>>}
MCNested == {<<Angle>>}
MCNestedKnown == {One}

\* Texts, built from the values they hold.
Leaf(t, v) == <<[t |-> t, v |-> v, in |-> 0, key |-> Absent]>>
Under(x, key, by) ==
  [i \in DOMAIN x |-> IF i = 1 THEN [x[i] EXCEPT !.in = 1, !.key = key]
                      ELSE [x[i] EXCEPT !.in = @ + by]]
Leaves == {Leaf("null", 0), Leaf("bool", 0)}
          \cup {Leaf("num", [canonical |-> c, safe |-> b]) : c \in BOOLEAN, b \in BOOLEAN}
          \cup {Leaf("str", s) : s \in {<<>>, <<Wide>>, <<Lone>>}}
Arrays(S) == {Leaf("arr", 0)} \cup {Leaf("arr", 0) \o Under(a, Absent, 1) : a \in S}
Objects(S) == {Leaf("obj", 0)}
              \cup {Leaf("obj", 0) \o Under(a, k, 1) :
                      k \in {One, <<Wide>>, <<Lone>>}, a \in S}
              \cup {Leaf("obj", 0) \o Under(a, One, 1) \o Under(b, k, 1 + Len(a)) :
                      k \in {One, <<Angle>>}, a \in S, b \in {Leaf("bool", 0)} \cup S}
Inner == Arrays(Leaves) \cup Objects({Leaf("bool", 0), Leaf("null", 0), Leaf("str", <<Lone>>)})
MCDocument == {[json |-> x, size |-> n] :
                 x \in Leaves \cup Inner \cup Objects(Leaves) \cup Objects(Inner)
                       \cup Objects(Arrays(Inner)),
                 n \in {MaxPlaintext, MaxPlaintext + 1}}
=============================================================================
