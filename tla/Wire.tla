-------------------------------- MODULE Wire --------------------------------
(***************************************************************************)
(* The messages of protocol 2 as the two programs write and read them: the *)
(* agent in Go (pkg/wire, internal/agent), the phone in TypeScript         *)
(* (lib/protocol.ts, lib/wire.ts).  One question travels from the tool     *)
(* call to the card, and its answer from the card to the caller; every     *)
(* limit is checked by code of its own on each side.                       *)
(*                                                                         *)
(* A string is a sequence of code points, and four of them stand for all;  *)
(* a message is the record of its fields, and the length of its JSON.      *)
(* Hashes and signatures are the bytes they are of.  The limits are scaled *)
(* down.                                                                   *)
(***************************************************************************)
EXTENDS Integers, Sequences, SequencesExt, FiniteSetsExt, TLC

CONSTANTS
  Absent,       \* a key that is not there, a nil slice or pointer
  Input,        \* the questions an agent may be asked to put
  Typed,        \* what a human may type
  Document,     \* the JSON texts a peer may send, with their lengths
  Limit,        \* the scalar limit of each field
  Known,        \* the keys of a message
  Nested,       \* those of them that hold a structure of its own
  NestedKnown,  \* and its keys
  MaxOptions, MaxText, MaxExpires, MaxSafeInteger, MaxDepth,
  MaxPlaintext, PadBlock,
  Fixed,        \* the bytes of a message's constant parts
  Sequence, Deadline  \* request sequence numbers, deadlines

TextField == {"id", "title", "summary", "agent", "category", "placeholder"}

\* One code point that is one byte long, one that Go escapes, one that is four
\* bytes long, and half of one: what a sloppy program cuts a pair into.
Plain == 49
Angle == 60
Wide  == 128512
Lone  == 55296
Char   == {Plain, Angle, Wide, Lone}
Scalar == Char \ {Lone}

\* What reaches Go as a string is valid UTF-8: StrictDecode saw to it.
Question ==
  [kind : STRING, id : Seq(Scalar), title : Seq(Scalar), summary : Seq(Scalar),
   category : Seq(Scalar), agent : Seq(Scalar), placeholder : Seq(Scalar),
   options : {Absent} \cup Seq(Seq(Scalar)), max_len : Int, expires_in_s : Int,
   request_seq : {0}, deadline_ms : {0}, sig : {Absent}]

\* A JSON text is the sequence of its values, each after the one it is in: what
\* it is, where it is, and under which key.  A number is [canonical, safe].
Members(x, i) == {c \in DOMAIN x : x[c].in = i}
IsDocument(x) ==
  /\ x # <<>>
  /\ \A i \in DOMAIN x :
       /\ x[i].t \in {"null", "bool", "num", "str", "arr", "obj"}
       /\ x[i].in \in 0..(i - 1) /\ (x[i].in = 0 <=> i = 1)
       /\ x[i].in # 0 => x[x[i].in].t \in {"arr", "obj"}
       /\ x[i].key # Absent <=> x[i].in # 0 /\ x[x[i].in].t = "obj"

ASSUME WireAssumption ==
  /\ \A f \in TextField \cup {"option"} : Limit[f] \in Nat
  /\ {MaxOptions, MaxText, MaxExpires, MaxSafeInteger, MaxDepth} \subseteq Nat
  /\ MaxPlaintext \in Nat /\ PadBlock \in Nat \ {0} /\ Fixed \in Nat
  /\ Sequence \subseteq 1..MaxSafeInteger /\ Deadline \subseteq 0..MaxSafeInteger
  /\ Input \subseteq Question /\ Typed \subseteq Seq(Char)
  /\ \A x \in Document : x.json \in Seq(Range(x.json)) /\ IsDocument(x.json)
  /\ Absent \notin Int /\ Absent \notin Seq(Int) /\ Absent \notin Seq(Seq(Int))
  /\ Absent \notin BOOLEAN

VARIABLES
  stage,  \* how far the question has come
  req,    \* the request, in Ask
  box,    \* the message under way
  card,   \* the request, on the phone
  value,  \* the text typed so far
  dec,    \* the decision, on the phone
  text    \* a JSON text from anywhere

vars == <<stage, req, box, card, value, dec, text>>

Nothing == [kind |-> "none"]

Init ==
  /\ stage = "idle"
  /\ req = Nothing /\ box = Nothing /\ card = Nothing /\ dec = Nothing
  /\ value = <<>> /\ text = Nothing

-----------------------------------------------------------------------------
(* Strings, numbers and their lengths                                      *)

utf8(c) == IF c = Wide THEN <<240, 159, 152, 128>>
           ELSE IF c = Lone THEN <<239, 191, 189>> ELSE <<c>>
Bytes(s) == FlattenSeq([i \in DOMAIN s |-> utf8(s[i])])

\* encoding/json escapes < > & and U+2028, JSON.stringify does not.
escape(c) == IF c = Angle THEN <<92, 117, 48, 48, 51, 99>> ELSE utf8(c)
Escaped  == TRUE
Verbatim == FALSE
Quoted(s, escaped) ==
  <<34>> \o (IF escaped THEN FlattenSeq([i \in DOMAIN s |-> escape(s[i])])
             ELSE Bytes(s)) \o <<34>>

\* One more for every power of ten from 10 on.
PowerOfTen[p \in Nat \ {0}] == p = 1 \/ (p % 10 = 0 /\ PowerOfTen[p \div 10])
Digits(n) == 1 + Cardinality({p \in 10..n : PowerOfTen[p]})

scalarOK(s) == Lone \notin ToSet(s)
scalarLength(s) == Len(s)

clampScalars(s, max) == SubSeq(s, 1, IF Len(s) <= max THEN Len(s) ELSE max)

\* A key that is present costs its value, a colon and a comma.
Text(v, escaped) == IF v = Absent THEN 0 ELSE 2 + Len(Quoted(v, escaped))
List(v, escaped) ==
  IF v = Absent THEN 0
  ELSE 4 + Len(FlattenSeq([i \in DOMAIN v |-> Quoted(v[i], escaped) \o <<44>>]))
Number(n)   == IF n = Absent THEN 0 ELSE 4 + Digits(n)
Constant(v) == IF v = Absent THEN 0 ELSE 4

RequestLength(m, escaped) ==
  Fixed + Text(m.id, escaped) + Text(m.title, escaped) + Text(m.summary, escaped)
    + Text(m.category, escaped) + Text(m.agent, escaped) + List(m.options, escaped)
    + Text(m.placeholder, escaped) + Number(m.max_len) + Number(m.expires_in_s)
    + Number(m.request_seq) + Number(m.deadline_ms) + Constant(m.sig)
DecisionLength(d, escaped) ==
  Fixed + Text(d.id, escaped) + Constant(d.approved) + Text(d.choice, escaped)
    + Text(d.text, escaped) + Constant(d.sig)

pad(n) == n + PadBlock - (n % PadBlock)

-----------------------------------------------------------------------------
(* Transcripts: what is signed and hashed                                  *)

\* Bug: the parts are joined without their lengths.
JoinedFields(parts) == FlattenSeq(parts)

\* The eight bytes of a length, the digits of a number and a constant word are
\* one symbol each.
fields(parts) ==
  FlattenSeq([i \in DOMAIN parts |-> <<Len(parts[i])>> \o parts[i]])

Num(n) == <<n>>
Word == [request |-> <<1>>, decision |-> <<2>>, yesno |-> <<3>>, choice |-> <<4>>,
         text |-> <<5>>]
OptionsOf(options) == IF options = Absent THEN <<>> ELSE options
OrEmpty(s) == IF s = Absent THEN <<>> ELSE s
OrZero(n)  == IF n = Absent THEN 0 ELSE n

\* Go, from the structure.
RequestSigningMessage(r) ==
  LET opts == OptionsOf(r.options) IN
  fields(<< Word.request, Num(r.request_seq), Bytes(r.id), Bytes(r.title),
            Bytes(r.category), Bytes(r.summary), Bytes(r.agent), Word[r.kind],
            Num(Len(opts)) >>
         \o [i \in DOMAIN opts |-> Bytes(opts[i])]
         \o << Bytes(r.placeholder), Num(r.max_len), Num(r.expires_in_s),
               Num(r.deadline_ms) >>)

\* TypeScript, from the JSON, where zeros are not there.
requestSigningMessage(m) ==
  LET opts == OptionsOf(m.options) IN
  fields(<< Word.request, Num(OrZero(m.request_seq)), Bytes(m.id),
            Bytes(m.title), Bytes(OrEmpty(m.category)), Bytes(m.summary),
            Bytes(OrEmpty(m.agent)), Word[m.kind], Num(Len(opts)) >>
         \o [i \in DOMAIN opts |-> Bytes(opts[i])]
         \o << Bytes(OrEmpty(m.placeholder)), Num(OrZero(m.max_len)),
               Num(OrZero(m.expires_in_s)), Num(OrZero(m.deadline_ms)) >>)

\* A decision, in Go and in TypeScript.
DecisionValue(d) ==
  CASE d.kind = "yesno"  -> IF d.approved = TRUE THEN <<49>> ELSE <<48>>
    [] d.kind = "choice" -> Bytes(OrEmpty(d.choice))
    [] OTHER             -> Bytes(OrEmpty(d.text))
BoundDecisionSigningMessage(d) ==
  fields(<< Word.decision, Bytes(d.id), d.request_hash, Word[d.kind],
            DecisionValue(d) >>)
boundDecisionSigningMessage(d) ==
  fields(<< Word.decision, Bytes(d.id), d.request_hash, Word[d.kind],
            IF d.kind = "yesno" THEN <<IF d.approved THEN 49 ELSE 48>>
            ELSE Bytes(OrEmpty(IF d.kind = "choice" THEN d.choice ELSE d.text)) >>)

Verify(message, sig) == sig = message
verify(message, sig) == sig = message

-----------------------------------------------------------------------------
(* The agent's request, in Go                                              *)

OmitEmpty(v, zero) == IF v = zero THEN Absent ELSE v

Marshal(r) ==
  [kind |-> r.kind, id |-> r.id, title |-> r.title, summary |-> r.summary,
   category |-> OmitEmpty(r.category, <<>>), agent |-> OmitEmpty(r.agent, <<>>),
   options |-> IF OptionsOf(r.options) = <<>> THEN Absent ELSE r.options,
   placeholder |-> OmitEmpty(r.placeholder, <<>>),
   max_len |-> OmitEmpty(r.max_len, 0),
   expires_in_s |-> OmitEmpty(r.expires_in_s, 0),
   request_seq |-> r.request_seq, deadline_ms |-> r.deadline_ms, sig |-> r.sig]

\* Bug: the limit is checked before the padding.
EncodeUnpadded(r) == RequestLength(Marshal(r), Escaped) <= MaxPlaintext

EncodeMessage(r) == pad(RequestLength(Marshal(r), Escaped)) <= MaxPlaintext

scalarBound(s, max, required) ==
  scalarLength(s) <= max /\ (required => s # <<>>)

responseOK(r) ==
  \/ /\ r.kind = "yesno"
     /\ r.options = Absent /\ r.placeholder = <<>> /\ r.max_len = 0
  \/ /\ r.kind = "choice"
     /\ r.options # Absent /\ r.placeholder = <<>> /\ r.max_len = 0
     /\ Len(r.options) \in 1..MaxOptions
     /\ \A i \in DOMAIN r.options : scalarBound(r.options[i], Limit["option"], TRUE)
     /\ Cardinality(ToSet(r.options)) = Len(r.options)
  \/ /\ r.kind = "text"
     /\ r.options = Absent /\ r.max_len \in 0..MaxText

\* With room for the longest metadata that Ask may add.
ValidateRequestInput(r) ==
  /\ \A f \in TextField : scalarBound(r[f], Limit[f], f = "id")
  /\ responseOK(r)
  /\ r.expires_in_s \in 0..MaxExpires
  /\ EncodeMessage([r EXCEPT !.deadline_ms = MaxSafeInteger,
                             !.request_seq = MaxSafeInteger, !.sig = <<>>])

-----------------------------------------------------------------------------
(* The phone's decoder, in TypeScript                                      *)

bounded(v, max, required) ==
  IF v = Absent THEN ~required
  ELSE scalarOK(v) /\ scalarLength(v) <= max /\ (required => v # <<>>)

integer(n, max, optional) == IF n = Absent THEN optional ELSE n \in 0..max

responseAdmitted(m) ==
  /\ bounded(m.placeholder, Limit["placeholder"], FALSE)
  /\ integer(m.max_len, MaxText, TRUE)
  /\ \/ m.kind = "yesno" /\ {m.options, m.placeholder, m.max_len} = {Absent}
     \/ /\ m.kind = "choice" /\ m.options # Absent
        /\ Len(m.options) \in 1..MaxOptions
        /\ m.placeholder = Absent /\ m.max_len = Absent
        /\ \A i \in DOMAIN m.options : bounded(m.options[i], Limit["option"], TRUE)
        /\ Cardinality(ToSet(m.options)) = Len(m.options)
     \/ m.kind = "text" /\ m.options = Absent

\* The same reserve, in the agent's escaping.
transportLength(m) ==
  RequestLength([m EXCEPT !.deadline_ms = MaxSafeInteger,
                       !.request_seq = MaxSafeInteger], Escaped)

validateRequest(m) ==
  /\ integer(m.deadline_ms, MaxSafeInteger, FALSE)
  /\ integer(m.request_seq, MaxSafeInteger, FALSE) /\ m.request_seq # 0
  /\ bounded(m.id, Limit["id"], TRUE)
  /\ \A f \in {"title", "summary", "agent", "category"} :
       bounded(m[f], Limit[f], FALSE)
  /\ responseAdmitted(m)
  /\ integer(m.expires_in_s, MaxExpires, TRUE)
  /\ transportLength(m) < MaxPlaintext

-----------------------------------------------------------------------------
(* Decisions                                                               *)

validateDecision(d) ==
  /\ bounded(d.id, Limit["id"], TRUE)
  /\ CASE d.kind = "yesno"  -> d.approved \in BOOLEAN
       [] d.kind = "choice" -> bounded(d.choice, Limit["option"], TRUE)
       [] d.kind = "text"   -> bounded(d.text, MaxText, FALSE)

\* Go: absent strings are empty, and so is "".
ValidateDecision(d) ==
  /\ scalarBound(d.id, Limit["id"], TRUE)
  /\ CASE d.kind = "yesno" ->
            d.approved # Absent /\ OrEmpty(d.choice) = <<>> /\ OrEmpty(d.text) = <<>>
       [] d.kind = "choice" ->
            /\ d.approved = Absent /\ OrEmpty(d.text) = <<>>
            /\ scalarBound(OrEmpty(d.choice), Limit["option"], TRUE)
       [] d.kind = "text" ->
            /\ d.approved = Absent /\ OrEmpty(d.choice) = <<>>
            /\ scalarBound(OrEmpty(d.text), MaxText, FALSE)

\* The result holds the field of its kind and no other, even an empty one.
resultFieldsMatch(d) ==
  LET present == {f \in {"approved", "choice", "text"} : d[f] # Absent} IN
  CASE d.kind = "yesno"  -> present = {"approved"}
    [] d.kind = "choice" -> present = {"choice"}
    [] d.kind = "text"   -> present \subseteq {"text"}

resultMatchesKind(d, r) ==
  CASE r.kind = "yesno"  -> d.approved # Absent
    [] r.kind = "choice" -> OrEmpty(d.choice) \in ToSet(r.options)
    [] r.kind = "text"   -> scalarLength(OrEmpty(d.text))
                              <= IF r.max_len = 0 THEN MaxText ELSE r.max_len

-----------------------------------------------------------------------------
(* JSON texts: duplicate keys, nulls, numbers, scalars, depth              *)

\* A value and its depth.
Places(x) == (DOMAIN x) \X (0..(MaxDepth + 1))
Keys(x, i) == {x[c].key : c \in Members(x, i)}

\* Go scans the bytes of every string, the keys with them, before it decodes.
validEscapedScalars(x) ==
  \A i \in DOMAIN x : /\ x[i].t = "str" => scalarOK(x[i].v)
                      /\ x[i].key # Absent => scalarOK(x[i].key)

\* Go reads tokens.
strictValue(x) ==
  LET read[at \in Places(x)] ==
        LET i == at[1]
            depth == at[2]
        IN /\ depth <= MaxDepth
           /\ x[i].t # "null"
           /\ x[i].t = "num" => x[i].v.canonical /\ x[i].v.safe
           /\ x[i].t = "obj" =>
                \A c, e \in Members(x, i) : x[c].key = x[e].key => c = e
           /\ \A c \in Members(x, i) : read[<<c, depth + 1>>]
  IN read

\* By the type: a message, and a structure in it; what Unmarshal then makes of a
\* value of another type is left out.
exactFields(x) ==
  /\ x[1].t = "obj" /\ Keys(x, 1) \subseteq Known
  /\ \A i \in Members(x, 1) : x[i].key \in Nested =>
       x[i].t = "obj" /\ Keys(x, i) \subseteq NestedKnown

\* Bug: the depth is counted from one.
StrictDecodeShallow(x, n) ==
  /\ n <= MaxPlaintext
  /\ validEscapedScalars(x) /\ strictValue(x)[<<1, 1>>] /\ exactFields(x)

StrictDecode(x, n) ==
  /\ n <= MaxPlaintext
  /\ validEscapedScalars(x) /\ strictValue(x)[<<1, 0>>] /\ exactFields(x)

\* TypeScript scans characters, and fails at the first it does not expect.
scan(x, i, depth, read) ==
  IF depth > MaxDepth THEN FALSE
  ELSE CASE x[i].t = "str"  -> scalarOK(x[i].v)
         [] x[i].t = "bool" -> TRUE
         [] x[i].t = "num"  -> x[i].v.safe /\ x[i].v.canonical
         [] x[i].t = "null" -> FALSE
         [] x[i].t = "arr"  -> \A c \in Members(x, i) : read[<<c, depth + 1>>]
         [] x[i].t = "obj"  ->
              \A c \in Members(x, i) :
                /\ scalarOK(x[c].key)
                /\ \A e \in Members(x, i) : e < c => x[e].key # x[c].key
                /\ read[<<c, depth + 1>>]
scanned(x) ==
  LET read[at \in Places(x)] == scan(x, at[1], at[2], read) IN read

object(x, i, keys) == x[i].t = "obj" /\ Keys(x, i) \subseteq keys

strictJSON(x, n) ==
  /\ n <= MaxPlaintext
  /\ scanned(x)[<<1, 0>>]
  /\ object(x, 1, Known)
  /\ \A i \in Members(x, 1) : x[i].key \in Nested => object(x, i, NestedKnown)

-----------------------------------------------------------------------------
(* The way of a question                                                   *)

\* requestApproval checks the input before it pairs; Ask adds the metadata.
Refuse(r) ==
  /\ stage = "idle" /\ ~ValidateRequestInput(r)
  /\ stage' = "refused"
  /\ UNCHANGED <<req, box, card, value, dec, text>>

Bare(r, seq, deadline) == [r EXCEPT !.request_seq = seq, !.deadline_ms = deadline]
prepareRequest(r, seq, deadline) ==
  LET bare == Bare(r, seq, deadline)
      full == [bare EXCEPT !.sig = RequestSigningMessage(bare)] IN
  /\ stage = "idle" /\ ValidateRequestInput(r)
  /\ stage' = IF EncodeMessage(full) THEN "asked" ELSE "lost"
  /\ req' = full /\ box' = Marshal(full)
  /\ UNCHANGED <<card, value, dec, text>>

\* onBox: what the phone cannot read or verify, it drops.
onBox ==
  /\ stage = "asked"
  /\ IF /\ pad(RequestLength(box, Escaped)) <= MaxPlaintext
        /\ validateRequest(box)
        /\ verify(requestSigningMessage(box), box.sig)
       THEN stage' = "card" /\ card' = box
       ELSE stage' = "lost" /\ UNCHANGED card
  /\ UNCHANGED <<req, box, value, dec, text>>

maxLen == IF OrZero(card.max_len) = 0 THEN MaxText ELSE card.max_len

\* TextScreen: a paste that ends in half a character changes nothing.
onChange(s) ==
  /\ stage = "card" /\ card.kind = "text"
  /\ scalarOK(s)
  /\ value' = clampScalars(s, maxLen)
  /\ UNCHANGED <<stage, req, box, card, dec, text>>

Answer(approved, choice, reply) ==
  [kind |-> card.kind, id |-> card.id,
   request_hash |-> requestSigningMessage(card), approved |-> approved,
   choice |-> choice, text |-> reply, sig |-> Absent]

encodeDecision(d) == pad(DecisionLength(d, Verbatim)) <= MaxPlaintext

\* sendDecision: an answer too large for a message stays on the card; one that
\* cannot be validated ends the session.
sendDecision(d) ==
  /\ stage = "card"
  /\ IF ~validateDecision(d) THEN stage' = "failed" /\ UNCHANGED <<box, dec>>
     ELSE /\ card.kind = "choice" => d.choice \in ToSet(card.options)
          /\ card.kind = "text" => scalarLength(d.text) <= maxLen
          /\ encodeDecision([d EXCEPT !.sig = <<>>])
          /\ dec' = [d EXCEPT !.sig = boundDecisionSigningMessage(d)]
          /\ box' = dec' /\ stage' = "answered"
  /\ UNCHANGED <<req, card, value, text>>

Send ==
  \/ card.kind = "yesno" /\ \E b \in BOOLEAN : sendDecision(Answer(b, Absent, Absent))
  \/ card.kind = "choice" /\ \E o \in ToSet(card.options) :
       sendDecision(Answer(Absent, o, Absent))
  \/ card.kind = "text" /\ sendDecision(Answer(Absent, Absent, value))

\* routeBoundDecision: what does not fit the question is dropped.
routeBoundDecision ==
  /\ stage = "answered"
  /\ stage' = IF /\ pad(DecisionLength(box, Verbatim)) <= MaxPlaintext
                 /\ ValidateDecision(box) /\ resultFieldsMatch(box)
                 /\ Verify(BoundDecisionSigningMessage(box), box.sig)
                 /\ box.id = req.id /\ box.request_hash = RequestSigningMessage(req)
                 /\ box.kind = req.kind /\ resultMatchesKind(box, req)
              THEN "accepted" ELSE "lost"
  /\ UNCHANGED <<req, box, card, value, dec, text>>

\* The receipt names question and answer by their hashes.
signedAck(d) ==
  [id |-> d.id, request_hash |-> d.request_hash,
   decision_hash |-> BoundDecisionSigningMessage(d)]
matchesAck(a, d) ==
  /\ a.id = d.id /\ a.request_hash = d.request_hash
  /\ a.decision_hash = boundDecisionSigningMessage(d)

onAck ==
  /\ stage = "accepted"
  /\ stage' = IF matchesAck(signedAck(box), dec) THEN "confirmed" ELSE "lost"
  /\ UNCHANGED <<req, box, card, value, dec, text>>

\* Any other JSON text, to either decoder.
Receive(x) ==
  /\ stage = "idle"
  /\ stage' = "read" /\ text' = x
  /\ UNCHANGED <<req, box, card, value, dec>>

Done == stage \in {"refused", "confirmed", "read"} /\ UNCHANGED vars

Next ==
  \/ \E r \in Input : Refuse(r)
                      \/ \E q \in Sequence, d \in Deadline : prepareRequest(r, q, d)
  \/ onBox \/ \E s \in Typed : onChange(s)
  \/ stage = "card" /\ Send
  \/ routeBoundDecision \/ onAck
  \/ \E x \in Document : Receive(x)
  \/ Done

Spec == Init /\ [][Next]_vars

-----------------------------------------------------------------------------
(* Properties                                                              *)

\* Whatever the agent lets through, the phone can read and show, and whatever
\* answer its card lets the human give, the agent takes: the two sides' limits,
\* defaults and transcripts are the same (protocol.go:3-5).
NothingLost == stage \notin {"lost", "failed"}

\* What a decision says.
Says(d) == CASE d.kind = "yesno"  -> d.approved
             [] d.kind = "choice" -> OrEmpty(d.choice)
             [] d.kind = "text"   -> OrEmpty(d.text)

\* Two questions, or two answers to one, that differ anywhere are signed over
\* different bytes (protocol.go:3-5).
Sendable == {r \in Input : ValidateRequestInput(r)}
Sent == {Bare(r, q, d) : r \in Sendable, q \in Sequence, d \in Deadline}
Transcript == [r \in Sent |-> RequestSigningMessage(r)]
TranscriptsDistinct ==
  /\ stage = "asked" =>
       \A other \in Sent : Transcript[other] = req.sig
                             => other = [req EXCEPT !.sig = Absent]
  /\ stage = "answered" =>
       \A a \in BOOLEAN, s \in {dec.choice, dec.text} \cup Typed :
         LET other == CASE dec.kind = "yesno"  -> [dec EXCEPT !.approved = a]
                        [] dec.kind = "choice" -> [dec EXCEPT !.choice = s]
                        [] dec.kind = "text"   -> [dec EXCEPT !.text = s]
         IN scalarOK(OrEmpty(s)) /\ boundDecisionSigningMessage(other) = dec.sig
              => Says(other) = Says(dec)

\* The two strict decoders admit the same JSON (protocol.go:304-306 and
\* protocol.ts:353-354).
DecodersAgree ==
  text # Nothing =>
    (StrictDecode(text.json, text.size) <=> strictJSON(text.json, text.size))

=============================================================================
