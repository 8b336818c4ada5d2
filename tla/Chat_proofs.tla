----------------------------- MODULE Chat_proofs -----------------------------
(***************************************************************************)
(* Theorems about what comes from a model: an answer that arrives in chunks *)
(* (ChatStream), for any answer, any chunks and any point where the stream  *)
(* ends; what the single-shot caller decodes from the text of a reply       *)
(* (ReplyText), for any values, words around them and cuts; and what a      *)
(* session's conversation stays (Conversation), for any inputs, kinds of    *)
(* reply and bounds.  They rest on what the concatenation of a sequence of  *)
(* sequences is, and on induction on an interval, which are proved first.   *)
(***************************************************************************)
EXTENDS ChatStream, ReplyText, Conversation, FiniteSetTheorems, SequenceTheorems, WellFoundedInduction, TLAPS

-----------------------------------------------------------------------------
(* Sequences. *)

(* A set of naturals has a least element: induction, in a form that the     *)
(* provers can use, since nothing in it is an operator.                     *)
LEMMA Least ==
  ASSUME NEW T, T \subseteq Nat, T # {}
  PROVE  \E n \in T : \A m \in T : n <= m
<1> DEFINE Below == {ss \in Nat \X Nat : ss[1] < ss[2]}
<1>1. IsWellFoundedOn(Below, Nat)
  <2>1. OpToRel(<, Nat) = Below
    BY Zenon DEF OpToRel
  <2>2. IsWellFoundedOn(OpToRel(<, Nat), Nat)
    BY Zenon, NatLessThanWellFounded
  <2> QED BY Zenon, <2>1, <2>2
<1>2. ASSUME NEW x \in T, NEW y \in T, <<y, x>> \notin Below PROVE x <= y
  BY <1>2
<1> HIDE DEF Below
<1>3. \E x \in T : \A y \in T : ~ (<<y, x>> \in Below)
  BY <1>1, WFMin
<1> QED BY <1>2, <1>3

(* Induction on an interval, for the set of the naturals that have a property. *)
LEMMA Stepwise ==
  ASSUME NEW a \in Nat, NEW b \in Nat, NEW Good, a \in Good, \A m \in a .. (b - 1) : m \in Good => m + 1 \in Good
  PROVE  \A m \in a .. b : m \in Good
<1> DEFINE T == {m \in a .. b : m \notin Good}
<1> SUFFICES ASSUME T # {} PROVE FALSE
  OBVIOUS
<1>1. PICK n \in T : \A m \in T : n <= m
  <2>1. T \subseteq Nat
    OBVIOUS
  <2> HIDE DEF T
  <2> QED BY <2>1, Least
<1>2. n \in a .. b /\ n \notin Good /\ n # a
  BY <1>1
<1>3. n - 1 \in a .. (b - 1) /\ n - 1 \in a .. b /\ ~(n <= n - 1)
  BY <1>2
<1>4. n - 1 \in Good
  BY <1>1, <1>3
<1>5. n - 1 + 1 \in Good
  BY <1>3, <1>4
<1> QED BY <1>2, <1>5

(* What FlattenSeq computes for the first n of a sequence of sequences. *)
Flattening(g, seqs, n) == g = [i \in 1 .. n |-> IF i = 1 THEN seqs[i] ELSE g[i - 1] \o seqs[i]]

(* The recursive function of FlattenSeq exists. *)
LEMMA FlatteningExists ==
  ASSUME NEW seqs
  PROVE  \A n \in Nat : \E g : Flattening(g, seqs, n)
<1> DEFINE T == {n \in Nat : ~ \E g : Flattening(g, seqs, n)}
<1> SUFFICES ASSUME T # {} PROVE FALSE
  OBVIOUS
<1>1. PICK n \in T : \A m \in T : n <= m
  <2>1. T \subseteq Nat
    OBVIOUS
  <2> HIDE DEF T
  <2> QED BY <2>1, Least
<1>2. n \in Nat \ {0}
  <2>1. Flattening([i \in 1 .. 0 |-> 0], seqs, 0)
    BY DEF Flattening
  <2> QED BY <2>1, <1>1
<1>3. PICK g : Flattening(g, seqs, n - 1)
  BY <1>1, <1>2
<1> DEFINE h == [i \in 1 .. n |-> IF i = n THEN (IF i = 1 THEN seqs[i] ELSE g[i - 1] \o seqs[i]) ELSE g[i]]
<1>4. ASSUME NEW i \in 1 .. n PROVE h[i] = IF i = 1 THEN seqs[i] ELSE h[i - 1] \o seqs[i]
  <2>1. CASE i = n
    BY <2>1, <1>2
  <2>2. CASE i # n
    <3>1. i \in 1 .. n - 1 /\ (i # 1 => i - 1 \in 1 .. n - 1)
      BY <2>2, <1>2
    <3>2. g[i] = IF i = 1 THEN seqs[i] ELSE g[i - 1] \o seqs[i]
      BY <3>1, <1>3 DEF Flattening
    <3> QED BY <3>1, <3>2, <2>2
  <2> QED BY <2>1, <2>2
<1>5. Flattening(h, seqs, n)
  BY <1>4 DEF Flattening
<1> QED BY <1>1, <1>5

(* Each value of it is the one before it with one more sequence.            *)
Grows(g, seqs, n) == g[1] = seqs[1] /\ \A i, j \in 1 .. n : j = i + 1 => g[j] = g[i] \o seqs[j]

(* FlattenSeq is its last value. *)
LEMMA FlattenIs ==
  ASSUME NEW seqs, NEW n \in Nat \ {0}, Len(seqs) = n
  PROVE  \E g : Flattening(g, seqs, n) /\ Grows(g, seqs, n) /\ FlattenSeq(seqs) = g[n]
<1> DEFINE f == CHOOSE g : Flattening(g, seqs, Len(seqs))
<1>1. Flattening(f, seqs, n)
  BY FlatteningExists
<1>2. FlattenSeq(seqs) = f[n]
  BY Zenon DEF FlattenSeq, Flattening
<1> HIDE DEF f
<1>3. \A i \in 1 .. n : f[i] = IF i = 1 THEN seqs[i] ELSE f[i - 1] \o seqs[i]
  BY <1>1 DEF Flattening
<1>4. f[1] = seqs[1]
  BY <1>3
<1>5. ASSUME NEW i \in 1 .. n, NEW j \in 1 .. n, j = i + 1 PROVE f[j] = f[i] \o seqs[j]
  <2>1. j # 1 /\ j - 1 = i
    BY <1>5
  <2> QED BY <2>1, <1>3
<1> QED BY <1>1, <1>2, <1>4, <1>5 DEF Grows

(* The concatenation of none, one, two and three sequences. *)
LEMMA FlattenNone == FlattenSeq(<<>>) = <<>>
BY DEF FlattenSeq

(* One sequence. *)
LEMMA FlattenOne ==
  ASSUME NEW s, Len(s) = 1 PROVE FlattenSeq(s) = s[1]
<1>1. 1 \in Nat \ {0}
  OBVIOUS
<1> QED BY <1>1, FlattenIs DEF Grows

(* Two sequences. *)
LEMMA FlattenTwo ==
  ASSUME NEW s, Len(s) = 2 PROVE FlattenSeq(s) = s[1] \o s[2]
<1>1. 2 \in Nat \ {0} /\ 1 \in 1 .. 2 /\ 2 \in 1 .. 2 /\ 2 = 1 + 1
  OBVIOUS
<1>2. PICK g : Grows(g, s, 2) /\ FlattenSeq(s) = g[2]
  BY <1>1, FlattenIs
<1>3. g[2] = g[1] \o s[2]
  BY Zenon, <1>1, <1>2 DEF Grows
<1> QED BY <1>2, <1>3 DEF Grows

(* Three sequences. *)
LEMMA FlattenThree ==
  ASSUME NEW s, Len(s) = 3 PROVE FlattenSeq(s) = (s[1] \o s[2]) \o s[3]
<1>1. 3 \in Nat \ {0} /\ 1 \in 1 .. 3 /\ 2 \in 1 .. 3 /\ 3 \in 1 .. 3 /\ 2 = 1 + 1 /\ 3 = 2 + 1
  OBVIOUS
<1>2. PICK g : Grows(g, s, 3) /\ FlattenSeq(s) = g[3]
  BY <1>1, FlattenIs
<1>3. g[2] = g[1] \o s[2] /\ g[3] = g[2] \o s[3]
  BY Zenon, <1>1, <1>2 DEF Grows
<1> QED BY <1>2, <1>3 DEF Grows

(* Two and three elements put together. *)
Two(p, a, b) == DOMAIN p = 1 .. 2 /\ Len(p) = 2 /\ p[1] = a /\ p[2] = b
Three(p, a, b, c) == DOMAIN p = 1 .. 3 /\ Len(p) = 3 /\ p[1] = a /\ p[2] = b /\ p[3] = c

(* Two single elements put together. *)
LEMMA JoinTwo ==
  ASSUME NEW a, NEW b PROVE Two(<<a>> \o <<b>>, a, b)
<1>1. PICK S, s, t, p : S = {a, b} /\ s = <<a>> /\ t = <<b>> /\ p = s \o t
  OBVIOUS
<1>2. s \in Seq(S) /\ t \in Seq(S) /\ Len(s) = 1 /\ Len(t) = 1 /\ s[1] = a /\ t[1] = b
  BY <1>1
<1>3. p \in Seq(S) /\ Len(p) = 2 /\ p[1] = a /\ p[2] = b
  BY <1>1, <1>2, ConcatProperties
<1> QED BY <1>1, <1>3 DEF Two

(* Three single elements put together. *)
LEMMA JoinThree ==
  ASSUME NEW a, NEW b, NEW c PROVE Three((<<a>> \o <<b>>) \o <<c>>, a, b, c)
<1>1. PICK S, q, r, p : S = {a, b, c} /\ q = <<a>> \o <<b>> /\ r = <<c>> /\ p = q \o r
  OBVIOUS
<1>2. Two(q, a, b)
  BY Zenon, JoinTwo, <1>1
<1>3. q \in Seq(S)
  <2>1. PICK s, t : s = <<a>> /\ t = <<b>>
    OBVIOUS
  <2>2. s \in Seq(S) /\ t \in Seq(S)
    BY <1>1, <2>1
  <2> QED BY <1>1, <2>1, <2>2, ConcatProperties
<1>4. r \in Seq(S) /\ Len(r) = 1 /\ r[1] = c
  BY <1>1
<1>5. p \in Seq(S) /\ Len(p) = 3 /\ \A i \in 1 .. 3 : p[i] = IF i <= 2 THEN q[i] ELSE r[i - 2]
  BY <1>1, <1>2, <1>3, <1>4, ConcatProperties DEF Two
<1> QED BY <1>1, <1>2, <1>4, <1>5 DEF Two, Three

-----------------------------------------------------------------------------
(* Contents. *)

CallsIn(p) == IF p.type = "tool_call" THEN p.details ELSE <<>>
TextOf(p) == IF p.type = "text" THEN p.text ELSE <<>>
ThoughtOf(p) == IF p.type = "reasoning" THEN p.reasoning ELSE <<>>

(* What is in a composite is what is in its parts. *)
LEMMA OfComposite ==
  ASSUME NEW ps
  PROVE  /\ CallsOf(Composite(ps)) = FlattenSeq([k \in DOMAIN ps |-> CallsIn(ps[k])])
         /\ TextIn(Composite(ps)) = FlattenSeq([k \in DOMAIN ps |-> TextOf(ps[k])])
         /\ ReasoningIn(Composite(ps)) = FlattenSeq([k \in DOMAIN ps |-> ThoughtOf(ps[k])])
<1>1. Composite(ps).type = "composite" /\ Composite(ps).parts = ps
  BY DEF Composite
<1>2. CallsOf(Composite(ps)) = FlattenSeq([k \in DOMAIN ps |-> CallsIn(ps[k])])
  BY <1>1 DEF CallsOf, CallsIn
<1>3. TextIn(Composite(ps)) = FlattenSeq([k \in DOMAIN ps |-> TextOf(ps[k])])
  BY <1>1 DEF TextIn, TextOf
<1>4. ReasoningIn(Composite(ps)) = FlattenSeq([k \in DOMAIN ps |-> ThoughtOf(ps[k])])
  BY <1>1 DEF ReasoningIn, ThoughtOf
<1> QED BY <1>2, <1>3, <1>4

(* What is in a composite of two parts. *)
LEMMA OfTwo ==
  ASSUME NEW ps, DOMAIN ps = 1 .. 2
  PROVE  /\ CallsOf(Composite(ps)) = CallsIn(ps[1]) \o CallsIn(ps[2])
         /\ TextIn(Composite(ps)) = TextOf(ps[1]) \o TextOf(ps[2])
         /\ ReasoningIn(Composite(ps)) = ThoughtOf(ps[1]) \o ThoughtOf(ps[2])
<1>1. FlattenSeq([k \in DOMAIN ps |-> CallsIn(ps[k])]) = CallsIn(ps[1]) \o CallsIn(ps[2])
  <2>1. PICK s : s = [k \in DOMAIN ps |-> CallsIn(ps[k])]
    OBVIOUS
  <2>2. Len(s) = 2 /\ s[1] = CallsIn(ps[1]) /\ s[2] = CallsIn(ps[2])
    BY <2>1
  <2>3. FlattenSeq(s) = s[1] \o s[2]
    BY <2>2, FlattenTwo
  <2> QED BY Zenon, <2>1, <2>2, <2>3
<1>2. FlattenSeq([k \in DOMAIN ps |-> TextOf(ps[k])]) = TextOf(ps[1]) \o TextOf(ps[2])
  <2>1. PICK s : s = [k \in DOMAIN ps |-> TextOf(ps[k])]
    OBVIOUS
  <2>2. Len(s) = 2 /\ s[1] = TextOf(ps[1]) /\ s[2] = TextOf(ps[2])
    BY <2>1
  <2>3. FlattenSeq(s) = s[1] \o s[2]
    BY <2>2, FlattenTwo
  <2> QED BY Zenon, <2>1, <2>2, <2>3
<1>3. FlattenSeq([k \in DOMAIN ps |-> ThoughtOf(ps[k])]) = ThoughtOf(ps[1]) \o ThoughtOf(ps[2])
  <2>1. PICK s : s = [k \in DOMAIN ps |-> ThoughtOf(ps[k])]
    OBVIOUS
  <2>2. Len(s) = 2 /\ s[1] = ThoughtOf(ps[1]) /\ s[2] = ThoughtOf(ps[2])
    BY <2>1
  <2>3. FlattenSeq(s) = s[1] \o s[2]
    BY <2>2, FlattenTwo
  <2> QED BY Zenon, <2>1, <2>2, <2>3
<1> QED BY <1>1, <1>2, <1>3, OfComposite

(* What is in a composite of three parts. *)
LEMMA OfThree ==
  ASSUME NEW ps, DOMAIN ps = 1 .. 3
  PROVE  /\ CallsOf(Composite(ps)) = (CallsIn(ps[1]) \o CallsIn(ps[2])) \o CallsIn(ps[3])
         /\ TextIn(Composite(ps)) = (TextOf(ps[1]) \o TextOf(ps[2])) \o TextOf(ps[3])
         /\ ReasoningIn(Composite(ps)) = (ThoughtOf(ps[1]) \o ThoughtOf(ps[2])) \o ThoughtOf(ps[3])
<1>1. FlattenSeq([k \in DOMAIN ps |-> CallsIn(ps[k])]) = (CallsIn(ps[1]) \o CallsIn(ps[2])) \o CallsIn(ps[3])
  <2>1. PICK s : s = [k \in DOMAIN ps |-> CallsIn(ps[k])]
    OBVIOUS
  <2>2. Len(s) = 3 /\ s[1] = CallsIn(ps[1]) /\ s[2] = CallsIn(ps[2]) /\ s[3] = CallsIn(ps[3])
    BY <2>1
  <2>3. FlattenSeq(s) = (s[1] \o s[2]) \o s[3]
    BY <2>2, FlattenThree
  <2> QED BY Zenon, <2>1, <2>2, <2>3
<1>2. FlattenSeq([k \in DOMAIN ps |-> TextOf(ps[k])]) = (TextOf(ps[1]) \o TextOf(ps[2])) \o TextOf(ps[3])
  <2>1. PICK s : s = [k \in DOMAIN ps |-> TextOf(ps[k])]
    OBVIOUS
  <2>2. Len(s) = 3 /\ s[1] = TextOf(ps[1]) /\ s[2] = TextOf(ps[2]) /\ s[3] = TextOf(ps[3])
    BY <2>1
  <2>3. FlattenSeq(s) = (s[1] \o s[2]) \o s[3]
    BY <2>2, FlattenThree
  <2> QED BY Zenon, <2>1, <2>2, <2>3
<1>3. FlattenSeq([k \in DOMAIN ps |-> ThoughtOf(ps[k])]) = (ThoughtOf(ps[1]) \o ThoughtOf(ps[2])) \o ThoughtOf(ps[3])
  <2>1. PICK s : s = [k \in DOMAIN ps |-> ThoughtOf(ps[k])]
    OBVIOUS
  <2>2. Len(s) = 3 /\ s[1] = ThoughtOf(ps[1]) /\ s[2] = ThoughtOf(ps[2]) /\ s[3] = ThoughtOf(ps[3])
    BY <2>1
  <2>3. FlattenSeq(s) = (s[1] \o s[2]) \o s[3]
    BY <2>2, FlattenThree
  <2> QED BY Zenon, <2>1, <2>2, <2>3
<1> QED BY <1>1, <1>2, <1>3, OfComposite

WholeAnswers == [reasoning : Seq(STRING), text : Seq(STRING), audio : BOOLEAN,
             calls : Seq([id : STRING \ {NoId}, name : STRING \ {""}, args : Seq(STRING)])]
DetailsOf(a) == [k \in DOMAIN a.calls |-> DetailOf(a.calls[k])]

(* A content holds these calls, this text and this reasoning. *)
Holds(c, calls, text, thought) == CallsOf(c) = calls /\ TextIn(c) = text /\ ReasoningIn(c) = thought

(* What is in a content that is not a composite. *)
LEMMA OfOne ==
  /\ \A x : Holds(Text(x), <<>>, x, <<>>) /\ Holds(Reasoning(x), <<>>, <<>>, x) /\ Holds(ToolCalls(x), x, <<>>, <<>>)
  /\ Holds(Absent, <<>>, <<>>, <<>>) /\ \A k : Holds(Media(k), <<>>, <<>>, <<>>)
BY DEF Holds, Text, Reasoning, ToolCalls, Absent, Media, CallsOf, TextIn, ReasoningIn

(* What is in each kind of part. *)
LEMMA OfParts ==
  /\ \A x : CallsIn(Text(x)) = <<>> /\ TextOf(Text(x)) = x /\ ThoughtOf(Text(x)) = <<>>
  /\ \A x : CallsIn(Reasoning(x)) = <<>> /\ TextOf(Reasoning(x)) = <<>> /\ ThoughtOf(Reasoning(x)) = x
  /\ \A x : CallsIn(ToolCalls(x)) = x /\ TextOf(ToolCalls(x)) = <<>> /\ ThoughtOf(ToolCalls(x)) = <<>>
BY DEF Text, Reasoning, ToolCalls, CallsIn, TextOf, ThoughtOf

(* Composites of a thought, a text and calls. *)
LEMMA OfMany ==
  ASSUME NEW S, NEW calls \in Seq(S), NEW T, NEW text \in Seq(T), NEW thought \in Seq(T), NEW p
  PROVE  /\ Two(p, Reasoning(thought), Text(text)) => Holds(Composite(p), <<>>, text, thought)
         /\ Two(p, Reasoning(thought), ToolCalls(calls)) => Holds(Composite(p), calls, <<>>, thought)
         /\ Two(p, Text(text), ToolCalls(calls)) => Holds(Composite(p), calls, text, <<>>)
         /\ Three(p, Reasoning(thought), Text(text), ToolCalls(calls)) => Holds(Composite(p), calls, text, thought)
<1>1. /\ calls \o <<>> = calls /\ <<>> \o calls = calls /\ text \o <<>> = text /\ <<>> \o text = text
      /\ thought \o <<>> = thought /\ <<>> \o thought = thought /\ <<>> \o <<>> = <<>>
  BY ConcatEmptySeq
<1>2. ASSUME Two(p, Reasoning(thought), Text(text)) PROVE Holds(Composite(p), <<>>, text, thought)
  <2>1. p[1] = Reasoning(thought) /\ p[2] = Text(text) /\ DOMAIN p = 1 .. 2
    BY <1>2 DEF Two
  <2>2. CallsOf(Composite(p)) = CallsIn(Reasoning(thought)) \o CallsIn(Text(text))
    BY <2>1, OfTwo
  <2>3. TextIn(Composite(p)) = TextOf(Reasoning(thought)) \o TextOf(Text(text))
    BY <2>1, OfTwo
  <2>4. ReasoningIn(Composite(p)) = ThoughtOf(Reasoning(thought)) \o ThoughtOf(Text(text))
    BY <2>1, OfTwo
  <2>5. CallsOf(Composite(p)) = <<>> /\ TextIn(Composite(p)) = text /\ ReasoningIn(Composite(p)) = thought
    BY Zenon, <1>1, <2>2, <2>3, <2>4, OfParts
  <2> QED BY Zenon, <2>5 DEF Holds
<1>3. ASSUME Two(p, Reasoning(thought), ToolCalls(calls)) PROVE Holds(Composite(p), calls, <<>>, thought)
  <2>1. p[1] = Reasoning(thought) /\ p[2] = ToolCalls(calls) /\ DOMAIN p = 1 .. 2
    BY <1>3 DEF Two
  <2>2. CallsOf(Composite(p)) = CallsIn(Reasoning(thought)) \o CallsIn(ToolCalls(calls))
    BY <2>1, OfTwo
  <2>3. TextIn(Composite(p)) = TextOf(Reasoning(thought)) \o TextOf(ToolCalls(calls))
    BY <2>1, OfTwo
  <2>4. ReasoningIn(Composite(p)) = ThoughtOf(Reasoning(thought)) \o ThoughtOf(ToolCalls(calls))
    BY <2>1, OfTwo
  <2>5. CallsOf(Composite(p)) = calls /\ TextIn(Composite(p)) = <<>> /\ ReasoningIn(Composite(p)) = thought
    BY Zenon, <1>1, <2>2, <2>3, <2>4, OfParts
  <2> QED BY Zenon, <2>5 DEF Holds
<1>4. ASSUME Two(p, Text(text), ToolCalls(calls)) PROVE Holds(Composite(p), calls, text, <<>>)
  <2>1. p[1] = Text(text) /\ p[2] = ToolCalls(calls) /\ DOMAIN p = 1 .. 2
    BY <1>4 DEF Two
  <2>2. CallsOf(Composite(p)) = CallsIn(Text(text)) \o CallsIn(ToolCalls(calls))
    BY <2>1, OfTwo
  <2>3. TextIn(Composite(p)) = TextOf(Text(text)) \o TextOf(ToolCalls(calls))
    BY <2>1, OfTwo
  <2>4. ReasoningIn(Composite(p)) = ThoughtOf(Text(text)) \o ThoughtOf(ToolCalls(calls))
    BY <2>1, OfTwo
  <2>5. CallsOf(Composite(p)) = calls /\ TextIn(Composite(p)) = text /\ ReasoningIn(Composite(p)) = <<>>
    BY Zenon, <1>1, <2>2, <2>3, <2>4, OfParts
  <2> QED BY Zenon, <2>5 DEF Holds
<1>5. ASSUME Three(p, Reasoning(thought), Text(text), ToolCalls(calls)) PROVE Holds(Composite(p), calls, text, thought)
  <2>1. p[1] = Reasoning(thought) /\ p[2] = Text(text) /\ p[3] = ToolCalls(calls) /\ DOMAIN p = 1 .. 3
    BY <1>5 DEF Three
  <2>2. CallsOf(Composite(p)) = (CallsIn(Reasoning(thought)) \o CallsIn(Text(text))) \o CallsIn(ToolCalls(calls))
    BY <2>1, OfThree
  <2>3. TextIn(Composite(p)) = (TextOf(Reasoning(thought)) \o TextOf(Text(text))) \o TextOf(ToolCalls(calls))
    BY <2>1, OfThree
  <2>4. ReasoningIn(Composite(p)) = (ThoughtOf(Reasoning(thought)) \o ThoughtOf(Text(text))) \o ThoughtOf(ToolCalls(calls))
    BY <2>1, OfThree
  <2>5. CallsOf(Composite(p)) = calls /\ TextIn(Composite(p)) = text /\ ReasoningIn(Composite(p)) = thought
    BY Zenon, <1>1, <2>2, <2>3, <2>4, OfParts
  <2> QED BY Zenon, <2>5 DEF Holds
<1> QED BY <1>2, <1>3, <1>4, <1>5

(* A content of these parts, one or more, holds the calls, the text and the *)
(* reasoning that they were made of.                                        *)
Gathered(parts, calls, text, thought) ==
    /\ Len(parts) > 1 => Holds(Composite(parts), calls, text, thought)
    /\ Len(parts) = 1 => Holds(parts[1], calls, text, thought)
    /\ Len(parts) = 0 <=> (thought = <<>> /\ text = <<>> /\ calls = <<>>)
    /\ Len(parts) \in Nat

(* More than one part, all of them in a composite. *)
LEMMA GatheredMany ==
  ASSUME NEW parts, NEW calls, NEW text, NEW thought, Len(parts) \in Nat, Len(parts) > 1,
         Holds(Composite(parts), calls, text, thought), ~(thought = <<>> /\ text = <<>> /\ calls = <<>>)
  PROVE  Gathered(parts, calls, text, thought)
<1>1. PICK n \in Nat : n = Len(parts)
  OBVIOUS
<1>2. n # 1 /\ n # 0
  BY <1>1
<1> QED BY Zenon, <1>1, <1>2 DEF Gathered

(* One part, which is the content. *)
LEMMA GatheredOne ==
  ASSUME NEW parts, NEW calls, NEW text, NEW thought, Len(parts) = 1,
         Holds(parts[1], calls, text, thought), ~(thought = <<>> /\ text = <<>> /\ calls = <<>>)
  PROVE  Gathered(parts, calls, text, thought)
<1>1. 1 \in Nat /\ ~(1 > 1) /\ 1 # 0
  OBVIOUS
<1> QED BY Zenon, <1>1 DEF Gathered

(* No part, and nothing to hold. *)
LEMMA GatheredNone ==
  ASSUME NEW parts, NEW calls, NEW text, NEW thought, Len(parts) = 0, thought = <<>>, text = <<>>, calls = <<>>
  PROVE  Gathered(parts, calls, text, thought)
<1>1. 0 \in Nat /\ ~(0 > 1) /\ 0 # 1
  OBVIOUS
<1> QED BY Zenon, <1>1 DEF Gathered

Parts(thought, text, calls) ==
    ((IF thought # <<>> THEN <<Reasoning(thought)>> ELSE <<>>) \o (IF text # <<>> THEN <<Text(text)>> ELSE <<>>))
      \o (IF calls # <<>> THEN <<ToolCalls(calls)>> ELSE <<>>)

(* The parts that ParseResponse and an answer are made of hold what they were made of. *)
LEMMA PartsHold ==
  ASSUME NEW S, NEW calls \in Seq(S), NEW T, NEW text \in Seq(T), NEW thought \in Seq(T)
  PROVE  Gathered(Parts(thought, text, calls), calls, text, thought)
<1>1. PICK t, s, c : t = Reasoning(thought) /\ s = Text(text) /\ c = ToolCalls(calls)
  OBVIOUS
<1>2. PICK thoughts : thoughts = IF thought # <<>> THEN <<t>> ELSE <<>>
  OBVIOUS
<1>3. PICK said : said = IF text # <<>> THEN <<s>> ELSE <<>>
  OBVIOUS
<1>4. PICK made : made = IF calls # <<>> THEN <<c>> ELSE <<>>
  OBVIOUS
<1>5. PICK parts : parts = (thoughts \o said) \o made
  OBVIOUS
<1>6. Parts(thought, text, calls) = parts
  BY Zenon, <1>1, <1>2, <1>3, <1>4, <1>5 DEF Parts
<1>7. ASSUME NEW x PROVE <<x>> \o <<>> = <<x>> /\ <<>> \o <<x>> = <<x>>
  <2>1. PICK U, r : U = {x} /\ r = <<x>>
    OBVIOUS
  <2>2. r \in Seq(U)
    BY <2>1
  <2>3. r \o <<>> = r /\ <<>> \o r = r
    BY <2>2, ConcatEmptySeq
  <2> QED BY Zenon, <2>1, <2>3
<1>8. <<>> \o <<>> = <<>>
  OBVIOUS
<1>9. Len(<<>>) = 0
  OBVIOUS
<1>10. (<<t>> \o <<s>>) \o <<>> = <<t>> \o <<s>>
  <2>1. PICK p, q, r, U : p = <<t>> /\ q = <<s>> /\ r = p \o q /\ U = {t, s}
    OBVIOUS
  <2>2. p \in Seq(U) /\ q \in Seq(U)
    BY <2>1
  <2>3. r \in Seq(U)
    BY <2>1, <2>2, ConcatProperties
  <2>4. r \o <<>> = r
    BY <2>3, ConcatEmptySeq
  <2> QED BY Zenon, <2>1, <2>4
<1>11. CASE thought # <<>> /\ text # <<>> /\ calls # <<>>
  <2>1. thoughts = <<t>> /\ said = <<s>> /\ made = <<c>>
    BY Zenon, <1>11, <1>2, <1>3, <1>4
  <2>2. Three(parts, t, s, c)
    BY Zenon, <2>1, <1>5, JoinThree
  <2>3. Len(parts) \in Nat /\ Len(parts) > 1
    BY <2>2 DEF Three
  <2>4. Holds(Composite(parts), calls, text, thought)
    BY Zenon, <2>2, <1>1, OfMany
  <2> QED BY Zenon, <2>3, <2>4, <1>11, <1>6, GatheredMany
<1>12. CASE thought # <<>> /\ text # <<>> /\ calls = <<>>
  <2>1. thoughts = <<t>> /\ said = <<s>> /\ made = <<>>
    BY Zenon, <1>12, <1>2, <1>3, <1>4
  <2>2. parts = <<t>> \o <<s>>
    BY Zenon, <2>1, <1>5, <1>7, <1>8, <1>10
  <2>3. Two(parts, t, s)
    BY Zenon, <2>2, JoinTwo
  <2>4. Len(parts) \in Nat /\ Len(parts) > 1
    BY <2>3 DEF Two
  <2>5. Holds(Composite(parts), <<>>, text, thought)
    BY Zenon, <2>3, <1>1, OfMany
  <2> QED BY Zenon, <2>4, <2>5, <1>12, <1>6, GatheredMany
<1>13. CASE thought # <<>> /\ text = <<>> /\ calls # <<>>
  <2>1. thoughts = <<t>> /\ said = <<>> /\ made = <<c>>
    BY Zenon, <1>13, <1>2, <1>3, <1>4
  <2>2. parts = <<t>> \o <<c>>
    BY Zenon, <2>1, <1>5, <1>7, <1>8, <1>10
  <2>3. Two(parts, t, c)
    BY Zenon, <2>2, JoinTwo
  <2>4. Len(parts) \in Nat /\ Len(parts) > 1
    BY <2>3 DEF Two
  <2>5. Holds(Composite(parts), calls, <<>>, thought)
    BY Zenon, <2>3, <1>1, OfMany
  <2> QED BY Zenon, <2>4, <2>5, <1>13, <1>6, GatheredMany
<1>14. CASE thought # <<>> /\ text = <<>> /\ calls = <<>>
  <2>1. thoughts = <<t>> /\ said = <<>> /\ made = <<>>
    BY Zenon, <1>14, <1>2, <1>3, <1>4
  <2>2. parts = <<t>>
    BY Zenon, <2>1, <1>5, <1>7, <1>8
  <2>3. Len(parts) = 1 /\ parts[1] = t
    BY <2>2
  <2>4. Holds(t, <<>>, <<>>, thought)
    BY Zenon, <1>1, OfOne
  <2> QED BY Zenon, <2>3, <2>4, <1>14, <1>6, GatheredOne
<1>15. CASE thought = <<>> /\ text # <<>> /\ calls # <<>>
  <2>1. thoughts = <<>> /\ said = <<s>> /\ made = <<c>>
    BY Zenon, <1>15, <1>2, <1>3, <1>4
  <2>2. parts = <<s>> \o <<c>>
    BY Zenon, <2>1, <1>5, <1>7, <1>8, <1>10
  <2>3. Two(parts, s, c)
    BY Zenon, <2>2, JoinTwo
  <2>4. Len(parts) \in Nat /\ Len(parts) > 1
    BY <2>3 DEF Two
  <2>5. Holds(Composite(parts), calls, text, <<>>)
    BY Zenon, <2>3, <1>1, OfMany
  <2> QED BY Zenon, <2>4, <2>5, <1>15, <1>6, GatheredMany
<1>16. CASE thought = <<>> /\ text # <<>> /\ calls = <<>>
  <2>1. thoughts = <<>> /\ said = <<s>> /\ made = <<>>
    BY Zenon, <1>16, <1>2, <1>3, <1>4
  <2>2. parts = <<s>>
    BY Zenon, <2>1, <1>5, <1>7, <1>8
  <2>3. Len(parts) = 1 /\ parts[1] = s
    BY <2>2
  <2>4. Holds(s, <<>>, text, <<>>)
    BY Zenon, <1>1, OfOne
  <2> QED BY Zenon, <2>3, <2>4, <1>16, <1>6, GatheredOne
<1>17. CASE thought = <<>> /\ text = <<>> /\ calls # <<>>
  <2>1. thoughts = <<>> /\ said = <<>> /\ made = <<c>>
    BY Zenon, <1>17, <1>2, <1>3, <1>4
  <2>2. parts = <<c>>
    BY Zenon, <2>1, <1>5, <1>7, <1>8
  <2>3. Len(parts) = 1 /\ parts[1] = c
    BY <2>2
  <2>4. Holds(c, calls, <<>>, <<>>)
    BY Zenon, <1>1, OfOne
  <2> QED BY Zenon, <2>3, <2>4, <1>17, <1>6, GatheredOne
<1>18. CASE thought = <<>> /\ text = <<>> /\ calls = <<>>
  <2>1. thoughts = <<>> /\ said = <<>> /\ made = <<>>
    BY Zenon, <1>18, <1>2, <1>3, <1>4
  <2>2. parts = <<>>
    BY Zenon, <2>1, <1>5, <1>8
  <2>3. Len(parts) = 0
    BY Zenon, <2>2, <1>9
  <2> QED BY Zenon, <2>3, <1>18, <1>6, GatheredNone
<1> QED BY <1>11, <1>12, <1>13, <1>14, <1>15, <1>16, <1>17, <1>18

(* What Block makes of an answer holds its calls, its text and its reasoning *)
(* (but for the reasoning next to an audio answer).                          *)
LEMMA ParseResponseHolds ==
  ASSUME NEW a \in WholeAnswers
  PROVE  /\ CallsOf(ParseResponse(a)) = DetailsOf(a)
         /\ TextIn(ParseResponse(a)) = a.text
         /\ ~a.audio => ReasoningIn(ParseResponse(a)) = a.reasoning
<1>1. PICK calls, text, thought : calls = DetailsOf(a) /\ text = a.text /\ thought = a.reasoning
  OBVIOUS
<1>2. text \in Seq(STRING) /\ thought \in Seq(STRING) /\ a.audio \in BOOLEAN
  BY <1>1 DEF WholeAnswers
<1>3. PICK S : calls \in Seq(S)
  <2>1. PICK n \in Nat : DOMAIN a.calls = 1 .. n
    <3>1. PICK T : a.calls \in Seq(T)
      BY Zenon DEF WholeAnswers
    <3> QED BY <3>1
  <2>2. calls = [k \in 1 .. n |-> calls[k]]
    BY <1>1, <2>1 DEF DetailsOf
  <2>3. PICK S : S = {calls[k] : k \in 1 .. n}
    OBVIOUS
  <2>4. \A k \in 1 .. n : calls[k] \in S
    BY <2>3
  <2>5. calls \in Seq(S)
    BY <2>1, <2>2, <2>4
  <2> QED BY <2>5
<1>4. PICK t, s, c : t = Reasoning(thought) /\ s = Text(text) /\ c = ToolCalls(calls)
  OBVIOUS
<1>5. LET thoughts == IF thought # <<>> THEN <<t>> ELSE <<>>
          said == IF text # <<>> THEN <<s>> ELSE <<>>
          parts == thoughts \o said \o (IF calls # <<>> THEN <<c>> ELSE <<>>)
      IN ParseResponse(a) =
        CASE calls # <<>> \/ said # <<>> -> IF Len(parts) > 1 THEN Composite(parts) ELSE parts[1]
          [] calls = <<>> /\ said = <<>> /\ a.audio -> Media("audio")
          [] calls = <<>> /\ said = <<>> /\ ~a.audio /\ thoughts # <<>> -> parts[1]
          [] OTHER -> Absent
  BY <1>1, <1>4 DEF ParseResponse, DetailsOf
<1>6. PICK made : made = IF calls # <<>> THEN <<c>> ELSE <<>>
  OBVIOUS
<1>7. PICK thoughts : thoughts = IF thought # <<>> THEN <<t>> ELSE <<>>
  OBVIOUS
<1>8. PICK said : said = IF text # <<>> THEN <<s>> ELSE <<>>
  OBVIOUS
<1>9. PICK parts : parts = (thoughts \o said) \o made
  OBVIOUS
<1>10. Gathered(parts, calls, text, thought)
  <2>1. parts = Parts(thought, text, calls)
    BY Zenon, <1>4, <1>6, <1>7, <1>8, <1>9 DEF Parts
  <2> QED BY Zenon, <2>1, <1>2, <1>3, PartsHold
<1>11. ParseResponse(a) =
        CASE calls # <<>> \/ said # <<>> -> IF Len(parts) > 1 THEN Composite(parts) ELSE parts[1]
          [] calls = <<>> /\ said = <<>> /\ a.audio -> Media("audio")
          [] calls = <<>> /\ said = <<>> /\ ~a.audio /\ thoughts # <<>> -> parts[1]
          [] OTHER -> Absent
  BY Zenon, <1>5, <1>6, <1>7, <1>8, <1>9
<1>12. /\ (said = <<>> <=> text = <<>>) /\ (thoughts = <<>> <=> thought = <<>>)
       /\ \A x : <<x>> # <<>>
  BY <1>7, <1>8
<1>13. CASE calls # <<>> \/ text # <<>>
  <2>1. ParseResponse(a) = IF Len(parts) > 1 THEN Composite(parts) ELSE parts[1]
    BY <1>11, <1>12, <1>13
  <2>2. Len(parts) > 1 \/ Len(parts) = 1
    <3>1. PICK n \in Nat : n = Len(parts)
      BY <1>10 DEF Gathered
    <3>2. n # 0
      BY Zenon, <1>10, <1>13, <3>1 DEF Gathered
    <3>3. n > 1 \/ n = 1
      BY <3>2
    <3> QED BY Zenon, <3>1, <3>3
  <2>3. Holds(ParseResponse(a), calls, text, thought)
    BY <1>10, <2>1, <2>2 DEF Gathered
  <2> QED BY Zenon, <2>3, <1>1 DEF Holds
<1>14. CASE calls = <<>> /\ text = <<>> /\ thought # <<>> /\ ~a.audio
  <2>1. ParseResponse(a) = parts[1]
    BY <1>11, <1>12, <1>14
  <2>2. parts = <<t>>
    <3>1. made = <<>> /\ said = <<>> /\ thoughts = <<t>>
      BY Zenon, <1>6, <1>7, <1>8, <1>14
    <3>2. PICK U, r : U = {t} /\ r = <<t>>
      OBVIOUS
    <3>3. r \in Seq(U)
      BY <3>2
    <3>4. r \o <<>> = r
      BY <3>3, ConcatEmptySeq
    <3> QED BY Zenon, <1>9, <3>1, <3>2, <3>4
  <2>3. Len(parts) = 1
    BY <2>2
  <2>4. Holds(ParseResponse(a), calls, text, thought)
    BY <1>10, <2>1, <2>3 DEF Gathered
  <2> QED BY Zenon, <2>4, <1>1 DEF Holds
<1>15. CASE calls = <<>> /\ text = <<>> /\ (thought = <<>> \/ a.audio)
  <2>1. ParseResponse(a) = IF a.audio THEN Media("audio") ELSE Absent
    BY <1>2, <1>11, <1>12, <1>15
  <2>2. Holds(ParseResponse(a), <<>>, <<>>, <<>>)
    BY <2>1, OfOne
  <2> QED BY Zenon, <2>2, <1>1, <1>15 DEF Holds
<1> QED BY <1>13, <1>14, <1>15

-----------------------------------------------------------------------------
(* The stream. *)

Fragments == Seq(STRING)
Entries == [name : STRING \cup {""}, args : Fragments]

(* What is open while an answer arrives, and what of it is there already.   *)
Arriving ==
    /\ answer \in Answers /\ ~answer.audio
    /\ left \in [reasoning : Fragments, text : Fragments, audio : BOOLEAN,
                 calls : [DOMAIN answer.calls -> [opened : BOOLEAN, id : BOOLEAN, args : Fragments]]]
    /\ got \in [text : Fragments, reasoning : Fragments, accum : {got.accum}, index : {got.index}]
    /\ got.accum \in [DOMAIN got.accum -> Entries]

(* Text and reasoning: what came and what is left are the whole.            *)
Continued ==
    "mixed" \notin odd => got.text \o left.text = answer.text /\ got.reasoning \o left.reasoning = answer.reasoning

(* A call has an entry and an index when its id has come, and not before.   *)
Known(k) ==
    LET a == answer.calls[k]
    IN IF left.calls[k].id THEN a.id \in DOMAIN got.accum /\ k \in DOMAIN got.index /\ got.index[k] = a.id
       ELSE a.id \notin DOMAIN got.accum /\ k \notin DOMAIN got.index

(* A call that is not open is not begun; one that is and came in order has  *)
(* its name, and its arguments are those that came and those that are left. *)
Begun(k) ==
    LET c == left.calls[k]
        a == answer.calls[k]
    IN /\ ~c.opened => ~c.id /\ c.args = a.args
       /\ "late" \notin odd => (c.opened => c.id)
       /\ "late" \notin odd /\ c.id => got.accum[a.id].name = a.name /\ got.accum[a.id].args \o c.args = a.args

(* The accumulator holds calls of the answer only.                          *)
Own == \A id \in DOMAIN got.accum : \E k \in DOMAIN answer.calls : id = answer.calls[k].id

(* Announced were the calls that have a name, each once.                    *)
Told ==
    /\ announced \in Seq(STRING) /\ IsInjective(announced)
    /\ ToSet(announced) = NamedCalls(got)

(* The inductive invariant. *)
Streaming == Arriving /\ Continued /\ (\A k \in DOMAIN answer.calls : Known(k) /\ Begun(k)) /\ Own /\ Told
StreamInv ==
    /\ callAt \in {"idle", "streaming", "done", "failed"}
    /\ callAt = "idle" => got = Nothing /\ announced = <<>> /\ odd = {}
    /\ callAt = "streaming" => Streaming
    /\ callAt \in {"done", "failed"} => StreamWhole

(* Fragments that are cut in two and put together again.                    *)
LEMMA PutTogether ==
  ASSUME NEW g \in Fragments, NEW s \in Fragments, NEW n \in Nat, n <= Len(s)
  PROVE  /\ SubSeq(s, 1, n) \in Fragments /\ SubSeq(s, n + 1, Len(s)) \in Fragments
         /\ g \o SubSeq(s, 1, n) \in Fragments
         /\ (g \o SubSeq(s, 1, n)) \o SubSeq(s, n + 1, Len(s)) = g \o s
<1>1. SubSeq(s, 1, n) \in Fragments
  BY SubSeqProperties DEF Fragments
<1>2. SubSeq(s, n + 1, Len(s)) \in Fragments
  BY SubSeqProperties DEF Fragments
<1>3. SubSeq(s, 1, n) \o SubSeq(s, n + 1, Len(s)) = s
  <2>1. Len(s) \in Nat
    BY DEF Fragments
  <2>2. 1 \in 1 .. Len(s) + 1 /\ n \in 1 - 1 .. Len(s) /\ Len(s) \in n .. Len(s)
    BY <2>1
  <2>3. SubSeq(s, 1, n) \o SubSeq(s, n + 1, Len(s)) = SubSeq(s, 1, Len(s))
    BY <2>2, ConcatAdjacentSubSeq DEF Fragments
  <2> QED BY <2>3, SubSeqFull DEF Fragments
<1>4. (g \o SubSeq(s, 1, n)) \o SubSeq(s, n + 1, Len(s)) = g \o (SubSeq(s, 1, n) \o SubSeq(s, n + 1, Len(s)))
  <2>1. \A p, r \in Seq(STRING) : (g \o p) \o r = g \o (p \o r)
    <3> TAKE p, r \in Seq(STRING)
    <3>1. g \in Seq(STRING)
      BY DEF Fragments
    <3> QED BY <3>1, ConcatAssociative
  <2> QED BY Zenon, <1>1, <1>2, <2>1 DEF Fragments
<1>5. g \o SubSeq(s, 1, n) \in Fragments
  BY <1>1, ConcatProperties DEF Fragments
<1> QED BY <1>1, <1>2, <1>3, <1>4, <1>5

(* A listing of a finite set has each of its members once.                  *)
LEMMA ListingOf ==
  ASSUME NEW S, IsFiniteSet(S), NEW s \in SetToSeqs(S)
  PROVE  /\ Len(s) = Cardinality(S) /\ DOMAIN s = 1 .. Len(s) /\ s \in Seq(S)
         /\ ToSet(s) = S /\ IsInjective(s)
<1>1. PICK n \in Nat : n = Cardinality(S)
  BY FS_CardinalityType
<1>2. s \in [1 .. n -> S] /\ \A i, j \in 1 .. n : i # j => s[i] # s[j]
  BY <1>1 DEF SetToSeqs
<1>3. Len(s) = n /\ DOMAIN s = 1 .. n /\ s \in Seq(S)
  BY <1>2
<1>4. IsInjective(s)
  BY <1>2, <1>3 DEF IsInjective
<1>5. s \in Injection(1 .. n, S)
  BY <1>2, <1>4 DEF Injection
<1>6. Cardinality(1 .. n) = n
  BY FS_Interval
<1>7. s \in Surjection(1 .. n, S)
  BY <1>1, <1>5, <1>6, FS_Injection
<1>8. ToSet(s) = S
  BY <1>2, <1>3, <1>7 DEF Surjection, ToSet
<1> QED BY <1>1, <1>3, <1>4, <1>8

(* What Stream makes of what it put together holds its calls and its        *)
(* reasoning, and its text when there are no calls.                         *)
LEMMA BuildHolds ==
  ASSUME NEW g, g.text \in Fragments, g.reasoning \in Fragments, NEW S, NEW calls \in Seq(S)
  PROVE  Holds(BuildStreamContent(g, calls), calls, IF calls = <<>> THEN g.text ELSE <<>>, g.reasoning)
<1>1. PICK text, thought : text = g.text /\ thought = g.reasoning
  OBVIOUS
<1>2. text \in Seq(STRING) /\ thought \in Seq(STRING)
  BY <1>1 DEF Fragments
<1>3. \A a, b : Two(<<a, b>>, a, b)
  BY DEF Two
<1>4. BuildStreamContent(g, calls) =
        CASE calls # <<>> /\ thought # <<>> -> Composite(<<Reasoning(thought), ToolCalls(calls)>>)
          [] calls # <<>> /\ ~(thought # <<>>) -> ToolCalls(calls)
          [] calls = <<>> /\ thought # <<>> /\ text # <<>> -> Composite(<<Reasoning(thought), Text(text)>>)
          [] calls = <<>> /\ thought # <<>> /\ text = <<>> -> Reasoning(thought)
          [] OTHER -> Text(text)
  BY <1>1 DEF BuildStreamContent
<1>5. CASE calls # <<>> /\ thought # <<>>
  <2>1. BuildStreamContent(g, calls) = Composite(<<Reasoning(thought), ToolCalls(calls)>>)
    BY <1>4, <1>5
  <2>2. Holds(Composite(<<Reasoning(thought), ToolCalls(calls)>>), calls, <<>>, thought)
    BY Zenon, <1>2, <1>3, OfMany
  <2> QED BY Zenon, <2>1, <2>2, <1>1, <1>5
<1>6. CASE calls # <<>> /\ thought = <<>>
  <2>1. BuildStreamContent(g, calls) = ToolCalls(calls)
    BY <1>4, <1>6
  <2>2. Holds(ToolCalls(calls), calls, <<>>, <<>>)
    BY Zenon, OfOne
  <2> QED BY Zenon, <2>1, <2>2, <1>1, <1>6
<1>7. CASE calls = <<>> /\ thought # <<>> /\ text # <<>>
  <2>1. BuildStreamContent(g, calls) = Composite(<<Reasoning(thought), Text(text)>>)
    BY <1>4, <1>7
  <2>2. Holds(Composite(<<Reasoning(thought), Text(text)>>), <<>>, text, thought)
    BY Zenon, <1>2, <1>3, OfMany
  <2> QED BY Zenon, <2>1, <2>2, <1>1, <1>7
<1>8. CASE calls = <<>> /\ thought # <<>> /\ text = <<>>
  <2>1. BuildStreamContent(g, calls) = Reasoning(thought)
    BY <1>4, <1>8
  <2>2. Holds(Reasoning(thought), <<>>, <<>>, thought)
    BY Zenon, OfOne
  <2> QED BY Zenon, <2>1, <2>2, <1>1, <1>8
<1>9. CASE calls = <<>> /\ thought = <<>>
  <2>1. BuildStreamContent(g, calls) = Text(text)
    BY <1>4, <1>9
  <2>2. Holds(Text(text), <<>>, text, <<>>)
    BY Zenon, OfOne
  <2> QED BY Zenon, <2>1, <2>2, <1>1, <1>9
<1> QED BY <1>5, <1>6, <1>7, <1>8, <1>9

(* The bracket that closes an object comes last.                            *)
ClosesLast(s) == \A k \in DOMAIN s : s[k] = "}" => k = Len(s)

(* Arguments that were cut are no arguments.                                *)
LEMMA PrefixParsed ==
  ASSUME NEW raw \in Fragments, NEW rest \in Fragments, ClosesLast(raw \o rest)
  PROVE  ArgsParsed(raw) \in {ArgsParsed(raw \o rest), NoArgs}
<1>1. PICK whole : whole = raw \o rest
  OBVIOUS
<1>2. /\ whole \in Seq(STRING) /\ Len(whole) = Len(raw) + Len(rest) /\ DOMAIN whole = 1 .. Len(whole)
      /\ \A k \in 1 .. Len(raw) : whole[k] = raw[k]
  <2>1. raw \in Seq(STRING) /\ rest \in Seq(STRING)
    BY DEF Fragments
  <2>2. whole \in Seq(STRING) /\ Len(whole) = Len(raw) + Len(rest)
    BY <1>1, <2>1, ConcatProperties
  <2>3. \A k \in 1 .. Len(raw) + Len(rest) : whole[k] = IF k <= Len(raw) THEN raw[k] ELSE rest[k - Len(raw)]
    BY Zenon, <1>1, <2>1, ConcatProperties
  <2>4. Len(raw) \in Nat /\ Len(rest) \in Nat
    BY <2>1
  <2> QED BY <2>2, <2>3, <2>4
<1>3. ASSUME ArgsParsed(raw) # NoArgs PROVE rest = <<>>
  <2>1. raw # <<>> /\ raw[Len(raw)] = "}"
    BY <1>3 DEF ArgsParsed, Last
  <2>2. raw \in Seq(STRING) /\ rest \in Seq(STRING)
    BY DEF Fragments
  <2>5. Len(raw) # 0
    BY <2>1, <2>2, EmptySeq
  <2>6. Len(raw) \in Nat /\ Len(rest) \in Nat /\ Len(raw) # 0
    BY <2>2, <2>5
  <2>3. Len(raw) \in DOMAIN whole /\ whole[Len(raw)] = "}"
    <3>1. PICK n \in Nat : n = Len(raw) /\ n # 0 /\ raw[n] = "}"
      BY <2>1, <2>6
    <3>2. n \in 1 .. Len(raw) /\ n \in 1 .. Len(whole)
      <4>1. PICK l, m \in Nat : l = Len(rest) /\ m = Len(whole)
        BY <2>6, <1>2
      <4>2. m = n + l
        BY Zenon, <1>2, <3>1, <4>1
      <4>3. n \in 1 .. n /\ n \in 1 .. n + l
        <5>1. n # 0
          BY <3>1
        <5> QED BY <5>1
      <4> QED BY Zenon, <4>1, <4>2, <4>3, <3>1
    <3>3. whole[n] = raw[n] /\ n \in DOMAIN whole
      BY <3>2, <1>2
    <3> QED BY <3>1, <3>3
  <2>4. Len(raw) = Len(whole)
    BY <2>3, <1>1 DEF ClosesLast
  <2> QED BY <2>2, <2>4, <2>6, <1>2
<1>4. ASSUME rest = <<>> PROVE raw \o rest = raw
  BY <1>4, ConcatEmptySeq DEF Fragments
<1> QED BY <1>3, <1>4

(* What is known of an answer. *)
LEMMA AnswerIs ==
  ASSUME NEW a \in Answers
  PROVE  /\ a \in WholeAnswers /\ DOMAIN a.calls = 1 .. Len(a.calls) /\ Len(a.calls) \in Nat
         /\ \A k \in DOMAIN a.calls : /\ a.calls[k] \in [id : STRING \ {NoId}, name : STRING \ {""}, args : Fragments]
                                      /\ ClosesLast(a.calls[k].args)
         /\ \A i, j \in DOMAIN a.calls : a.calls[i].id = a.calls[j].id => i = j
<1>1. a \in WholeAnswers
  BY AnswersAssumption DEF WholeAnswers
<1>2. a.calls \in Seq([id : STRING \ {NoId}, name : STRING \ {""}, args : Seq(STRING)])
  BY <1>1 DEF WholeAnswers
<1> DEFINE T == [id : STRING \ {NoId}, name : STRING \ {""}, args : Seq(STRING)]
<1>7. ASSUME NEW S, NEW s \in Seq(S) PROVE DOMAIN s = 1 .. Len(s) /\ Len(s) \in Nat /\ \A k \in DOMAIN s : s[k] \in S
  BY <1>7
<1>3. DOMAIN a.calls = 1 .. Len(a.calls) /\ Len(a.calls) \in Nat
  BY Zenon, <1>2, <1>7
<1>4. \A k \in DOMAIN a.calls : a.calls[k] \in [id : STRING \ {NoId}, name : STRING \ {""}, args : Seq(STRING)]
  BY Zenon, <1>2, <1>7
<1>5. \A k \in DOMAIN a.calls : ClosesLast(a.calls[k].args)
  BY Zenon, AnswersAssumption DEF ClosesLast
<1>6. \A i, j \in DOMAIN a.calls : a.calls[i].id = a.calls[j].id => i = j
  BY Zenon, AnswersAssumption
<1> QED BY <1>1, <1>3, <1>4, <1>5, <1>6 DEF Fragments

(* Block announces the calls of the answer that it returns.                 *)
LEMMA BlockWhole ==
  ASSUME StreamInv, Block
  PROVE  StreamInv'
<1>1. PICK a \in Answers : /\ answer' = a /\ result' = ParseResponse(a)
                           /\ callAt' = IF result' = Absent THEN "failed" ELSE "done"
                           /\ announced' = [k \in DOMAIN CallsOf(result') |-> CallsOf(result')[k].id]
  BY DEF Block
<1>2. CallsOf(result') = DetailsOf(a)
  BY Zenon, <1>1, AnswerIs, ParseResponseHolds
<1>3. announced' = [k \in DOMAIN a.calls |-> a.calls[k].id]
  <2>1. DOMAIN DetailsOf(a) = DOMAIN a.calls /\ \A k \in DOMAIN a.calls : DetailsOf(a)[k] = DetailOf(a.calls[k])
    BY DEF DetailsOf
  <2>2. \A k \in DOMAIN a.calls : DetailsOf(a)[k].id = a.calls[k].id
    <3> TAKE k \in DOMAIN a.calls
    <3>1. DetailsOf(a)[k] = DetailOf(a.calls[k])
      BY Zenon, <2>1
    <3>2. \A c : DetailOf(c).id = c.id
      BY DEF DetailOf
    <3> QED BY Zenon, <3>1, <3>2
  <2> QED BY <1>1, <1>2, <2>1, <2>2
<1>4. IsInjective(announced')
  BY <1>3, AnswerIs DEF IsInjective
<1>5. ToSet(CallsOf(result')) = {DetailOf(a.calls[k]) : k \in DOMAIN a.calls}
  BY <1>2 DEF ToSet, DetailsOf
<1>6. ToSet(announced') = {d.id : d \in ToSet(CallsOf(result'))}
  <2>1. \A c : DetailOf(c).id = c.id
    BY DEF DetailOf
  <2>2. ToSet(announced') = {a.calls[k].id : k \in DOMAIN a.calls}
    BY <1>3 DEF ToSet
  <2> QED BY <1>5, <2>1, <2>2
<1>7. StreamSameAsBlock'
  BY <1>1 DEF StreamSameAsBlock
<1>8. AnnouncedOnce'
  BY <1>4, <1>6 DEF AnnouncedOnce
<1>9. ArgsOwnOrNone'
  BY <1>1, <1>5 DEF ArgsOwnOrNone, ToSet, DetailOf
<1>10. callAt' \in {"done", "failed"}
  BY <1>1
<1> QED BY <1>7, <1>8, <1>9, <1>10 DEF StreamInv, StreamWhole

(* A stream begins with everything left. *)
LEMMA OpenArrives ==
  ASSUME StreamInv, StreamOpen
  PROVE  StreamInv'
<1>1. PICK a \in Answers :
        /\ ~a.audio /\ answer' = a
        /\ left' = [a EXCEPT !.calls = [k \in DOMAIN a.calls |-> [opened |-> FALSE, id |-> FALSE, args |-> a.calls[k].args]]]
  BY DEF StreamOpen
<1>2. /\ got' = Nothing /\ announced' = <<>> /\ odd' = {} /\ callAt' = "streaming"
  BY DEF StreamOpen, StreamInv
<1>3. /\ a \in WholeAnswers
      /\ \A k \in DOMAIN a.calls : a.calls[k] \in [id : STRING \ {NoId}, name : STRING \ {""}, args : Fragments]
  BY AnswerIs
<1>4. /\ left'.text = a.text /\ left'.reasoning = a.reasoning
      /\ left'.calls = [k \in DOMAIN a.calls |-> [opened |-> FALSE, id |-> FALSE, args |-> a.calls[k].args]]
  BY <1>1, <1>3 DEF WholeAnswers
<1>5. /\ got'.text = <<>> /\ got'.reasoning = <<>> /\ DOMAIN got'.accum = {} /\ DOMAIN got'.index = {}
      /\ got'.accum \in [{} -> Entries]
  BY <1>2 DEF Nothing
<1>6. Arriving'
  <2>1. a.text \in Fragments /\ a.reasoning \in Fragments /\ a.audio \in BOOLEAN
    BY <1>3 DEF WholeAnswers, Fragments
  <2>2. [k \in DOMAIN a.calls |-> [opened |-> FALSE, id |-> FALSE, args |-> a.calls[k].args]]
          \in [DOMAIN a.calls -> [opened : BOOLEAN, id : BOOLEAN, args : Fragments]]
    BY <1>3
  <2>3. left' \in [reasoning : Fragments, text : Fragments, audio : BOOLEAN,
                   calls : [DOMAIN a.calls -> [opened : BOOLEAN, id : BOOLEAN, args : Fragments]]]
    BY <1>1, <1>3, <2>1, <2>2 DEF WholeAnswers
  <2>4. got' \in [text : Fragments, reasoning : Fragments, accum : {got'.accum}, index : {got'.index}]
    <3>1. <<>> \in Fragments
      BY EmptySeq DEF Fragments
    <3> QED BY <1>2, <3>1 DEF Nothing
  <2> QED BY <1>1, <1>5, <2>3, <2>4 DEF Arriving
<1>7. Continued'
  <2>1. \A t \in Seq(STRING) : <<>> \o t = t
    BY ConcatEmptySeq
  <2>2. a.text \in Seq(STRING) /\ a.reasoning \in Seq(STRING)
    BY <1>3 DEF WholeAnswers
  <2> QED BY Zenon, <1>1, <1>4, <1>5, <2>1, <2>2 DEF Continued
<1>8. ASSUME NEW k \in DOMAIN answer'.calls PROVE Known(k)' /\ Begun(k)'
  <2>1. k \in DOMAIN a.calls /\ answer'.calls[k] = a.calls[k]
    BY <1>1, <1>8
  <2>2. left'.calls[k] = [opened |-> FALSE, id |-> FALSE, args |-> a.calls[k].args]
    BY <1>4, <2>1
  <2>3. Known(k)'
    BY <2>2, <1>5 DEF Known
  <2>4. Begun(k)'
    BY <2>1, <2>2 DEF Begun
  <2> QED BY <2>3, <2>4
<1>9. Own'
  BY <1>5 DEF Own
<1>10. Told'
  BY <1>2, <1>5 DEF Told, IsInjective, ToSet, NamedCalls
<1> QED BY <1>2, <1>6, <1>7, <1>8, <1>9, <1>10 DEF StreamInv, Streaming

(* A chunk with both is dropped, and noted; of one with one of them nothing *)
(* is lost.                                                                 *)
LEMMA SaidKeeps ==
  ASSUME Streaming, callAt = "streaming", ChunkSaid
  PROVE  StreamInv'
<1>1. PICK t, r \in {0, 1} :
        /\ t <= Len(left.text) /\ r <= Len(left.reasoning)
        /\ Said(SubSeq(left.text, 1, t), SubSeq(left.reasoning, 1, r))
        /\ left' = [left EXCEPT !.text = SubSeq(@, t + 1, Len(@)), !.reasoning = SubSeq(@, r + 1, Len(@))]
        /\ odd' = odd \cup {"mixed" : x \in {x \in {1} : t + r = 2}}
  BY DEF ChunkSaid
<1>2. UNCHANGED <<answer, announced, result, callAt>>
  BY DEF ChunkSaid
<1>3. PICK text, thought : text = SubSeq(left.text, 1, t) /\ thought = SubSeq(left.reasoning, 1, r)
  OBVIOUS
<1>4. got.text \in Fragments /\ got.reasoning \in Fragments /\ left.text \in Fragments /\ left.reasoning \in Fragments
  BY DEF Streaming, Arriving
<1>5. /\ text \in Fragments /\ SubSeq(left.text, t + 1, Len(left.text)) \in Fragments
      /\ got.text \o text \in Fragments
      /\ (got.text \o text) \o SubSeq(left.text, t + 1, Len(left.text)) = got.text \o left.text
  <2>1. t \in Nat /\ t <= Len(left.text)
    BY <1>1
  <2> QED BY Zenon, <1>3, <1>4, <2>1, PutTogether
<1>6. /\ thought \in Fragments /\ SubSeq(left.reasoning, r + 1, Len(left.reasoning)) \in Fragments
      /\ got.reasoning \o thought \in Fragments
      /\ (got.reasoning \o thought) \o SubSeq(left.reasoning, r + 1, Len(left.reasoning)) = got.reasoning \o left.reasoning
  <2>1. r \in Nat /\ r <= Len(left.reasoning)
    BY <1>1
  <2> QED BY Zenon, <1>3, <1>4, <2>1, PutTogether
<1>7. /\ left'.text = SubSeq(left.text, t + 1, Len(left.text))
      /\ left'.reasoning = SubSeq(left.reasoning, r + 1, Len(left.reasoning))
      /\ left'.calls = left.calls /\ left'.audio = left.audio /\ DOMAIN left' = DOMAIN left
  BY <1>1 DEF Streaming, Arriving
<1>8. odd \subseteq odd'
  BY <1>1
<1>9. /\ got'.text \in Fragments /\ got'.reasoning \in Fragments
      /\ got'.accum = got.accum /\ got'.index = got.index
      /\ got' \in [text : Fragments, reasoning : Fragments, accum : {got.accum}, index : {got.index}]
      /\ Continued'
  <2>1. CASE text # <<>> /\ thought # <<>>
    <3>1. got' = got
      BY <1>1, <1>3, <2>1 DEF Said
    <3>2. t = 1 /\ r = 1
      BY <1>3, <2>1, SubSeqEmpty
    <3>3. "mixed" \in odd'
      BY <1>1, <3>2
    <3> QED BY <1>4, <3>1, <3>3 DEF Continued, Streaming, Arriving
  <2>2. CASE ~(text # <<>> /\ thought # <<>>)
    <3>1. got' = [got EXCEPT !.text = @ \o text, !.reasoning = @ \o thought]
      BY <1>1, <1>3, <2>2 DEF Said
    <3>2. /\ got'.text = got.text \o text /\ got'.reasoning = got.reasoning \o thought
          /\ got'.accum = got.accum /\ got'.index = got.index
      BY <3>1 DEF Streaming, Arriving
    <3>3. Continued'
      BY Zenon, <1>2, <1>5, <1>6, <1>7, <1>8, <3>2 DEF Continued, Streaming
    <3>4. got' \in [text : Fragments, reasoning : Fragments, accum : {got.accum}, index : {got.index}]
      BY <1>5, <1>6, <3>1 DEF Streaming, Arriving
    <3> QED BY <1>5, <1>6, <3>2, <3>3, <3>4
  <2> QED BY <2>1, <2>2
<1>10. Arriving'
  <2>1. left' \in [reasoning : Fragments, text : Fragments, audio : BOOLEAN,
                   calls : [DOMAIN answer.calls -> [opened : BOOLEAN, id : BOOLEAN, args : Fragments]]]
    BY <1>1, <1>5, <1>6 DEF Streaming, Arriving
  <2> QED BY <1>2, <1>9, <2>1 DEF Streaming, Arriving
<1>11. ASSUME NEW k \in DOMAIN answer.calls PROVE Known(k)' /\ Begun(k)'
  <2>1. Known(k) /\ Begun(k)
    BY DEF Streaming
  <2>2. answer' = answer /\ left'.calls = left.calls /\ got'.accum = got.accum /\ got'.index = got.index
    BY <1>2, <1>7, <1>9
  <2>3. "late" \notin odd' => "late" \notin odd
    BY <1>8
  <2>4. Known(k)'
    BY Zenon, <2>1, <2>2 DEF Known
  <2>5. Begun(k)'
    BY Zenon, <2>1, <2>2, <2>3 DEF Begun
  <2> QED BY <2>4, <2>5
<1>12. Own' /\ Told'
  BY <1>2, <1>9 DEF Streaming, Own, Told, NamedCalls
<1> QED BY <1>2, <1>9, <1>10, <1>11, <1>12 DEF StreamInv, Streaming

(* One more announcement. *)
LEMMA AnnouncedMore ==
  ASSUME NEW s \in Seq(STRING), IsInjective(s), NEW x \in STRING, x \notin ToSet(s)
  PROVE  Append(s, x) \in Seq(STRING) /\ IsInjective(Append(s, x)) /\ ToSet(Append(s, x)) = ToSet(s) \cup {x}
<1>1. PICK t : t = Append(s, x)
  OBVIOUS
<1>2. /\ t \in Seq(STRING) /\ Len(s) \in Nat /\ DOMAIN s = 1 .. Len(s) /\ DOMAIN t = 1 .. Len(s) + 1
      /\ t[Len(s) + 1] = x /\ \A i \in 1 .. Len(s) : t[i] = s[i]
  <2>1. t \in Seq(STRING) /\ Len(t) = Len(s) + 1
    BY <1>1, AppendProperties
  <2>2. t[Len(s) + 1] = x /\ \A i \in 1 .. Len(s) : t[i] = s[i]
    <3>1. Append(s, x)[Len(s) + 1] = x
      BY AppendProperties
    <3>2. \A i \in 1 .. Len(s) : Append(s, x)[i] = s[i]
      BY AppendProperties
    <3> QED BY Zenon, <1>1, <3>1, <3>2
  <2>3. DOMAIN s = 1 .. Len(s) /\ Len(s) \in Nat
    OBVIOUS
  <2>4. DOMAIN t = 1 .. Len(t)
    BY <2>1
  <2> QED BY <2>1, <2>2, <2>3, <2>4
<1>3. IsInjective(t)
  <2>1. \A i \in 1 .. Len(s) : s[i] # x
    BY <1>2 DEF ToSet
  <2>2. \A i, j \in 1 .. Len(s) : s[i] = s[j] => i = j
    BY <1>2 DEF IsInjective
  <2>3. \A i \in 1 .. Len(s) + 1 : i \in 1 .. Len(s) \/ i = Len(s) + 1
    BY <1>2
  <2>4. ASSUME NEW i \in 1 .. Len(s) + 1, NEW j \in 1 .. Len(s) + 1, t[i] = t[j] PROVE i = j
    <3>1. CASE i \in 1 .. Len(s) /\ j \in 1 .. Len(s)
      BY Zenon, <1>2, <2>2, <2>4, <3>1
    <3>2. CASE i = Len(s) + 1 /\ j = Len(s) + 1
      BY <3>2
    <3>3. CASE i \in 1 .. Len(s) /\ j = Len(s) + 1
      BY Zenon, <1>2, <2>1, <2>4, <3>3
    <3>4. CASE i = Len(s) + 1 /\ j \in 1 .. Len(s)
      BY Zenon, <1>2, <2>1, <2>4, <3>4
    <3> QED BY Zenon, <2>3, <3>1, <3>2, <3>3, <3>4
  <2> QED BY Zenon, <1>2, <2>4 DEF IsInjective
<1>4. ToSet(t) = ToSet(s) \cup {x}
  <2>1. ToSet(t) = {t[i] : i \in 1 .. Len(s) + 1} /\ ToSet(s) = {s[i] : i \in 1 .. Len(s)}
    BY Zenon, <1>2 DEF ToSet
  <2>2. 1 .. Len(s) + 1 = (1 .. Len(s)) \cup {Len(s) + 1}
    BY <1>2
  <2>3. \A i \in 1 .. Len(s) : t[i] \in ToSet(s)
    BY Zenon, <1>2, <2>1
  <2>4. ToSet(t) \subseteq ToSet(s) \cup {x}
    BY <1>2, <2>1, <2>2, <2>3
  <2>5. ToSet(s) \cup {x} \subseteq ToSet(t)
    BY <1>2, <2>1, <2>2
  <2> QED BY Zenon, <2>4, <2>5
<1> QED BY <1>1, <1>2, <1>3, <1>4

(* A delta goes to its call: with its id, or with the id that its index is  *)
(* known by; before the id has come it is dropped, and noted.               *)
LEMMA CallKeeps ==
  ASSUME Streaming, callAt = "streaming", ChunkCall
  PROVE  StreamInv'
<1>0. PICK k \in DOMAIN left.calls, n \in {0, 1}, withId, again \in BOOLEAN :
         LET c == left.calls[k]
             first == ~c.opened
         IN /\ n <= Len(c.args) /\ (n = 1 \/ first \/ ~c.id) /\ (again => withId)
            /\ \A j \in 1..(k - 1) : left.calls[j].opened
            /\ (~first /\ ~c.id) => withId
            /\ Delta(k, IF withId THEN answer.calls[k].id ELSE NoId,
                     IF first \/ (withId /\ again) THEN answer.calls[k].name ELSE "", SubSeq(c.args, 1, n))
            /\ left' = [left EXCEPT !.calls[k] = [opened |-> TRUE, id |-> c.id \/ withId, args |-> SubSeq(@.args, n + 1, Len(@.args))]]
            /\ odd' = odd \cup {"late" : x \in {x \in {1} : first /\ ~withId}}
  BY DEF ChunkCall
<1>1. /\ n <= Len(left.calls[k].args)
      /\ (left.calls[k].opened /\ ~left.calls[k].id) => withId
      /\ Delta(k, IF withId THEN answer.calls[k].id ELSE NoId,
               IF ~left.calls[k].opened \/ (withId /\ again) THEN answer.calls[k].name ELSE "",
               SubSeq(left.calls[k].args, 1, n))
      /\ left' = [left EXCEPT !.calls[k] = [opened |-> TRUE, id |-> left.calls[k].id \/ withId,
                                            args |-> SubSeq(@.args, n + 1, Len(@.args))]]
      /\ odd' = odd \cup {"late" : x \in {x \in {1} : ~left.calls[k].opened /\ ~withId}}
  BY Zenon, <1>0
<1>2. UNCHANGED <<answer, shown, result, callAt>>
  BY DEF ChunkCall
<1>3. PICK a, c, frags, rest, nm :
        /\ a = answer.calls[k] /\ c = left.calls[k]
        /\ frags = SubSeq(c.args, 1, n) /\ rest = SubSeq(c.args, n + 1, Len(c.args))
        /\ nm = IF ~c.opened \/ (withId /\ again) THEN a.name ELSE ""
  OBVIOUS
<1>4. /\ k \in DOMAIN answer.calls
      /\ a \in [id : STRING \ {NoId}, name : STRING \ {""}, args : Fragments]
      /\ c \in [opened : BOOLEAN, id : BOOLEAN, args : Fragments]
      /\ left.calls \in [DOMAIN answer.calls -> [opened : BOOLEAN, id : BOOLEAN, args : Fragments]]
  <2>1. /\ left.calls \in [DOMAIN answer.calls -> [opened : BOOLEAN, id : BOOLEAN, args : Fragments]]
        /\ answer \in Answers
    BY DEF Streaming, Arriving
  <2>2. k \in DOMAIN answer.calls
    BY <1>1, <2>1
  <2> QED BY <1>3, <2>1, <2>2, AnswerIs
<1>5. \A i, j \in DOMAIN answer.calls : answer.calls[i].id = answer.calls[j].id => i = j
  BY Zenon, AnswerIs DEF Streaming, Arriving
<1>6. c.args \in Fragments /\ n \in Nat /\ n <= Len(c.args) /\ frags \in Fragments /\ rest \in Fragments
  <2>1. c.args \in Fragments /\ n \in Nat /\ n <= Len(c.args)
    <3>1. c.args \in Fragments
      BY <1>4
    <3>2. n \in Nat
      OBVIOUS
    <3>3. n <= Len(c.args)
      BY Zenon, <1>1, <1>3
    <3> QED BY <3>1, <3>2, <3>3
  <2> QED BY Zenon, <2>1, <1>3, PutTogether
<1>7. \A g \in Fragments : g \o frags \in Fragments /\ (g \o frags) \o rest = g \o c.args
  <2> TAKE g \in Fragments
  <2>1. /\ g \o SubSeq(c.args, 1, n) \in Fragments
        /\ (g \o SubSeq(c.args, 1, n)) \o SubSeq(c.args, n + 1, Len(c.args)) = g \o c.args
    BY Zenon, <1>6, PutTogether
  <2> QED BY Zenon, <1>3, <2>1
<1>8. /\ left'.calls = [left.calls EXCEPT ![k] = [opened |-> TRUE, id |-> c.id \/ withId, args |-> rest]]
      /\ left' \in [reasoning : Fragments, text : Fragments, audio : BOOLEAN,
                    calls : [DOMAIN answer.calls -> [opened : BOOLEAN, id : BOOLEAN, args : Fragments]]]
      /\ left'.text = left.text /\ left'.reasoning = left.reasoning
  <2>1. left \in [reasoning : Fragments, text : Fragments, audio : BOOLEAN,
                  calls : [DOMAIN answer.calls -> [opened : BOOLEAN, id : BOOLEAN, args : Fragments]]]
    BY DEF Streaming, Arriving
  <2>2. left' = [left EXCEPT !.calls = [left.calls EXCEPT ![k] = [opened |-> TRUE, id |-> c.id \/ withId, args |-> rest]]]
    BY <1>1, <1>3, <2>1
  <2>3. [left.calls EXCEPT ![k] = [opened |-> TRUE, id |-> c.id \/ withId, args |-> rest]]
          \in [DOMAIN answer.calls -> [opened : BOOLEAN, id : BOOLEAN, args : Fragments]]
    BY <1>4, <1>6
  <2> QED BY <2>1, <2>2, <2>3
<1>9. /\ left'.calls[k] = [opened |-> TRUE, id |-> c.id \/ withId, args |-> rest]
      /\ \A j \in DOMAIN answer.calls : j # k => left'.calls[j] = left.calls[j]
  BY <1>4, <1>8
<1>10. odd \subseteq odd' /\ ("mixed" \in odd' => "mixed" \in odd) /\ (~c.opened /\ ~withId => "late" \in odd')
  BY <1>1, <1>3
<1>11. Known(k) /\ Begun(k)
  BY <1>4 DEF Streaming
<1>12. CASE ~withId /\ ~c.id
  <2>1. ~c.opened /\ "late" \in odd'
    BY <1>1, <1>3, <1>4, <1>10, <1>12
  <2>2. UNCHANGED <<got, announced>>
    <3>1. IdOf(got, k, NoId) = NoId
      BY <1>3, <1>11, <1>12 DEF Known, IdOf
    <3> QED BY <1>1, <1>12, <3>1 DEF Delta
  <2>3. Arriving' /\ Continued' /\ Own' /\ Told'
    <3>1. Arriving'
      BY <1>2, <1>8, <2>2 DEF Streaming, Arriving
    <3>2. Continued'
      BY <1>2, <1>8, <1>10, <2>2 DEF Streaming, Continued
    <3>3. Own' /\ Told'
      BY <1>2, <2>2 DEF Streaming, Own, Told, NamedCalls
    <3> QED BY <3>1, <3>2, <3>3
  <2>4. ASSUME NEW j \in DOMAIN answer.calls PROVE Known(j)' /\ Begun(j)'
    <3>1. Known(j) /\ Begun(j)
      BY DEF Streaming
    <3>2. CASE j = k
      <4>1. left'.calls[j].id = FALSE /\ left'.calls[j].opened = TRUE
        BY <1>9, <1>12, <3>2
      <4>2. Known(j)'
        BY <1>2, <1>3, <1>11, <1>12, <2>2, <3>2, <4>1 DEF Known
      <4>3. Begun(j)'
        BY <2>1, <4>1 DEF Begun
      <4> QED BY <4>2, <4>3
    <3>3. CASE j # k
      <4>1. left'.calls[j] = left.calls[j] /\ answer' = answer /\ got' = got
        BY <1>2, <1>9, <2>2, <3>3
      <4>2. Known(j)' /\ Begun(j)'
        BY Zenon, <3>1, <4>1, <1>10, <2>1 DEF Known, Begun
      <4> QED BY <4>2
    <3> QED BY <3>2, <3>3
  <2> QED BY <1>2, <2>3, <2>4 DEF StreamInv, Streaming
<1>13. CASE withId \/ c.id
  <2>1. PICK e : e = Entry(got.accum, a.id)
    OBVIOUS
  <2>2. PICK named \in BOOLEAN : named <=> nm # "" /\ e.name = ""
    OBVIOUS
  <2>3. PICK new : new = [name |-> IF named THEN nm ELSE e.name, args |-> e.args \o frags]
    OBVIOUS
  <2>4. /\ got' = [got EXCEPT !.index = Put(@, k, a.id), !.accum = Put(@, a.id, new)]
        /\ announced' = IF named THEN Append(announced, a.id) ELSE announced
    <3>1. IdOf(got, k, IF withId THEN answer.calls[k].id ELSE NoId) = a.id
      BY <1>3, <1>4, <1>11, <1>13 DEF Known, IdOf
    <3>2. a.id # NoId
      BY <1>4
    <3>3. Delta(k, IF withId THEN answer.calls[k].id ELSE NoId, nm, frags)
      BY <1>1, <1>3
    <3>4. PICK id : id = IF withId THEN answer.calls[k].id ELSE NoId
      OBVIOUS
    <3>5. IdOf(got, k, id) = a.id /\ Delta(k, id, nm, frags)
      BY Zenon, <3>1, <3>3, <3>4
    <3>6. PICK key : key = a.id
      OBVIOUS
    <3>7. key = IdOf(got, k, id) /\ key # NoId /\ e = Entry(got.accum, key)
      BY Zenon, <2>1, <3>2, <3>5, <3>6
    <3>8. /\ got' = [got EXCEPT !.index = Put(@, k, key), !.accum = Put(@, key, new)]
          /\ announced' = IF named THEN Append(announced, key) ELSE announced
      BY <2>2, <2>3, <3>5, <3>7 DEF Delta
    <3> QED BY Zenon, <3>6, <3>8
  <2>5. /\ got'.index = Put(got.index, k, a.id) /\ got'.accum = Put(got.accum, a.id, new)
        /\ got'.text = got.text /\ got'.reasoning = got.reasoning
        /\ got' \in [text : Fragments, reasoning : Fragments, accum : {got'.accum}, index : {got'.index}]
    <3>1. got \in [text : Fragments, reasoning : Fragments, accum : {got.accum}, index : {got.index}]
      BY DEF Streaming, Arriving
    <3> QED BY <2>4, <3>1
  <2>6. /\ DOMAIN got'.accum = DOMAIN got.accum \cup {a.id} /\ got'.accum[a.id] = new
        /\ \A x \in DOMAIN got.accum : x # a.id => got'.accum[x] = got.accum[x]
    <3>1. PICK f : f = got.accum
      OBVIOUS
    <3>2. PICK key : key = a.id
      OBVIOUS
    <3>3. DOMAIN Put(f, key, new) = DOMAIN f \cup {key}
      BY DEF Put
    <3>4. Put(f, key, new)[key] = new
      BY DEF Put
    <3>5. \A x \in DOMAIN f : x # key => Put(f, key, new)[x] = f[x]
      BY DEF Put
    <3> QED BY Zenon, <2>5, <3>1, <3>2, <3>3, <3>4, <3>5
  <2>7. /\ DOMAIN got'.index = DOMAIN got.index \cup {k} /\ got'.index[k] = a.id
        /\ \A x \in DOMAIN got.index : x # k => got'.index[x] = got.index[x]
    <3>1. PICK f : f = got.index
      OBVIOUS
    <3>2. PICK key : key = a.id
      OBVIOUS
    <3>3. DOMAIN Put(f, k, key) = DOMAIN f \cup {k}
      BY DEF Put
    <3>4. Put(f, k, key)[k] = key
      BY DEF Put
    <3>5. \A x \in DOMAIN f : x # k => Put(f, k, key)[x] = f[x]
      BY DEF Put
    <3> QED BY Zenon, <2>5, <3>1, <3>2, <3>3, <3>4, <3>5
  <2>8. e \in Entries /\ (a.id \in DOMAIN got.accum => e = got.accum[a.id])
        /\ (a.id \notin DOMAIN got.accum => e.name = "" /\ e.args = <<>>)
    <3>1. got.accum \in [DOMAIN got.accum -> Entries]
      BY DEF Streaming, Arriving
    <3>2. <<>> \in Fragments
      BY EmptySeq DEF Fragments
    <3>3. CASE a.id \in DOMAIN got.accum
      <4>1. e = got.accum[a.id]
        BY <2>1, <3>3 DEF Entry
      <4> QED BY <3>1, <3>3, <4>1
    <3>4. CASE a.id \notin DOMAIN got.accum
      <4>1. e = [name |-> "", args |-> <<>>]
        BY <2>1, <3>4 DEF Entry
      <4>2. e.name = "" /\ e.args = <<>>
        BY <4>1
      <4>3. e \in Entries
        BY <3>2, <4>1 DEF Entries
      <4> QED BY <3>4, <4>2, <4>3
    <3> QED BY <3>3, <3>4
  <2>9. new \in Entries /\ new.name = (IF named THEN nm ELSE e.name) /\ new.args = e.args \o frags
    <3>1. nm \in STRING \cup {""}
      <4>1. a.name \in STRING
        BY <1>4
      <4> QED BY <1>3, <4>1
    <3>2. e.args \o frags \in Fragments /\ e.name \in STRING \cup {""}
      BY <1>7, <2>8 DEF Entries
    <3> QED BY <2>3, <3>1, <3>2 DEF Entries
  <2>10. Arriving'
    <3>1. got'.accum \in [DOMAIN got'.accum -> Entries]
      <4>1. \A x \in DOMAIN got'.accum : got'.accum[x] \in Entries
        BY <2>6, <2>9 DEF Streaming, Arriving
      <4>2. got'.accum = [x \in DOMAIN got'.accum |-> got'.accum[x]]
        BY <2>5 DEF Put
      <4> QED BY <4>1, <4>2
    <3> QED BY <1>2, <1>8, <2>5, <3>1 DEF Streaming, Arriving
  <2>11. Continued'
    BY Zenon, <1>2, <1>8, <1>10, <2>5 DEF Streaming, Continued
  <2>12. Own'
    BY <1>2, <1>3, <1>4, <2>6 DEF Streaming, Own
  <2>13. Told'
    <3>1. /\ announced \in Seq(STRING) /\ IsInjective(announced)
          /\ ToSet(announced) = {id \in DOMAIN got.accum : got.accum[id].name # ""}
      BY DEF Streaming, Told, NamedCalls
    <3>2. CASE named
      <4>1. a.id \notin ToSet(announced)
        BY <2>2, <2>8, <3>1, <3>2
      <4>2. /\ announced' \in Seq(STRING) /\ IsInjective(announced')
            /\ ToSet(announced') = ToSet(announced) \cup {a.id}
        BY <1>4, <2>4, <3>1, <3>2, <4>1, AnnouncedMore
      <4>3. new.name # ""
        BY <2>2, <2>9, <3>2
      <4>4. {id \in DOMAIN got'.accum : got'.accum[id].name # ""} = ToSet(announced) \cup {a.id}
        BY <2>6, <3>1, <4>3
      <4> QED BY <4>2, <4>4 DEF Told, NamedCalls
    <3>3. CASE ~named
      <4>1. new.name = e.name
        BY <2>9, <3>3
      <4>2. {id \in DOMAIN got'.accum : got'.accum[id].name # ""} = ToSet(announced)
        BY <2>6, <2>8, <3>1, <4>1
      <4> QED BY <2>4, <3>1, <3>3, <4>2 DEF Told, NamedCalls
    <3> QED BY <3>2, <3>3
  <2>14. ASSUME NEW j \in DOMAIN answer.calls PROVE Known(j)' /\ Begun(j)'
    <3>1. Known(j) /\ Begun(j)
      BY DEF Streaming
    <3>2. CASE j = k
      <4>1. left'.calls[j].id = TRUE /\ left'.calls[j].opened = TRUE /\ left'.calls[j].args = rest
        <5>1. left'.calls[j] = [opened |-> TRUE, id |-> c.id \/ withId, args |-> rest]
          BY <1>9, <3>2
        <5>2. [opened |-> TRUE, id |-> c.id \/ withId, args |-> rest] = [opened |-> TRUE, id |-> TRUE, args |-> rest]
          BY <1>13
        <5>3. left'.calls[j] = [opened |-> TRUE, id |-> TRUE, args |-> rest]
          BY Zenon, <5>1, <5>2
        <5> QED BY <5>3
      <4>2. Known(j)'
        BY <1>2, <1>3, <2>6, <2>7, <3>2, <4>1 DEF Known
      <4>3. ASSUME "late" \notin odd' PROVE new.name = a.name /\ new.args \o rest = a.args
        <5>1. CASE ~c.opened
          <6>1. ~c.id /\ c.args = a.args
            BY <1>3, <1>11, <5>1 DEF Begun
          <6>2. e.name = "" /\ e.args = <<>>
            BY <1>3, <1>11, <2>8, <6>1 DEF Known
          <6>3. nm = a.name /\ a.name # ""
            BY <1>3, <1>4, <5>1
          <6>4. new.name = a.name
            BY <2>2, <2>9, <6>2, <6>3
          <6>5. (<<>> \o frags) \o rest = a.args
            <7>1. <<>> \in Fragments /\ <<>> \o c.args = c.args
              BY <1>6, ConcatEmptySeq, EmptySeq DEF Fragments
            <7> QED BY Zenon, <1>7, <6>1, <7>1
          <6> QED BY Zenon, <2>9, <6>2, <6>4, <6>5
        <5>2. CASE c.opened
          <6>1. c.id
            BY <1>3, <1>10, <1>11, <4>3, <5>2 DEF Begun
          <6>2. a.id \in DOMAIN got.accum /\ got.accum[a.id].name = a.name /\ got.accum[a.id].args \o c.args = a.args
            BY <1>3, <1>10, <1>11, <4>3, <6>1 DEF Begun, Known
          <6>3. e.name = a.name /\ e.args \o c.args = a.args /\ e.args \in Fragments
            BY <2>8, <6>2 DEF Entries
          <6>4. ~named
            BY <1>4, <2>2, <6>3
          <6>5. (e.args \o frags) \o rest = a.args
            BY Zenon, <1>7, <6>3
          <6> QED BY <2>9, <6>3, <6>4, <6>5
        <5> QED BY <5>1, <5>2
      <4>4. Begun(j)'
        BY <1>2, <1>3, <2>6, <3>2, <4>1, <4>3 DEF Begun
      <4> QED BY <4>2, <4>4
    <3>3. CASE j # k
      <4>1. answer.calls[j].id # a.id
        BY <1>3, <1>4, <1>5, <3>3
      <4>2. left'.calls[j] = left.calls[j] /\ answer' = answer
        BY <1>2, <1>9, <3>3
      <4>3. Known(j)'
        BY <2>6, <2>7, <3>1, <3>3, <4>1, <4>2 DEF Known
      <4>4. left.calls[j].id => answer.calls[j].id \in DOMAIN got.accum
        BY <3>1 DEF Known
      <4>5. left.calls[j].id => got'.accum[answer.calls[j].id] = got.accum[answer.calls[j].id]
        BY <2>6, <4>1, <4>4
      <4>6. "late" \notin odd' => "late" \notin odd
        BY <1>10
      <4>7. Begun(j)'
        BY Zenon, <3>1, <4>2, <4>5, <4>6 DEF Begun
      <4> QED BY <4>3, <4>7
    <3> QED BY <3>2, <3>3
  <2> QED BY <1>2, <2>10, <2>11, <2>12, <2>13, <2>14 DEF StreamInv, Streaming
<1> QED BY <1>4, <1>12, <1>13

(* The calls that have a name are calls of the answer, and finitely many.   *)
LEMMA NamedFinite ==
  ASSUME Streaming
  PROVE  /\ IsFiniteSet(NamedCalls(got)) /\ NamedCalls(got) \subseteq DOMAIN got.accum
         /\ (NamedCalls(got) = {answer.calls[k].id : k \in DOMAIN answer.calls}
               => Cardinality(NamedCalls(got)) = Len(answer.calls))
<1>1. PICK n \in Nat : n = Len(answer.calls) /\ DOMAIN answer.calls = 1 .. n
  <2>1. DOMAIN answer.calls = 1 .. Len(answer.calls) /\ Len(answer.calls) \in Nat
    BY AnswerIs DEF Streaming, Arriving
  <2> QED BY <2>1
<1>2. PICK f, S : /\ f = [k \in 1 .. n |-> answer.calls[k].id]
                  /\ S = {answer.calls[k].id : k \in 1 .. n}
  OBVIOUS
<1>3. \A i, j \in 1 .. n : answer.calls[i].id = answer.calls[j].id => i = j
  <2>1. \A i, j \in DOMAIN answer.calls : answer.calls[i].id = answer.calls[j].id => i = j
    BY AnswerIs DEF Streaming, Arriving
  <2> QED BY Zenon, <1>1, <2>1
<1>4. f \in Surjection(1 .. n, S) /\ f \in Injection(1 .. n, S)
  BY <1>2, <1>3 DEF Surjection, Injection, IsInjective
<1>5. IsFiniteSet(1 .. n) /\ Cardinality(1 .. n) = n
  BY FS_Interval
<1>6. IsFiniteSet(S) /\ Cardinality(S) = n
  BY <1>4, <1>5, FS_Surjection
<1>7. NamedCalls(got) \subseteq DOMAIN got.accum
  BY DEF NamedCalls
<1>8. NamedCalls(got) \subseteq S
  BY <1>2, <1>7, <1>1 DEF Streaming, Own
<1>9. IsFiniteSet(NamedCalls(got))
  BY <1>6, <1>8, FS_Subset
<1> QED BY <1>2, <1>6, <1>7, <1>9, <1>1

(* What the end of a stream makes of what came.                             *)
LEMMA EndWhole ==
  ASSUME Streaming, callAt = "streaming", StreamEnd
  PROVE  StreamInv'
<1>1. PICK calls \in Listed(got) : result' = BuildStreamContent(got, calls)
  BY DEF StreamEnd
<1>2. /\ odd' = odd \cup {"cut" : x \in {x \in {1} : Unsent}} /\ callAt' = "done"
      /\ UNCHANGED <<answer, left, got, announced, shown>>
  BY DEF StreamEnd
<1>3. PICK s \in SetToSeqs(NamedCalls(got)) :
        calls = [k \in DOMAIN s |-> [id |-> s[k], name |-> got.accum[s[k]].name, args |-> ArgsParsed(got.accum[s[k]].args)]]
  BY <1>1 DEF Listed
<1>4. /\ Len(s) = Cardinality(NamedCalls(got)) /\ DOMAIN s = 1 .. Len(s) /\ s \in Seq(NamedCalls(got))
      /\ ToSet(s) = NamedCalls(got) /\ IsInjective(s)
  BY NamedFinite, ListingOf
<1>5. PICK n \in Nat : n = Len(s) /\ DOMAIN s = 1 .. n
  BY <1>4
<1>6. PICK T : T = {calls[k] : k \in 1 .. n}
  OBVIOUS
<1>7. calls \in Seq(T) /\ Len(calls) = n /\ DOMAIN calls = 1 .. n
  BY <1>3, <1>5, <1>6
<1>8. ToSet(calls) = {[id |-> i, name |-> got.accum[i].name, args |-> ArgsParsed(got.accum[i].args)] : i \in NamedCalls(got)}
  <2> DEFINE Made(i) == [id |-> i, name |-> got.accum[i].name, args |-> ArgsParsed(got.accum[i].args)]
  <2>1. calls = [k \in DOMAIN s |-> Made(s[k])]
    BY <1>3
  <2>2. NamedCalls(got) = {s[k] : k \in DOMAIN s}
    BY <1>4 DEF ToSet
  <2> HIDE DEF Made
  <2>3. ToSet(calls) = {Made(i) : i \in NamedCalls(got)}
    BY <2>1, <2>2 DEF ToSet
  <2> QED BY <2>3 DEF Made
<1>9. got.text \in Fragments /\ got.reasoning \in Fragments
  BY DEF Streaming, Arriving
<1>10. Holds(result', calls, IF calls = <<>> THEN got.text ELSE <<>>, got.reasoning)
  BY Zenon, <1>1, <1>7, <1>9, BuildHolds
<1>11. CallsOf(result') = calls /\ ReasoningIn(result') = got.reasoning /\ (calls = <<>> => TextIn(result') = got.text)
  BY <1>10 DEF Holds
<1>12. AnnouncedOnce'
  <2>1. {d.id : d \in ToSet(calls)} = NamedCalls(got)
    <3> DEFINE Made(i) == [id |-> i, name |-> got.accum[i].name, args |-> ArgsParsed(got.accum[i].args)]
    <3>1. \A i : Made(i).id = i
      OBVIOUS
    <3>2. ToSet(calls) = {Made(i) : i \in NamedCalls(got)}
      BY <1>8
    <3> HIDE DEF Made
    <3> QED BY <3>1, <3>2
  <2> QED BY <1>2, <1>11, <2>1 DEF AnnouncedOnce, Streaming, Told
<1>13. ASSUME NEW i \in NamedCalls(got), "late" \notin odd
       PROVE  \E j \in DOMAIN answer.calls :
                /\ i = answer.calls[j].id /\ left.calls[j].id
                /\ got.accum[i].name = answer.calls[j].name
                /\ got.accum[i].args \o left.calls[j].args = answer.calls[j].args
  <2>1. i \in DOMAIN got.accum
    BY NamedFinite
  <2>2. PICK j \in DOMAIN answer.calls : i = answer.calls[j].id
    BY <2>1 DEF Streaming, Own
  <2>3. left.calls[j].id
    BY <2>1, <2>2 DEF Streaming, Known
  <2>4. got.accum[i].name = answer.calls[j].name /\ got.accum[i].args \o left.calls[j].args = answer.calls[j].args
    BY <1>13, <2>2, <2>3 DEF Streaming, Begun
  <2> QED BY <2>2, <2>3, <2>4
<1>14. /\ answer \in WholeAnswers /\ DOMAIN answer.calls = 1 .. Len(answer.calls) /\ Len(answer.calls) \in Nat /\ ~answer.audio
       /\ \A j \in DOMAIN answer.calls :
            /\ answer.calls[j] \in [id : STRING \ {NoId}, name : STRING \ {""}, args : Fragments]
            /\ ClosesLast(answer.calls[j].args)
  BY AnswerIs DEF Streaming, Arriving
<1>15. /\ \A j \in DOMAIN answer.calls : left.calls[j].args \in Fragments
       /\ \A i \in DOMAIN got.accum : got.accum[i].args \in Fragments
  BY DEF Streaming, Arriving, Entries
<1>16. ArgsOwnOrNone'
  <2>1. SUFFICES ASSUME "late" \notin odd, NEW d \in ToSet(calls)
                 PROVE  \E c \in ToSet(answer.calls) : d.id = c.id /\ d.name = c.name /\ d.args \in {ArgsParsed(c.args), NoArgs}
    BY <1>2, <1>11 DEF ArgsOwnOrNone
  <2>2. PICK i \in NamedCalls(got) :
          d = [id |-> i, name |-> got.accum[i].name, args |-> ArgsParsed(got.accum[i].args)]
    BY <1>8
  <2>3. PICK j \in DOMAIN answer.calls :
                /\ i = answer.calls[j].id
                /\ got.accum[i].name = answer.calls[j].name
                /\ got.accum[i].args \o left.calls[j].args = answer.calls[j].args
    BY <1>13, <2>1
  <2>4. ArgsParsed(got.accum[i].args) \in {ArgsParsed(answer.calls[j].args), NoArgs}
    <3>1. got.accum[i].args \in Fragments /\ left.calls[j].args \in Fragments /\ ClosesLast(answer.calls[j].args)
      BY <1>14, <1>15, NamedFinite
    <3> QED BY Zenon, <2>3, <3>1, PrefixParsed
  <2>5. answer.calls[j] \in ToSet(answer.calls)
    BY DEF ToSet
  <2>6. d.id = answer.calls[j].id /\ d.name = answer.calls[j].name /\ d.args = ArgsParsed(got.accum[i].args)
    BY <2>2, <2>3
  <2> QED BY Zenon, <2>4, <2>5, <2>6
<1>17. StreamSameAsBlock'
  <2>1. SUFFICES ASSUME odd = {}, ~Unsent
                 PROVE  /\ ToSet(calls) = ToSet(CallsOf(ParseResponse(answer))) /\ Len(calls) = Len(CallsOf(ParseResponse(answer)))
                        /\ got.reasoning = ReasoningIn(ParseResponse(answer))
                        /\ CallsOf(ParseResponse(answer)) = <<>> => TextIn(result') = TextIn(ParseResponse(answer))
    <3>1. odd' = {} => odd = {} /\ ~Unsent
      BY <1>2
    <3> QED BY Zenon, <1>2, <1>11, <2>1, <3>1 DEF StreamSameAsBlock
  <2>2. /\ left.text = <<>> /\ left.reasoning = <<>>
        /\ \A j \in DOMAIN answer.calls : left.calls[j].id /\ left.calls[j].args = <<>>
    <3>1. DOMAIN left.calls = DOMAIN answer.calls
      BY DEF Streaming, Arriving
    <3> QED BY <2>1, <3>1 DEF Unsent
  <2>3. /\ CallsOf(ParseResponse(answer)) = DetailsOf(answer) /\ TextIn(ParseResponse(answer)) = answer.text
        /\ ReasoningIn(ParseResponse(answer)) = answer.reasoning
    BY Zenon, <1>14, ParseResponseHolds
  <2>4. got.text = answer.text /\ got.reasoning = answer.reasoning
    <3>1. got.text \o <<>> = got.text /\ got.reasoning \o <<>> = got.reasoning
      BY <1>9, ConcatEmptySeq DEF Fragments
    <3>2. got.text \o <<>> = answer.text /\ got.reasoning \o <<>> = answer.reasoning
      BY <2>1, <2>2 DEF Streaming, Continued
    <3> QED BY <3>1, <3>2
  <2>5. ASSUME NEW j \in DOMAIN answer.calls
        PROVE  /\ answer.calls[j].id \in DOMAIN got.accum
               /\ got.accum[answer.calls[j].id].name = answer.calls[j].name
               /\ got.accum[answer.calls[j].id].args = answer.calls[j].args
    <3>1. left.calls[j].id /\ left.calls[j].args = <<>> /\ Known(j) /\ Begun(j)
      BY <2>2 DEF Streaming
    <3>2. answer.calls[j].id \in DOMAIN got.accum
      BY <3>1 DEF Known
    <3>3. /\ got.accum[answer.calls[j].id].name = answer.calls[j].name
          /\ got.accum[answer.calls[j].id].args \o <<>> = answer.calls[j].args
      BY <2>1, <3>1 DEF Begun
    <3>4. got.accum[answer.calls[j].id].args \o <<>> = got.accum[answer.calls[j].id].args
      <4>1. got.accum[answer.calls[j].id].args \in Seq(STRING)
        BY <1>15, <3>2 DEF Fragments
      <4> QED BY <4>1, ConcatEmptySeq
    <3> QED BY <3>2, <3>3, <3>4
  <2>6. NamedCalls(got) = {answer.calls[j].id : j \in DOMAIN answer.calls}
    <3>1. \A j \in DOMAIN answer.calls : answer.calls[j].id \in NamedCalls(got)
      BY <1>14, <2>5 DEF NamedCalls
    <3>2. \A i \in NamedCalls(got) : \E j \in DOMAIN answer.calls : i = answer.calls[j].id
      BY NamedFinite DEF Streaming, Own
    <3> QED BY <3>1, <3>2
  <2>7. n = Len(answer.calls)
    BY <1>4, <1>5, <2>6, NamedFinite
  <2>8. Len(DetailsOf(answer)) = n
    <3>1. DOMAIN DetailsOf(answer) = DOMAIN answer.calls
      BY DEF DetailsOf
    <3>2. DOMAIN answer.calls = 1 .. n
      BY <1>14, <2>7
    <3>3. DetailsOf(answer) = [k \in 1 .. n |-> DetailsOf(answer)[k]]
      BY <3>1, <3>2 DEF DetailsOf
    <3> QED BY <3>3
  <2>9. ToSet(DetailsOf(answer)) = {DetailOf(answer.calls[j]) : j \in DOMAIN answer.calls}
    BY DEF ToSet, DetailsOf
  <2>10. ToSet(calls) = ToSet(DetailsOf(answer))
    <3> DEFINE Made(i) == [id |-> i, name |-> got.accum[i].name, args |-> ArgsParsed(got.accum[i].args)]
    <3>1. \A j \in DOMAIN answer.calls : Made(answer.calls[j].id) = DetailOf(answer.calls[j])
      BY <2>5 DEF DetailOf
    <3>2. ToSet(calls) = {Made(i) : i \in NamedCalls(got)}
      BY <1>8
    <3> HIDE DEF Made
    <3> QED BY <2>6, <2>9, <3>1, <3>2
  <2>11. ASSUME DetailsOf(answer) = <<>> PROVE TextIn(result') = answer.text
    <3>1. n = 0
      BY <2>8, <2>11
    <3>2. calls = <<>>
      BY <1>7, <3>1
    <3> QED BY <1>11, <2>4, <3>2
  <2> QED BY <1>7, <2>3, <2>4, <2>8, <2>10, <2>11
<1> QED BY <1>2, <1>12, <1>16, <1>17 DEF StreamInv, StreamWhole

(* A streamed answer is the answer (StreamWhole): what Stream puts together *)
(* of the chunks of an answer, however they interleave, is what Block       *)
(* returns of it, but for what a chunk with both, a late id or an early end *)
(* are known to lose; every call that is executed was announced once, and   *)
(* its arguments are its own or missing (format.go:65, 135).                *)
THEOREM StreamedWhole ==
  StreamInit /\ [][StreamNext]_streamVars => []StreamWhole
<1>1. StreamInit => StreamInv
  BY DEF StreamInit, StreamInv
<1>2. ASSUME StreamInv, [StreamNext]_streamVars PROVE StreamInv'
  <2>1. CASE Block
    BY <1>2, <2>1, BlockWhole
  <2>2. CASE StreamOpen
    BY <1>2, <2>2, OpenArrives
  <2>3. CASE ChunkSaid
    <3>1. callAt = "streaming"
      BY <2>3 DEF ChunkSaid
    <3> QED BY <1>2, <2>3, <3>1, SaidKeeps DEF StreamInv
  <2>4. CASE ChunkCall
    <3>1. callAt = "streaming"
      BY <2>4 DEF ChunkCall
    <3> QED BY <1>2, <2>4, <3>1, CallKeeps DEF StreamInv
  <2>5. CASE StreamEnd
    <3>1. callAt = "streaming"
      BY <2>5 DEF StreamEnd
    <3> QED BY <1>2, <2>5, <3>1, EndWhole DEF StreamInv
  <2>6. CASE StreamFails
    <3>1. callAt = "streaming" /\ callAt' = "failed" /\ UNCHANGED <<answer, left, got, announced, shown, result, odd>>
      BY <2>6 DEF StreamFails
    <3>2. IsInjective(announced)
      BY <1>2, <3>1 DEF StreamInv, Streaming, Told
    <3>3. StreamWhole'
      BY <3>1, <3>2 DEF StreamWhole, StreamSameAsBlock, AnnouncedOnce, ArgsOwnOrNone
    <3> QED BY <3>1, <3>3 DEF StreamInv
  <2>7. CASE UNCHANGED streamVars
    <3>1. /\ answer' = answer /\ left' = left /\ got' = got /\ announced' = announced /\ odd' = odd
          /\ result' = result /\ callAt' = callAt
      BY <2>7 DEF streamVars
    <3>2. StreamWhole => StreamWhole'
      BY <3>1 DEF StreamWhole, StreamSameAsBlock, AnnouncedOnce, ArgsOwnOrNone
    <3>3. Streaming => Streaming'
      BY <3>1 DEF Streaming, Arriving, Continued, Known, Begun, Own, Told, NamedCalls
    <3> QED BY <1>2, <3>1, <3>2, <3>3 DEF StreamInv
  <2> QED BY <1>2, <2>1, <2>2, <2>3, <2>4, <2>5, <2>6, <2>7 DEF StreamNext
<1>3. StreamInv => StreamWhole
  <2>1. ASSUME StreamInv, callAt \in {"idle", "streaming"} PROVE IsInjective(announced)
    BY <2>1 DEF StreamInv, Streaming, Told, IsInjective
  <2>2. ASSUME IsInjective(announced), callAt \in {"idle", "streaming"} PROVE StreamWhole
    BY <2>2 DEF StreamWhole, StreamSameAsBlock, AnnouncedOnce, ArgsOwnOrNone
  <2> QED BY <2>1, <2>2 DEF StreamInv
<1> QED BY <1>1, <1>2, <1>3, PTL

-----------------------------------------------------------------------------
(* Replies: how the text of an answer is decoded. *)

(* The recursive functions that read a value and a text exist. *)
Nesting(g, raw, n) == g = [i \in 0 .. n |-> IF i = 0 THEN NestStart ELSE NestByte(g[i - 1], raw[i])]
Scanning(g, text, i, n) == g = [k \in (i - 1) .. n |-> IF k = i - 1 THEN ScanStart(i) ELSE ScanByte(g[k - 1], text[k], text[i])]

(* The recursive function of Nested exists. *)
LEMMA NestingExists ==
  ASSUME NEW raw
  PROVE  \A n \in Nat : \E g : Nesting(g, raw, n)
<1> DEFINE T == {n \in Nat : ~ \E g : Nesting(g, raw, n)}
<1> SUFFICES ASSUME T # {} PROVE FALSE
  OBVIOUS
<1>1. PICK n \in T : \A m \in T : n <= m
  <2>1. T \subseteq Nat
    OBVIOUS
  <2> HIDE DEF T
  <2> QED BY <2>1, Least
<1>2. n \in Nat \ {0}
  <2>1. PICK g : g = [i \in 0 .. 0 |-> NestStart]
    OBVIOUS
  <2>2. Nesting(g, raw, 0)
    BY <2>1 DEF Nesting
  <2> QED BY <2>2, <1>1
<1>3. PICK g : Nesting(g, raw, n - 1)
  BY <1>1, <1>2
<1> DEFINE h == [i \in 0 .. n |-> IF i = n THEN NestByte(g[n - 1], raw[n]) ELSE g[i]]
<1>4. ASSUME NEW i \in 0 .. n PROVE h[i] = IF i = 0 THEN NestStart ELSE NestByte(h[i - 1], raw[i])
  <2>1. CASE i = n
    BY <2>1, <1>2
  <2>2. CASE i # n
    <3>1. i \in 0 .. n - 1 /\ (i # 0 => i - 1 \in 0 .. n - 1)
      BY <2>2, <1>2
    <3>2. g[i] = IF i = 0 THEN NestStart ELSE NestByte(g[i - 1], raw[i])
      BY <3>1, <1>3 DEF Nesting
    <3> QED BY <3>1, <3>2, <2>2
  <2> QED BY <2>1, <2>2
<1>5. Nesting(h, raw, n)
  BY <1>4 DEF Nesting
<1> QED BY <1>1, <1>5

(* Its values: one byte after another. *)
LEMMA NestIs ==
  ASSUME NEW raw, Len(raw) \in Nat
  PROVE  /\ Nested(raw)[0] = NestStart
         /\ \A m, n \in 0 .. Len(raw) : n = m + 1 => Nested(raw)[n] = NestByte(Nested(raw)[m], raw[n])
<1>1. PICK f : f = CHOOSE g : Nesting(g, raw, Len(raw))
  OBVIOUS
<1>2. Nesting(f, raw, Len(raw))
  BY <1>1, NestingExists
<1>3. Nested(raw) = f
  BY Zenon, <1>1 DEF Nested, Nesting
<1>4. \A i \in 0 .. Len(raw) : f[i] = IF i = 0 THEN NestStart ELSE NestByte(f[i - 1], raw[i])
  BY <1>2 DEF Nesting
<1>5. ASSUME NEW m \in 0 .. Len(raw), NEW n \in 0 .. Len(raw), n = m + 1 PROVE f[n] = NestByte(f[m], raw[n])
  <2>1. n # 0 /\ n - 1 = m
    BY <1>5
  <2> QED BY <2>1, <1>4
<1>6. f[0] = NestStart
  BY <1>4
<1> QED BY Zenon, <1>3, <1>5, <1>6

(* The recursive function of Scan exists. *)
LEMMA ScanningExists ==
  ASSUME NEW text, NEW i \in Nat
  PROVE  \A n \in Nat : \E g : Scanning(g, text, i, i - 1 + n)
<1> DEFINE T == {n \in Nat : ~ \E g : Scanning(g, text, i, i - 1 + n)}
<1> SUFFICES ASSUME T # {} PROVE FALSE
  OBVIOUS
<1>1. PICK n \in T : \A m \in T : n <= m
  <2>1. T \subseteq Nat
    OBVIOUS
  <2> HIDE DEF T
  <2> QED BY <2>1, Least
<1>2. n \in Nat \ {0}
  <2>1. PICK g : g = [k \in (i - 1) .. (i - 1 + 0) |-> ScanStart(i)]
    OBVIOUS
  <2>2. Scanning(g, text, i, i - 1 + 0)
    BY <2>1 DEF Scanning
  <2> QED BY <2>2, <1>1
<1>3. PICK g : Scanning(g, text, i, i - 1 + (n - 1))
  BY <1>1, <1>2
<1>4. PICK m : m = i - 1 + n
  OBVIOUS
<1>5. m \in Int /\ m >= i /\ i - 1 + (n - 1) = m - 1
  BY <1>2, <1>4
<1> DEFINE h == [k \in (i - 1) .. m |-> IF k = m THEN ScanByte(g[m - 1], text[m], text[i]) ELSE g[k]]
<1>6. ASSUME NEW k \in (i - 1) .. m PROVE h[k] = IF k = i - 1 THEN ScanStart(i) ELSE ScanByte(h[k - 1], text[k], text[i])
  <2>1. CASE k = m
    BY <2>1, <1>5
  <2>2. CASE k # m
    <3>1. k \in (i - 1) .. (m - 1) /\ (k # i - 1 => k - 1 \in (i - 1) .. (m - 1))
      BY <2>2, <1>5
    <3>2. g[k] = IF k = i - 1 THEN ScanStart(i) ELSE ScanByte(g[k - 1], text[k], text[i])
      BY <3>1, <1>3, <1>5 DEF Scanning
    <3> QED BY <3>1, <3>2, <2>2, <1>5
  <2> QED BY <2>1, <2>2
<1>7. Scanning(h, text, i, m)
  BY <1>6 DEF Scanning
<1> QED BY <1>1, <1>4, <1>7

(* Its values: one byte after another. *)
LEMMA ScanIs ==
  ASSUME NEW text, Len(text) \in Nat, NEW i \in 1 .. Len(text)
  PROVE  /\ Scan(text, i)[i - 1] = ScanStart(i)
         /\ \A m, n \in (i - 1) .. Len(text) : n = m + 1 => Scan(text, i)[n] = ScanByte(Scan(text, i)[m], text[n], text[i])
<1>1. PICK f : f = CHOOSE g : Scanning(g, text, i, Len(text))
  OBVIOUS
<1>2. Scanning(f, text, i, Len(text))
  <2>1. PICK n \in Nat : Len(text) = i - 1 + n
    <3>1. Len(text) - (i - 1) \in Nat /\ Len(text) = i - 1 + (Len(text) - (i - 1))
      OBVIOUS
    <3> QED BY <3>1
  <2>2. i \in Nat
    OBVIOUS
  <2>3. \E g : Scanning(g, text, i, Len(text))
    BY Zenon, <2>1, <2>2, ScanningExists
  <2> QED BY Zenon, <1>1, <2>3
<1>3. Scan(text, i) = f
  BY Zenon, <1>1 DEF Scan, Scanning
<1>4. \A k \in (i - 1) .. Len(text) : f[k] = IF k = i - 1 THEN ScanStart(i) ELSE ScanByte(f[k - 1], text[k], text[i])
  BY <1>2 DEF Scanning
<1>5. ASSUME NEW m \in (i - 1) .. Len(text), NEW n \in (i - 1) .. Len(text), n = m + 1
      PROVE  f[n] = ScanByte(f[m], text[n], text[i])
  <2>1. n # i - 1 /\ n - 1 = m
    BY <1>5
  <2> QED BY <2>1, <1>4
<1>6. f[i - 1] = ScanStart(i)
  BY <1>4
<1> QED BY Zenon, <1>3, <1>5, <1>6

(* The states of the two readers. *)
NestTypes == [stack : Seq(Opening), str : BOOLEAN, esc : BOOLEAN, ok : BOOLEAN]
ScanTypes == [at : Int, depth : Int, str : BOOLEAN, esc : BOOLEAN, end : BOOLEAN]

Shut == {"}", "]"}

(* The last of a stack and the rest of it. *)
LEMMA LastAndFront ==
  ASSUME NEW S, NEW s \in Seq(S), s # <<>>
  PROVE  /\ Front(s) \in Seq(S) /\ Last(s) \in S /\ Len(s) \in Nat \ {0} /\ Len(Front(s)) = Len(s) - 1
         /\ Last(s) = s[Len(s)] /\ \A k \in 1 .. (Len(s) - 1) : Front(s)[k] = s[k]
<1>1. PICK n \in Nat \ {0} : n = Len(s)
  BY EmptySeq
<1>2. \A k \in 1 .. n - 1 : s[k] \in S
  BY <1>1, ElementOfSeq
<1>3. PICK f : f = SubSeq(s, 1, n - 1)
  OBVIOUS
<1>4. f \in Seq(S) /\ Len(f) = n - 1 /\ \A k \in 1 .. (n - 1) : f[k] = s[k]
  BY <1>2, <1>3, SubSeqProperties
<1>5. Front(s) = f /\ Last(s) = s[n]
  BY <1>1, <1>3 DEF Front, Last
<1>6. s[n] \in S
  BY <1>1, ElementOfSeq
<1> QED BY <1>1, <1>4, <1>5, <1>6

(* One byte of the value. *)
LEMMA InString ==
  ASSUME NEW s \in NestTypes, NEW c, s.esc \/ s.str
  PROVE  /\ NestByte(s, c) \in NestTypes /\ NestByte(s, c).ok = s.ok /\ NestByte(s, c).stack = s.stack
         /\ s.esc => ~NestByte(s, c).esc /\ NestByte(s, c).str = s.str
         /\ ~s.esc => NestByte(s, c).esc = (c = "b") /\ NestByte(s, c).str = (c # "q")
<1>1. CASE s.esc
  <2>1. NestByte(s, c) = [s EXCEPT !.esc = FALSE]
    BY <1>1 DEF NestByte
  <2> QED BY <1>1, <2>1 DEF NestTypes
<1>2. CASE ~s.esc /\ s.str
  <2>1. NestByte(s, c) = [s EXCEPT !.esc = c = "b", !.str = c # "q"]
    BY <1>2 DEF NestByte
  <2> QED BY <1>2, <2>1 DEF NestTypes
<1> QED BY <1>1, <1>2 DEF NestTypes

(* An opening bracket. *)
LEMMA Opens ==
  ASSUME NEW s \in NestTypes, NEW c \in Opening, ~s.esc, ~s.str
  PROVE  /\ NestByte(s, c) \in NestTypes /\ NestByte(s, c).ok = s.ok /\ NestByte(s, c).stack = Append(s.stack, c)
         /\ ~NestByte(s, c).esc /\ ~NestByte(s, c).str
<1>1. PICK st : st = Append(s.stack, c)
  OBVIOUS
<1>2. st \in Seq(Opening)
  BY <1>1 DEF NestTypes
<1>3. NestByte(s, c) = [s EXCEPT !.stack = st]
  BY <1>1 DEF NestByte, Opening
<1> QED BY <1>1, <1>2, <1>3 DEF NestTypes

(* A closing bracket. *)
LEMMA Closes ==
  ASSUME NEW s \in NestTypes, NEW c \in Shut, ~s.esc, ~s.str
  PROVE  /\ NestByte(s, c) \in NestTypes /\ (NestByte(s, c).ok => s.ok)
         /\ NestByte(s, c).ok =>
              /\ s.stack # <<>> /\ Closing(Last(s.stack)) = c /\ NestByte(s, c).stack = Front(s.stack)
              /\ ~NestByte(s, c).esc /\ ~NestByte(s, c).str
<1>1. NestByte(s, c) = IF s.stack # <<>> /\ Closing(Last(s.stack)) = c THEN [s EXCEPT !.stack = Front(@)] ELSE [s EXCEPT !.ok = FALSE]
  BY DEF NestByte, Shut, Opening
<1>2. CASE s.stack # <<>> /\ Closing(Last(s.stack)) = c
  <2>1. PICK st : st = Front(s.stack)
    OBVIOUS
  <2>2. st \in Seq(Opening)
    BY <1>2, <2>1, LastAndFront DEF NestTypes
  <2>3. NestByte(s, c) = [s EXCEPT !.stack = st]
    BY <1>1, <1>2, <2>1
  <2> QED BY <1>2, <2>1, <2>2, <2>3 DEF NestTypes
<1>3. CASE ~(s.stack # <<>> /\ Closing(Last(s.stack)) = c)
  <2>1. NestByte(s, c) = [s EXCEPT !.ok = FALSE]
    BY Zenon, <1>1, <1>3
  <2> QED BY <2>1 DEF NestTypes
<1> QED BY <1>2, <1>3

(* Any other byte outside strings. *)
LEMMA Passes ==
  ASSUME NEW s \in NestTypes, NEW c, c \notin Opening, c \notin Shut, ~s.esc, ~s.str
  PROVE  /\ NestByte(s, c) \in NestTypes /\ NestByte(s, c).ok = s.ok /\ NestByte(s, c).stack = s.stack
         /\ ~NestByte(s, c).esc /\ NestByte(s, c).str = (c = "q")
<1>1. NestByte(s, c) = [s EXCEPT !.str = c = "q"]
  BY DEF NestByte, Shut, Opening
<1> QED BY <1>1 DEF NestTypes

(* One byte of the text: what the depth becomes outside a string. *)
Deeper(d, c, open) == d + (IF c = open THEN 1 ELSE IF c = Closing(open) THEN -1 ELSE 0)

(* A byte of the text inside a string. *)
LEMMA ScanInString ==
  ASSUME NEW u \in ScanTypes, NEW c, NEW open, u.esc \/ u.str, ~u.end
  PROVE  /\ ScanByte(u, c, open) \in ScanTypes /\ ScanByte(u, c, open).at = u.at + 1
         /\ ScanByte(u, c, open).depth = u.depth /\ ~ScanByte(u, c, open).end
         /\ u.esc => ~ScanByte(u, c, open).esc /\ ScanByte(u, c, open).str = u.str
         /\ ~u.esc => ScanByte(u, c, open).esc = (c = "b") /\ ScanByte(u, c, open).str = (c # "q")
<1> PICK at \in Int : at = u.at + 1
  BY DEF ScanTypes
<1>1. CASE u.esc
  <2>1. ScanByte(u, c, open) = [u EXCEPT !.at = at, !.esc = FALSE]
    BY <1>1 DEF ScanByte
  <2> QED BY <1>1, <2>1 DEF ScanTypes
<1>2. CASE ~u.esc /\ u.str
  <2>1. ScanByte(u, c, open) = [u EXCEPT !.at = at, !.esc = c = "b", !.str = c # "q"]
    BY <1>2 DEF ScanByte
  <2> QED BY <1>2, <2>1 DEF ScanTypes
<1> QED BY <1>1, <1>2 DEF ScanTypes

(* A byte of the text outside strings. *)
LEMMA ScanOutside ==
  ASSUME NEW u \in ScanTypes, NEW c, NEW open, ~u.esc, ~u.str, ~u.end
  PROVE  /\ ScanByte(u, c, open) \in ScanTypes /\ ScanByte(u, c, open).at = u.at + 1
         /\ ScanByte(u, c, open).depth = Deeper(u.depth, c, open)
         /\ ScanByte(u, c, open).end = (u.depth = 1 /\ c = Closing(open))
         /\ ~ScanByte(u, c, open).esc /\ ScanByte(u, c, open).str = (c = "q")
<1>1. ScanByte(u, c, open) = [u EXCEPT !.at = @ + 1, !.str = c = "q", !.end = u.depth = 1 /\ c = Closing(open),
                            !.depth = @ + (IF c = open THEN 1 ELSE IF c = Closing(open) THEN -1 ELSE 0)]
  BY DEF ScanByte
<1>2. PICK d : d = Deeper(u.depth, c, open)
  OBVIOUS
<1>3. d \in Int
  BY <1>2 DEF Deeper, ScanTypes
<1>4. PICK e, q \in BOOLEAN : e = (u.depth = 1 /\ c = Closing(open)) /\ q = (c = "q")
  OBVIOUS
<1> PICK at \in Int : at = u.at + 1
  BY DEF ScanTypes
<1>5. ScanByte(u, c, open) = [u EXCEPT !.at = at, !.str = q, !.end = e, !.depth = d]
  BY <1>1, <1>2, <1>4 DEF Deeper, ScanTypes
<1> QED BY <1>2, <1>3, <1>4, <1>5 DEF ScanTypes

(* After the end nothing is counted. *)
LEMMA ScanOver ==
  ASSUME NEW u \in ScanTypes, NEW c, NEW open, u.end
  PROVE  ScanByte(u, c, open) = u
BY DEF ScanByte

(* The brackets of one kind that are open. *)
Places(st, o) == {k \in 1 .. Len(st) : st[k] = o}
Count(st, o) == Cardinality(Places(st, o))

(* Their number is a natural number. *)
LEMMA PlacesFinite ==
  ASSUME NEW st, NEW o, Len(st) \in Nat
  PROVE  IsFiniteSet(Places(st, o)) /\ Count(st, o) \in Nat
<1>1. IsFiniteSet(1 .. Len(st))
  BY FS_Interval
<1>2. Places(st, o) \in SUBSET (1 .. Len(st))
  BY DEF Places
<1> QED BY <1>1, <1>2, FS_Subset, FS_CardinalityType DEF Count

(* One more bracket. *)
LEMMA CountGrows ==
  ASSUME NEW n \in Nat, NEW st, NEW r, Len(st) = n, Len(r) = n + 1, \A k \in 1 .. n : r[k] = st[k], NEW o
  PROVE  Count(r, o) = Count(st, o) + (IF r[n + 1] = o THEN 1 ELSE 0)
<1>1. IsFiniteSet(Places(st, o)) /\ Count(st, o) \in Nat
  BY PlacesFinite
<1>2. CASE r[n + 1] = o
  <2>1. Places(r, o) = Places(st, o) \cup {n + 1}
    BY <1>2 DEF Places
  <2>2. n + 1 \notin Places(st, o)
    BY DEF Places
  <2>3. Cardinality(Places(st, o) \cup {n + 1}) = Cardinality(Places(st, o)) + 1
    BY <1>1, <2>2, FS_AddElement
  <2> QED BY <1>2, <2>1, <2>3 DEF Count
<1>3. CASE r[n + 1] # o
  <2>1. Places(r, o) = Places(st, o)
    BY <1>3 DEF Places
  <2> QED BY <1>1, <1>3, <2>1 DEF Count
<1> QED BY <1>2, <1>3

(* One more bracket opened. *)
LEMMA CountAppend ==
  ASSUME NEW S, NEW st \in Seq(S), NEW c \in S, NEW o
  PROVE  Count(Append(st, c), o) = Count(st, o) + (IF c = o THEN 1 ELSE 0)
<1>1. PICK n, r : n = Len(st) /\ r = Append(st, c)
  OBVIOUS
<1>2. n \in Nat /\ Len(st) = n /\ Len(r) = n + 1 /\ r[n + 1] = c /\ \A k \in 1 .. n : r[k] = st[k]
  BY <1>1
<1>3. Count(r, o) = Count(st, o) + (IF r[n + 1] = o THEN 1 ELSE 0)
  BY <1>2, CountGrows
<1> QED BY <1>1, <1>2, <1>3

(* The last bracket closed. *)
LEMMA CountFront ==
  ASSUME NEW S, NEW st \in Seq(S), st # <<>>, NEW o
  PROVE  Count(st, o) = Count(Front(st), o) + (IF Last(st) = o THEN 1 ELSE 0)
<1>1. PICK f, n : f = Front(st) /\ n = Len(st) - 1
  OBVIOUS
<1>2. /\ n \in Nat /\ Len(f) = n /\ Len(st) = n + 1 /\ \A k \in 1 .. n : st[k] = f[k]
      /\ Last(st) = st[n + 1]
  BY <1>1, LastAndFront
<1>3. Count(st, o) = Count(f, o) + (IF st[n + 1] = o THEN 1 ELSE 0)
  BY <1>2, CountGrows
<1> QED BY <1>1, <1>2, <1>3

(* A stack whose first and last are of one kind has one of that kind exactly if it has nothing else. *)
LEMMA CountOne ==
  ASSUME NEW S, NEW st \in Seq(S), st # <<>>, NEW o, st[1] = o, Last(st) = o
  PROVE  Count(st, o) = 1 <=> Len(st) = 1
<1>1. PICK n \in Nat \ {0} : n = Len(st) /\ Last(st) = st[n]
  BY LastAndFront
<1>2. IsFiniteSet(Places(st, o)) /\ 1 \in Places(st, o) /\ n \in Places(st, o)
  <2>1. Len(st) \in Nat /\ 1 \in 1 .. Len(st) /\ n \in 1 .. Len(st) /\ st[n] = o
    BY <1>1
  <2> QED BY <2>1, PlacesFinite DEF Places
<1>3. Count(st, o) = 1 <=> \E x : Places(st, o) = {x}
  BY <1>2, FS_Singleton DEF Count
<1>4. ASSUME NEW x, Places(st, o) = {x} PROVE n = 1
  BY <1>2, <1>4
<1>5. ASSUME n = 1 PROVE Places(st, o) = {1}
  BY <1>1, <1>2, <1>5 DEF Places
<1> QED BY <1>1, <1>3, <1>4, <1>5

(* Nothing open. *)
LEMMA CountNone == ASSUME NEW o PROVE Count(<<>>, o) = 0
<1>1. Places(<<>>, o) = {}
  BY DEF Places
<1> QED BY <1>1, FS_EmptySet DEF Count

(* A byte keeps the types, and what is not well-formed stays so. *)
LEMMA NestStep ==
  ASSUME NEW s \in NestTypes, NEW c
  PROVE  NestByte(s, c) \in NestTypes /\ (NestByte(s, c).ok => s.ok)
<1>1. CASE s.esc \/ s.str
  BY <1>1, InString
<1>2. CASE ~s.esc /\ ~s.str /\ c \in Opening
  BY <1>2, Opens
<1>3. CASE ~s.esc /\ ~s.str /\ c \in Shut
  BY <1>3, Closes
<1>4. CASE ~s.esc /\ ~s.str /\ c \notin Opening /\ c \notin Shut
  BY <1>4, Passes
<1> QED BY <1>1, <1>2, <1>3, <1>4

(* The bottom of a stack that is not empty stays. *)
LEMMA BottomStays ==
  ASSUME NEW s \in NestTypes, NEW c, s.stack # <<>>, NestByte(s, c).ok, NestByte(s, c).stack # <<>>
  PROVE  NestByte(s, c).stack[1] = s.stack[1]
<1>0. PICK st, r : st = s.stack /\ r = NestByte(s, c).stack
  OBVIOUS
<1>1. st \in Seq(Opening) /\ Len(st) \in Nat \ {0}
  <2>1. st \in Seq(Opening) /\ st # <<>>
    BY <1>0 DEF NestTypes
  <2> QED BY <2>1, EmptySeq
<1>2. CASE r = st
  BY <1>0, <1>2
<1>3. CASE r = Append(st, c)
  <2>1. r[1] = st[1]
    BY <1>1, <1>3
  <2> QED BY <1>0, <2>1
<1>4. CASE r = Front(st)
  <2>1. Len(r) = Len(st) - 1 /\ r \in Seq(Opening) /\ r # <<>> /\ \A k \in 1 .. (Len(st) - 1) : r[k] = st[k]
    BY <1>0, <1>1, <1>4, LastAndFront
  <2>2. Len(r) \in Nat \ {0}
    BY <2>1, EmptySeq
  <2>3. 1 \in 1 .. (Len(st) - 1)
    BY <1>1, <2>1, <2>2
  <2> QED BY <1>0, <2>1, <2>3
<1>5. r = st \/ r = Append(st, c) \/ r = Front(st)
  <2>1. CASE s.esc \/ s.str
    BY <1>0, <2>1, InString
  <2>2. CASE ~s.esc /\ ~s.str /\ c \in Opening
    BY <1>0, <2>2, Opens
  <2>3. CASE ~s.esc /\ ~s.str /\ c \in Shut
    BY <1>0, <2>3, Closes
  <2>4. CASE ~s.esc /\ ~s.str /\ c \notin Opening /\ c \notin Shut
    BY <1>0, <2>4, Passes
  <2> QED BY <2>1, <2>2, <2>3, <2>4
<1> QED BY <1>2, <1>3, <1>4, <1>5

(* Reading a value: the bracket it opens with is at the bottom of the stack *)
(* until its last byte.                                                     *)
Reading(v, m) ==
    /\ Nested(v)[m] \in NestTypes /\ Nested(v)[m].ok
    /\ m = 0 => Nested(v)[m] = NestStart
    /\ m \in 1 .. (Len(v) - 1) => Nested(v)[m].stack # <<>> /\ Nested(v)[m].stack[1] = v[1]
    /\ m = Len(v) => Nested(v)[m].stack = <<>>

(* Every value is read like that. *)
LEMMA ValueReads ==
  ASSUME NEW v, IsValue(v)
  PROVE  /\ Len(v) \in Nat \ {0} /\ v \in Seq(STRING) /\ v[1] \in Opening
         /\ \A m \in 0 .. Len(v) : Reading(v, m)
         /\ \A m \in 0 .. (Len(v) - 1) : Nested(v)[m + 1] = NestByte(Nested(v)[m], v[m + 1])
<1>1. PICK n \in Nat \ {0} : n = Len(v)
  BY EmptySeq DEF IsValue
<1>2. v \in Seq(STRING) /\ v[1] \in Opening
  BY DEF IsValue
<1>3. PICK N : N = Nested(v)
  OBVIOUS
<1>4. N[0] = NestStart /\ \A m \in 0 .. (n - 1) : N[m + 1] = NestByte(N[m], v[m + 1])
  <2>1. Nested(v)[0] = NestStart /\ \A k, m \in 0 .. n : m = k + 1 => Nested(v)[m] = NestByte(Nested(v)[k], v[m])
    BY <1>1, NestIs
  <2>2. ASSUME NEW m \in 0 .. (n - 1) PROVE m \in 0 .. n /\ m + 1 \in 0 .. n
    OBVIOUS
  <2> QED BY <1>3, <2>1, <2>2
<1>5. N[n].ok /\ N[n].stack = <<>> /\ \A m \in 1 .. (n - 1) : N[m].stack # <<>>
  BY <1>1, <1>3 DEF IsValue, WellFormed
<1>6. \A m \in 0 .. n : N[m] \in NestTypes
  <2> DEFINE Good == {m \in Nat : N[m] \in NestTypes}
  <2>1. 0 \in Good
    <3>1. NestStart \in NestTypes
      BY DEF NestStart, NestTypes
    <3>2. N[0] \in NestTypes
      BY Zenon, <1>4, <3>1
    <3> QED BY <3>2
  <2>2. ASSUME NEW m \in 0 .. (n - 1), m \in Good PROVE m + 1 \in Good
    BY <1>4, <2>2, NestStep
  <2>3. \A m \in 0 .. n : m \in Good
    <3> HIDE DEF Good
    <3> QED BY <2>1, <2>2, Stepwise
  <2> QED BY <2>3
<1>7. \A m \in 0 .. n : N[m].ok
  <2> DEFINE Good == {d \in Nat : d <= n => N[n - d].ok}
  <2>1. 0 \in Good
    BY <1>5
  <2>2. ASSUME NEW d \in 0 .. (n - 1), d \in Good PROVE d + 1 \in Good
    <3>1. PICK m \in 0 .. (n - 1) : m = n - (d + 1) /\ m + 1 = n - d
      <4>1. n - (d + 1) \in 0 .. (n - 1) /\ n - (d + 1) + 1 = n - d
        OBVIOUS
      <4> QED BY <4>1
    <3>2. N[m + 1].ok
      BY <2>2, <3>1
    <3>3. m \in 0 .. n /\ N[m + 1] = NestByte(N[m], v[m + 1])
      BY <1>4
    <3>4. N[m].ok
      BY <1>6, <3>2, <3>3, NestStep
    <3> QED BY <3>1, <3>4
  <2>3. \A d \in 0 .. n : d \in Good
    <3> HIDE DEF Good
    <3> QED BY <2>1, <2>2, Stepwise
  <2>4. ASSUME NEW m \in 0 .. n PROVE N[m].ok
    <3>1. PICK d \in 0 .. n : d = n - m /\ n - d = m
      <4>1. n - m \in 0 .. n /\ n - (n - m) = m
        OBVIOUS
      <4> QED BY <4>1
    <3>2. d \in Good
      BY <2>3
    <3> QED BY <3>1, <3>2
  <2> QED BY <2>4
<1>8. \A m \in 1 .. (n - 1) : N[m].stack[1] = v[1]
  <2> DEFINE Good == {m \in Nat : m <= n - 1 => N[m].stack[1] = v[1]}
  <2>1. 1 \in Good
    <3>1. N[0] \in NestTypes /\ ~N[0].esc /\ ~N[0].str /\ N[0].stack = <<>>
      BY <1>4, <1>6 DEF NestStart
    <3>2. N[0 + 1] = NestByte(N[0], v[0 + 1])
      BY <1>4
    <3>3. N[1].stack = Append(<<>>, v[1])
      BY <1>2, <3>1, <3>2, Opens
    <3> QED BY <3>3
  <2>2. ASSUME NEW m \in 1 .. (n - 1), m \in Good PROVE m + 1 \in Good
    <3>1. CASE m + 1 <= n - 1
      <4>1. /\ m \in 0 .. (n - 1) /\ m \in 0 .. n /\ m + 1 \in 0 .. n
            /\ m \in 1 .. (n - 1) /\ m + 1 \in 1 .. (n - 1)
        BY <3>1
      <4>2. N[m] \in NestTypes /\ N[m].stack # <<>> /\ N[m + 1].stack # <<>> /\ N[m + 1].ok
        BY <1>5, <1>6, <1>7, <4>1
      <4>3. N[m + 1] = NestByte(N[m], v[m + 1]) /\ N[m].stack[1] = v[1]
        BY <1>4, <2>2, <4>1
      <4>4. N[m + 1].stack[1] = v[1]
        BY <4>2, <4>3, BottomStays
      <4> QED BY <4>4
    <3>2. CASE ~(m + 1 <= n - 1)
      BY <3>2
    <3> QED BY <3>1, <3>2
  <2>3. \A m \in 1 .. (n - 1) : m \in Good
    <3>1. 1 \in Nat /\ n - 1 \in Nat
      OBVIOUS
    <3>2. \A m \in 1 .. (n - 1 - 1) : m \in Good => m + 1 \in Good
      BY <2>2
    <3> HIDE DEF Good
    <3> QED BY <2>1, <3>1, <3>2, Stepwise
  <2> QED BY <2>3
<1>9. ASSUME NEW m \in 0 .. n PROVE Reading(v, m)
  BY <1>1, <1>3, <1>4, <1>5, <1>6, <1>7, <1>8 DEF Reading
<1> QED BY <1>1, <1>2, <1>3, <1>4, <1>9

(* The two readers agree: matchDelim counts the open brackets of one kind. *)
Agree(u, s, at, o) ==
    /\ s \in NestTypes /\ u \in ScanTypes /\ ~u.end
    /\ u.at = at /\ u.depth = Count(s.stack, o) /\ u.str = s.str /\ u.esc = s.esc

(* They agree after a byte inside a string. *)
LEMMA AgreeInString ==
  ASSUME NEW u, NEW s, NEW at \in Int, NEW o \in Opening, Agree(u, s, at, o), NEW c, s.esc \/ s.str
  PROVE  Agree(ScanByte(u, c, o), NestByte(s, c), at + 1, o)
<1>1. s \in NestTypes /\ u \in ScanTypes /\ ~u.end /\ u.esc = s.esc /\ u.str = s.str /\ u.at = at /\ u.depth = Count(s.stack, o)
  BY DEF Agree
<1>2. PICK r, w : r = NestByte(s, c) /\ w = ScanByte(u, c, o)
  OBVIOUS
<1>3. /\ r \in NestTypes /\ r.stack = s.stack
      /\ s.esc => ~r.esc /\ r.str = s.str
      /\ ~s.esc => r.esc = (c = "b") /\ r.str = (c # "q")
  BY <1>1, <1>2, InString
<1>4. /\ w \in ScanTypes /\ w.at = u.at + 1 /\ w.depth = u.depth /\ ~w.end
      /\ u.esc => ~w.esc /\ w.str = u.str
      /\ ~u.esc => w.esc = (c = "b") /\ w.str = (c # "q")
  BY <1>1, <1>2, ScanInString
<1>5. w.str = r.str /\ w.esc = r.esc
  BY <1>1, <1>3, <1>4 DEF NestTypes, ScanTypes
<1> QED BY <1>1, <1>2, <1>3, <1>4, <1>5 DEF Agree

(* They agree after an opening bracket. *)
LEMMA AgreeOpening ==
  ASSUME NEW u, NEW s, NEW at \in Int, NEW o \in Opening, Agree(u, s, at, o), NEW c \in Opening, ~s.esc, ~s.str
  PROVE  Agree(ScanByte(u, c, o), NestByte(s, c), at + 1, o) /\ NestByte(s, c).stack # <<>>
<1>1. s \in NestTypes /\ u \in ScanTypes /\ ~u.end /\ ~u.esc /\ ~u.str /\ u.at = at /\ u.depth = Count(s.stack, o)
  BY DEF Agree
<1>2. PICK r, w : r = NestByte(s, c) /\ w = ScanByte(u, c, o)
  OBVIOUS
<1>3. r \in NestTypes /\ r.stack = Append(s.stack, c) /\ ~r.esc /\ ~r.str
  BY <1>1, <1>2, Opens
<1>4. /\ w \in ScanTypes /\ w.at = u.at + 1 /\ w.depth = Deeper(u.depth, c, o) /\ ~w.esc
      /\ w.end = (u.depth = 1 /\ c = Closing(o)) /\ w.str = (c = "q")
  BY <1>1, <1>2, ScanOutside
<1>5. c # "q" /\ c # Closing(o)
  BY DEF Opening, Closing
<1>6. s.stack \in Seq(Opening) /\ r.stack # <<>>
  BY <1>1, <1>3 DEF NestTypes
<1>7. Count(r.stack, o) = Count(s.stack, o) + (IF c = o THEN 1 ELSE 0)
  BY <1>3, <1>6, CountAppend
<1>8. w.depth = Count(r.stack, o)
  <2>1. w.depth = u.depth + (IF c = o THEN 1 ELSE 0)
    BY <1>4, <1>5 DEF Deeper
  <2> QED BY <1>1, <1>7, <2>1
<1>9. w.str = r.str /\ w.esc = r.esc /\ ~w.end
  BY <1>3, <1>4, <1>5 DEF NestTypes, ScanTypes
<1> QED BY <1>1, <1>2, <1>3, <1>4, <1>6, <1>8, <1>9 DEF Agree

(* They agree after any other byte outside strings. *)
LEMMA AgreePassing ==
  ASSUME NEW u, NEW s, NEW at \in Int, NEW o \in Opening, Agree(u, s, at, o), NEW c, c \notin Opening, c \notin Shut, ~s.esc, ~s.str
  PROVE  Agree(ScanByte(u, c, o), NestByte(s, c), at + 1, o)
<1>1. s \in NestTypes /\ u \in ScanTypes /\ ~u.end /\ ~u.esc /\ ~u.str /\ u.at = at /\ u.depth = Count(s.stack, o)
  BY DEF Agree
<1>2. PICK r, w : r = NestByte(s, c) /\ w = ScanByte(u, c, o)
  OBVIOUS
<1>3. r \in NestTypes /\ r.stack = s.stack /\ ~r.esc /\ r.str = (c = "q")
  BY <1>1, <1>2, Passes
<1>4. /\ w \in ScanTypes /\ w.at = u.at + 1 /\ w.depth = Deeper(u.depth, c, o) /\ ~w.esc
      /\ w.end = (u.depth = 1 /\ c = Closing(o)) /\ w.str = (c = "q")
  BY <1>1, <1>2, ScanOutside
<1>5. c # o /\ c # Closing(o)
  BY DEF Opening, Closing, Shut
<1>6. w.depth = u.depth
  BY <1>1, <1>4, <1>5 DEF Deeper, ScanTypes
<1>7. w.str = r.str /\ w.esc = r.esc /\ ~w.end
  BY <1>3, <1>4, <1>5 DEF NestTypes, ScanTypes
<1> QED BY <1>1, <1>2, <1>3, <1>4, <1>6, <1>7 DEF Agree

(* The bracket that leaves nothing open is the one where matchDelim ends.   *)
LEMMA AgreeClosing ==
  ASSUME NEW u, NEW s, NEW at \in Int, NEW o \in Opening, Agree(u, s, at, o), NEW c \in Shut, ~s.esc, ~s.str,
         s.stack # <<>>, s.stack[1] = o, NestByte(s, c).ok
  PROVE  /\ ScanByte(u, c, o) \in ScanTypes /\ ScanByte(u, c, o).at = at + 1
         /\ NestByte(s, c).stack # <<>> => Agree(ScanByte(u, c, o), NestByte(s, c), at + 1, o)
         /\ NestByte(s, c).stack = <<>> => ScanByte(u, c, o).end
<1>1. s \in NestTypes /\ u \in ScanTypes /\ ~u.end /\ ~u.esc /\ ~u.str /\ u.at = at /\ u.depth = Count(s.stack, o)
  BY DEF Agree
<1>2. PICK r, w, st, n : r = NestByte(s, c) /\ w = ScanByte(u, c, o) /\ st = s.stack /\ n = Len(st)
  OBVIOUS
<1>3. r \in NestTypes /\ Closing(Last(st)) = c /\ r.stack = Front(st) /\ ~r.esc /\ ~r.str
  BY <1>1, <1>2, Closes
<1>4. /\ w \in ScanTypes /\ w.at = u.at + 1 /\ w.depth = Deeper(u.depth, c, o) /\ ~w.esc
      /\ w.end = (u.depth = 1 /\ c = Closing(o)) /\ w.str = (c = "q")
  BY <1>1, <1>2, ScanOutside
<1>5. st \in Seq(Opening) /\ st # <<>> /\ st[1] = o
  BY <1>1, <1>2 DEF NestTypes
<1>6. Last(st) \in Opening /\ n \in Nat \ {0} /\ Len(Front(st)) = n - 1 /\ Front(st) \in Seq(Opening)
  BY <1>2, <1>5, LastAndFront
<1>7. c # "q" /\ c # o /\ (c = Closing(o) <=> Last(st) = o)
  <2>1. PICK l \in Opening : l = Last(st) /\ c = Closing(l)
    BY <1>3, <1>6
  <2>2. c # "q" /\ c # o /\ (c = Closing(o) <=> l = o)
    BY <2>1 DEF Opening, Closing
  <2> QED BY <2>1, <2>2
<1>8. Count(st, o) = Count(Front(st), o) + (IF Last(st) = o THEN 1 ELSE 0)
  BY <1>5, CountFront
<1>9. Count(Front(st), o) \in Nat
  <2>1. Len(Front(st)) \in Nat
    BY <1>6
  <2> QED BY <2>1, PlacesFinite
<1>10. w.depth = Count(Front(st), o)
  BY <1>1, <1>2, <1>4, <1>7, <1>8, <1>9 DEF Deeper
<1>11. w.end <=> n = 1
  <2>1. ASSUME Last(st) = o PROVE w.end <=> n = 1
    <3>1. Count(st, o) = 1 <=> n = 1
      BY <1>2, <1>5, <2>1, CountOne
    <3> QED BY <1>1, <1>2, <1>4, <1>7, <2>1, <3>1
  <2>2. ASSUME Last(st) # o PROVE ~w.end /\ n # 1
    <3>1. Last(st) = st[n]
      BY <1>2, <1>5, LastAndFront
    <3> QED BY <1>4, <1>5, <1>7, <2>2, <3>1
  <2> QED BY <2>1, <2>2
<1>12. Front(st) = <<>> <=> n = 1
  BY <1>6, EmptySeq
<1>13. w.str = r.str /\ w.esc = r.esc
  BY <1>3, <1>4, <1>7 DEF NestTypes, ScanTypes
<1>14. ASSUME r.stack # <<>> PROVE Agree(w, r, at + 1, o)
  <2>1. ~w.end
    BY <1>3, <1>11, <1>12, <1>14
  <2> QED BY <1>1, <1>3, <1>4, <1>10, <1>13, <2>1 DEF Agree
<1>15. ASSUME r.stack = <<>> PROVE w.end
  BY <1>3, <1>11, <1>12, <1>15
<1> QED BY <1>1, <1>2, <1>4, <1>14, <1>15

(* One byte of matchDelim keeps to its types and never goes back. *)
LEMMA ScanStep ==
  ASSUME NEW u \in ScanTypes, NEW c, NEW open
  PROVE  ScanByte(u, c, open) \in ScanTypes /\ ScanByte(u, c, open).at \in {u.at, u.at + 1}
<1>1. CASE u.end
  BY <1>1, ScanOver
<1>2. CASE ~u.end /\ (u.esc \/ u.str)
  BY <1>2, ScanInString
<1>3. CASE ~u.end /\ ~u.esc /\ ~u.str
  BY <1>3, ScanOutside
<1> QED BY <1>1, <1>2, <1>3

(* Every state of matchDelim has its types, and is not ahead of what was read. *)
LEMMA Scanned ==
  ASSUME NEW t, Len(t) \in Nat, NEW i \in 1 .. Len(t), NEW n \in (i - 1) .. Len(t)
  PROVE  Scan(t, i)[n] \in ScanTypes /\ Scan(t, i)[n].at <= n
<1>1. PICK S, L : S = Scan(t, i) /\ L = Len(t) /\ L \in Nat
  OBVIOUS
<1>2. S[i - 1] = ScanStart(i) /\ \A m \in (i - 1) .. (L - 1) : S[m + 1] = ScanByte(S[m], t[m + 1], t[i])
  <2>1. S[i - 1] = ScanStart(i) /\ \A k, m \in (i - 1) .. L : m = k + 1 => S[m] = ScanByte(S[k], t[m], t[i])
    BY <1>1, ScanIs
  <2>2. ASSUME NEW m \in (i - 1) .. (L - 1) PROVE m \in (i - 1) .. L /\ m + 1 \in (i - 1) .. L
    BY <1>1
  <2> QED BY <2>1, <2>2
<1> DEFINE Good == {m \in Nat : S[m] \in ScanTypes /\ S[m].at <= m}
<1>3. i - 1 \in Good
  <2>1. ScanStart(i) \in ScanTypes /\ ScanStart(i).at = i - 1
    BY DEF ScanStart, ScanTypes
  <2> QED BY <1>2, <2>1
<1>4. ASSUME NEW m \in (i - 1) .. (L - 1), m \in Good PROVE m + 1 \in Good
  <2>1. PICK u : u = S[m] /\ u \in ScanTypes /\ u.at <= m /\ m \in Int
    BY <1>4
  <2>2. PICK w : w = S[m + 1] /\ w = ScanByte(u, t[m + 1], t[i])
    BY <1>2, <2>1
  <2>3. w \in ScanTypes /\ w.at \in {u.at, u.at + 1}
    BY <2>1, <2>2, ScanStep
  <2>4. w.at <= m + 1
    BY <2>1, <2>3 DEF ScanTypes
  <2>5. m + 1 \in Nat
    OBVIOUS
  <2> QED BY <2>2, <2>3, <2>4, <2>5
<1>5. \A m \in (i - 1) .. L : m \in Good
  <2>1. i - 1 \in Nat
    OBVIOUS
  <2> HIDE DEF Good
  <2> QED BY <1>1, <1>3, <1>4, <2>1, Stepwise
<1> QED BY <1>1, <1>5

(* What it has found stays found. *)
LEMMA FoundStays ==
  ASSUME NEW t, Len(t) \in Nat, NEW i \in 1 .. Len(t), NEW n \in (i - 1) .. Len(t), Scan(t, i)[n].end
  PROVE  Scan(t, i)[Len(t)] = Scan(t, i)[n]
<1>1. PICK S, L, f : S = Scan(t, i) /\ L = Len(t) /\ L \in Nat /\ f = S[n]
  OBVIOUS
<1>2. \A m \in (i - 1) .. (L - 1) : S[m + 1] = ScanByte(S[m], t[m + 1], t[i])
  <2>1. \A k, m \in (i - 1) .. L : m = k + 1 => S[m] = ScanByte(S[k], t[m], t[i])
    BY <1>1, ScanIs
  <2>2. ASSUME NEW m \in (i - 1) .. (L - 1) PROVE m \in (i - 1) .. L /\ m + 1 \in (i - 1) .. L
    BY <1>1
  <2> QED BY <2>1, <2>2
<1>3. f \in ScanTypes /\ f.end
  BY <1>1, Scanned
<1> DEFINE Good == {m \in Nat : S[m] = f}
<1>4. n \in Good /\ n \in Nat /\ n <= L
  BY <1>1
<1>5. ASSUME NEW m \in n .. (L - 1), m \in Good PROVE m + 1 \in Good
  <2>1. m \in (i - 1) .. (L - 1) /\ m + 1 \in Nat /\ S[m] = f
    BY <1>4, <1>5
  <2>2. S[m + 1] = ScanByte(f, t[m + 1], t[i])
    BY <1>2, <2>1
  <2>3. S[m + 1] = f
    BY <1>3, <2>2, ScanOver
  <2> QED BY <2>1, <2>3
<1>6. \A m \in n .. L : m \in Good
  <2> HIDE DEF Good
  <2> QED BY <1>1, <1>4, <1>5, Stepwise
<1>7. L \in n .. L
  BY <1>1, <1>4
<1> QED BY <1>1, <1>6, <1>7

(* A text in which, after the first p tokens, the first k of a value are.   *)
Carries(t, p, v, k) ==
    /\ Len(t) \in Nat /\ p \in Nat /\ k \in 1 .. Len(v) /\ p + k <= Len(t)
    /\ \A m \in 1 .. k : t[p + m] = v[m]

(* matchDelim follows the value: it ends where the value does. *)
Follows(t, p, v, m) ==
    /\ m < Len(v) => Agree(Scan(t, p + 1)[p + m], Nested(v)[m], p + m, v[1])
    /\ m = Len(v) => Scan(t, p + 1)[p + m].end /\ Scan(t, p + 1)[p + m].at = p + m

(* So it is at each byte of the value that is there. *)
LEMMA Follow ==
  ASSUME NEW v, IsValue(v), NEW t, NEW p, NEW k, Carries(t, p, v, k)
  PROVE  \A m \in 0 .. k : Follows(t, p, v, m)
<1>1. PICK S, N, o, L, n : S = Scan(t, p + 1) /\ N = Nested(v) /\ o = v[1] /\ L = Len(t) /\ n = Len(v)
  OBVIOUS
<1>2. /\ L \in Nat /\ p \in Nat /\ k \in 1 .. n /\ p + k <= L /\ k \in Nat
      /\ n \in Nat \ {0} /\ o \in Opening /\ p + 1 \in 1 .. L
  BY <1>1, ValueReads DEF Carries
<1>3. t[p + 1] = o
  <2>1. 1 \in 1 .. k
    BY <1>2
  <2> QED BY <1>1, <2>1 DEF Carries
<1>4. S[p] = ScanStart(p + 1) /\ \A m \in 0 .. (k - 1) : S[p + (m + 1)] = ScanByte(S[p + m], v[m + 1], o)
  <2>1. PICK i : i = p + 1
    OBVIOUS
  <2>2. i - 1 = p /\ i \in 1 .. Len(t) /\ Len(t) \in Nat
    BY <1>1, <1>2, <2>1
  <2>3. /\ Scan(t, i)[i - 1] = ScanStart(i)
        /\ \A x, y \in (i - 1) .. Len(t) : y = x + 1 => Scan(t, i)[y] = ScanByte(Scan(t, i)[x], t[y], t[i])
    BY <2>2, ScanIs
  <2>4. S[p] = ScanStart(p + 1) /\ \A x, y \in p .. L : y = x + 1 => S[y] = ScanByte(S[x], t[y], t[p + 1])
    BY Zenon, <1>1, <2>1, <2>2, <2>3
  <2>5. ASSUME NEW m \in 0 .. (k - 1) PROVE S[p + (m + 1)] = ScanByte(S[p + m], v[m + 1], o)
    <3>1. PICK x, y \in p .. L : x = p + m /\ y = p + (m + 1) /\ y = x + 1
      BY <1>2
    <3>2. m + 1 \in 1 .. k
      BY <1>2
    <3>3. t[y] = v[m + 1]
      BY <3>1, <3>2 DEF Carries
    <3> QED BY <1>3, <2>4, <3>1, <3>3
  <2> QED BY <2>4, <2>5
<1>5. (\A m \in 0 .. n : Reading(v, m)) /\ \A m \in 0 .. (n - 1) : N[m + 1] = NestByte(N[m], v[m + 1])
  BY <1>1, ValueReads
<1>6. N[0] = NestStart
  <2>1. 0 \in 0 .. n
    BY <1>2
  <2> QED BY <1>1, <1>5, <2>1 DEF Reading
<1> DEFINE Good == {m \in Nat : Follows(t, p, v, m)}
<1>7. 0 \in Good
  <2>1. PICK u : u = ScanStart(p + 1)
    OBVIOUS
  <2>2. u \in ScanTypes /\ u.at = p /\ u.depth = 0 /\ ~u.end /\ u.str = FALSE /\ u.esc = FALSE
    BY <1>2, <2>1 DEF ScanStart, ScanTypes
  <2>3. NestStart.stack = <<>> /\ NestStart.str = FALSE /\ NestStart.esc = FALSE
    BY DEF NestStart
  <2>4. NestStart \in NestTypes
    BY DEF NestStart, NestTypes
  <2>5. Agree(u, NestStart, p, o)
    BY Zenon, <2>2, <2>3, <2>4, CountNone DEF Agree
  <2>6. p + 0 = p /\ 0 < n /\ 0 # n /\ 0 \in Nat
    BY <1>2
  <2>7. Agree(S[p + 0], N[0], p + 0, o)
    BY Zenon, <1>4, <1>6, <2>1, <2>5, <2>6
  <2>8. Follows(t, p, v, 0)
    BY Zenon, <1>1, <2>6, <2>7 DEF Follows
  <2> QED BY <2>6, <2>8
<1>8. ASSUME NEW m \in 0 .. (k - 1), m \in Good PROVE m + 1 \in Good
  <2>1. m \in 0 .. n /\ m + 1 \in 0 .. n /\ m \in 0 .. (n - 1) /\ m < n /\ m + 1 \in Nat /\ m \in Nat
    BY <1>2
  <2>2. PICK u, s, c, w, r, at : u = S[p + m] /\ s = N[m] /\ c = v[m + 1] /\ w = ScanByte(u, c, o) /\ r = NestByte(s, c) /\ at = p + m
    OBVIOUS
  <2>3. w = S[p + (m + 1)] /\ r = N[m + 1]
    BY Zenon, <1>4, <1>5, <1>8, <2>1, <2>2
  <2>4. Agree(u, s, at, o) /\ at \in Int /\ p + (m + 1) = at + 1
    BY <1>1, <1>2, <1>8, <2>1, <2>2 DEF Follows
  <2>5. s \in NestTypes /\ (m = 0 => s = NestStart /\ c \in Opening) /\ (m # 0 => s.stack # <<>> /\ s.stack[1] = o)
    <3>1. Reading(v, m)
      BY <1>5, <2>1
    <3>2. m # 0 => m \in 1 .. (n - 1)
      BY <2>1
    <3>3. m = 0 => c = o
      BY <1>1, <2>2
    <3> QED BY <1>1, <1>2, <2>2, <3>1, <3>2, <3>3 DEF Reading
  <2>6. r.ok /\ (m + 1 < n => r.stack # <<>>) /\ (m + 1 = n => r.stack = <<>>)
    <3>1. Reading(v, m + 1)
      BY <1>5, <2>1
    <3>2. m + 1 < n => m + 1 \in 1 .. (n - 1)
      BY <1>2, <2>1
    <3> QED BY <1>1, <2>3, <3>1, <3>2 DEF Reading
  <2>7. (r.stack # <<>> => Agree(w, r, at + 1, o)) /\ (r.stack = <<>> => w.end /\ w.at = at + 1)
    <3>1. CASE m = 0
      <4>1. ~s.esc /\ ~s.str /\ c \in Opening
        BY <2>5, <3>1 DEF NestStart
      <4> QED BY <1>2, <2>2, <2>4, <4>1, AgreeOpening
    <3>2. CASE m # 0 /\ (s.esc \/ s.str)
      <4>1. r.stack = s.stack /\ s.stack # <<>>
        BY <2>2, <2>5, <3>2, InString
      <4>2. Agree(w, r, at + 1, o)
        BY <1>2, <2>2, <2>4, <3>2, AgreeInString
      <4> QED BY <4>1, <4>2
    <3>3. CASE m # 0 /\ ~s.esc /\ ~s.str /\ c \in Opening
      BY <1>2, <2>2, <2>4, <3>3, AgreeOpening
    <3>4. CASE m # 0 /\ ~s.esc /\ ~s.str /\ c \in Shut
      BY <1>2, <2>2, <2>4, <2>5, <2>6, <3>4, AgreeClosing
    <3>5. CASE m # 0 /\ ~s.esc /\ ~s.str /\ c \notin Opening /\ c \notin Shut
      <4>1. r.stack = s.stack /\ s.stack # <<>>
        BY <2>2, <2>5, <3>5, Passes
      <4>2. Agree(w, r, at + 1, o)
        BY <1>2, <2>2, <2>4, <3>5, AgreePassing
      <4> QED BY <4>1, <4>2
    <3> QED BY <3>1, <3>2, <3>3, <3>4, <3>5
  <2>8. Follows(t, p, v, m + 1)
    <3>1. m + 1 < n => Agree(w, r, p + (m + 1), o)
      BY Zenon, <2>4, <2>6, <2>7
    <3>2. m + 1 = n => w.end /\ w.at = p + (m + 1)
      BY Zenon, <2>4, <2>6, <2>7
    <3> QED BY Zenon, <1>1, <2>3, <3>1, <3>2 DEF Follows
  <2> QED BY <2>1, <2>8
<1>9. \A m \in 0 .. k : m \in Good
  <2>1. 0 \in Nat /\ k \in Nat
    BY <1>2
  <2> HIDE DEF Good
  <2> QED BY <1>7, <1>8, <2>1, Stepwise
<1> QED BY <1>9

(* A whole value is matched to its end, a cut one is not closed. *)
LEMMA WholeMatched ==
  ASSUME NEW v, IsValue(v), NEW t, NEW p, Carries(t, p, v, Len(v))
  PROVE  MatchDelim(t, p + 1) = p + Len(v)
<1>1. PICK n : n = Len(v)
  OBVIOUS
<1>2. n \in Nat \ {0} /\ p \in Nat /\ Len(t) \in Nat /\ p + n <= Len(t)
  BY <1>1, ValueReads DEF Carries
<1>3. n \in 0 .. n /\ p + 1 \in 1 .. Len(t) /\ p + n \in (p + 1 - 1) .. Len(t) /\ p + n # 0
  BY <1>2
<1>4. Follows(t, p, v, n)
  BY <1>1, <1>3, Follow
<1>5. Scan(t, p + 1)[p + n].end /\ Scan(t, p + 1)[p + n].at = p + n
  BY Zenon, <1>1, <1>4 DEF Follows
<1>6. Scan(t, p + 1)[Len(t)] = Scan(t, p + 1)[p + n]
  BY <1>2, <1>3, <1>5, FoundStays
<1> QED BY Zenon, <1>1, <1>5, <1>6 DEF MatchDelim

(* A value cut short is never closed. *)
LEMMA CutOpen ==
  ASSUME NEW v, IsValue(v), NEW t, NEW p, NEW k, Carries(t, p, v, k), k < Len(v), Len(t) = p + k
  PROVE  MatchDelim(t, p + 1) = 0
<1>1. k \in 0 .. k
  BY DEF Carries
<1>2. Follows(t, p, v, k)
  BY <1>1, Follow
<1>3. ~Scan(t, p + 1)[p + k].end
  BY Zenon, <1>2 DEF Follows, Agree
<1> QED BY Zenon, <1>3 DEF MatchDelim

(* Three texts after one another. *)
Chained(t, p, c, e) ==
    /\ t \in Seq(STRING) /\ Len(t) = Len(p) + Len(c) + Len(e)
    /\ \A k \in 1 .. Len(p) : t[k] = p[k]
    /\ \A k \in 1 .. Len(c) : t[Len(p) + k] = c[k]

(* What is where in three texts put together. *)
LEMMA Joined ==
  ASSUME NEW p \in Seq(STRING), NEW c \in Seq(STRING), NEW e \in Seq(STRING)
  PROVE  Chained((p \o c) \o e, p, c, e)
<1>1. PICK d, t, l, m, n : d = p \o c /\ t = d \o e /\ l = Len(p) /\ m = Len(c) /\ n = Len(e)
  OBVIOUS
<1>2. l \in Nat /\ m \in Nat /\ n \in Nat
  BY <1>1
<1>3. d \in Seq(STRING) /\ Len(d) = l + m /\ \A k \in 1 .. (l + m) : d[k] = IF k <= l THEN p[k] ELSE c[k - l]
  BY <1>1, ConcatProperties
<1>4. t \in Seq(STRING) /\ Len(t) = Len(d) + n /\ \A k \in 1 .. (Len(d) + n) : t[k] = IF k <= Len(d) THEN d[k] ELSE e[k - Len(d)]
  BY <1>1, <1>3, ConcatProperties
<1>5. Len(t) = l + m + n /\ \A k \in 1 .. (l + m) : t[k] = d[k]
  BY <1>2, <1>3, <1>4
<1>6. \A k \in 1 .. l : t[k] = p[k]
  BY <1>2, <1>3, <1>5
<1>7. ASSUME NEW k \in 1 .. m PROVE t[l + k] = c[k]
  <2>1. k \in Nat /\ l + k \in 1 .. (l + m) /\ ~(l + k <= l) /\ l + k - l = k
    BY <1>2
  <2>2. PICK x \in 1 .. (l + m) : x = l + k
    BY <2>1
  <2>3. t[x] = d[x]
    BY <1>5
  <2>4. d[x] = c[x - l]
    BY <1>2, <1>3, <2>1, <2>2
  <2>5. x - l = k
    BY <1>2, <2>1, <2>2
  <2> QED BY Zenon, <2>2, <2>3, <2>4, <2>5
<1> QED BY Zenon, <1>1, <1>4, <1>5, <1>6, <1>7 DEF Chained

(* A stretch of a text. *)
LEMMA Stretch ==
  ASSUME NEW t \in Seq(STRING), NEW i \in 1 .. Len(t), NEW e \in i .. Len(t), NEW d, d = e - i + 1
  PROVE  SubSeq(t, i, e) \in Seq(STRING) /\ Len(SubSeq(t, i, e)) = d /\ \A m \in 1 .. d : SubSeq(t, i, e)[m] = t[i + m - 1]
<1>1. i \in Int /\ e \in Int /\ i <= e
  OBVIOUS
<1>2. \A m \in i .. e : t[m] \in STRING
  <2>1. \A m \in i .. e : m \in 1 .. Len(t)
    OBVIOUS
  <2> QED BY <2>1, ElementOfSeq
<1> QED BY <1>1, <1>2, SubSeqProperties

(* The text of an answer: some words, the value or the first of it, and, if it is whole, more words. *)
Sent(p, v, n, s) == p \o SubSeq(v, 1, n) \o (IF n = Len(v) THEN s ELSE <<>>)

Shaped(t, p, v, n) ==
    /\ t \in Seq(STRING) /\ Len(p) \in Nat
    /\ \A k \in 1 .. Len(p) : k \in 1 .. Len(t) /\ t[k] = p[k]
    /\ n # 0 => Carries(t, Len(p), v, n)
    /\ n # Len(v) => Len(t) = Len(p) + n

(* The value is where the words before it end. *)
LEMMA JSONText ==
  ASSUME NEW v \in Seq(STRING), NEW p \in Seq(STRING), NEW s \in Seq(STRING), NEW n \in 0 .. Len(v), NEW t,
         t = Sent(p, v, n, s)
  PROVE  Shaped(t, p, v, n)
<1>1. PICK l, m, c, e : l = Len(p) /\ m = Len(v) /\ c = SubSeq(v, 1, n) /\ e = (IF n = m THEN s ELSE <<>>)
  OBVIOUS
<1>2. l \in Nat /\ m \in Nat /\ n \in Nat /\ n <= m
  BY <1>1
<1>3. e \in Seq(STRING) /\ Len(e) \in Nat /\ (n # m => Len(e) = 0)
  <2>1. <<>> \in Seq(STRING) /\ Len(<<>>) = 0
    BY EmptySeq
  <2>2. e \in Seq(STRING) /\ (n # m => e = <<>>)
    BY Zenon, <1>1, <2>1
  <2>3. n # m => Len(e) = 0
    BY Zenon, <2>1, <2>2
  <2> QED BY <2>2, <2>3, LenProperties
<1>4. c \in Seq(STRING) /\ Len(c) = n /\ \A k \in 1 .. n : c[k] = v[k]
  <2>1. \A k \in 1 .. n : v[k] \in STRING
    BY <1>1, <1>2, ElementOfSeq
  <2> QED BY <1>1, <1>2, <2>1, SubSeqProperties
<1>5. t = (p \o c) \o e
  BY Zenon, <1>1 DEF Sent
<1>6. /\ t \in Seq(STRING) /\ Len(t) = l + Len(c) + Len(e)
      /\ \A k \in 1 .. l : t[k] = p[k]
      /\ \A k \in 1 .. Len(c) : t[l + k] = c[k]
  <2>1. Chained((p \o c) \o e, p, c, e)
    BY Zenon, <1>3, <1>4, Joined
  <2> QED BY Zenon, <1>1, <1>5, <2>1 DEF Chained
<1>7. Len(t) = l + n + Len(e) /\ \A k \in 1 .. n : t[l + k] = c[k]
  BY Zenon, <1>4, <1>6
<1>8. Len(t) \in Nat /\ l + n <= Len(t) /\ \A k \in 1 .. l : k \in 1 .. Len(t)
  BY <1>2, <1>3, <1>7
<1>9. n # m => Len(t) = l + n
  BY <1>2, <1>3, <1>7
<1>10. n # 0 => Carries(t, l, v, n)
  <2>1. n # 0 => n \in 1 .. m
    BY <1>2
  <2>2. \A k \in 1 .. n : t[l + k] = v[k]
    BY Zenon, <1>4, <1>7
  <2> QED BY Zenon, <1>1, <1>2, <1>8, <2>1, <2>2 DEF Carries
<1> QED BY Zenon, <1>1, <1>2, <1>6, <1>8, <1>9, <1>10 DEF Shaped

(* The brackets at which something is closed, and the first of them. *)
Starts(t) == {i \in DOMAIN t : t[i] \in Opening /\ MatchDelim(t, i) # 0}

(* Indices are natural numbers. *)
LEMMA Naturally == \A n : 1 .. n \subseteq Nat
OBVIOUS

(* What is extracted begins at the first bracket that is closed. *)
LEMMA FirstStart ==
  ASSUME NEW t \in Seq(STRING), Starts(t) # {}
  PROVE  \E i \in Starts(t) : (\A j \in Starts(t) : i <= j) /\ ExtractJSON(t) = SubSeq(t, i, MatchDelim(t, i))
<1>1. PICK T, first : T = Starts(t) /\ first = CHOOSE i \in T : \A j \in T : i <= j
  OBVIOUS
<1>2. T \subseteq Nat /\ T # {}
  <2>1. DOMAIN t = 1 .. Len(t)
    BY LenProperties
  <2>2. T \subseteq DOMAIN t
    BY Zenon, <1>1 DEF Starts
  <2> QED BY Zenon, <1>1, <2>1, <2>2, Naturally
<1>3. first \in T /\ \A j \in T : first <= j
  <2>1. \E i \in T : \A j \in T : i <= j
    BY <1>2, Least
  <2> QED BY Zenon, <1>1, <2>1
<1>4. ExtractJSON(t) = SubSeq(t, first, MatchDelim(t, first))
  BY Zenon, <1>1, <1>2 DEF ExtractJSON, Starts
<1> QED BY Zenon, <1>1, <1>3, <1>4

(* Nothing is extracted if no bracket is closed. *)
LEMMA NoStart ==
  ASSUME NEW t, Starts(t) = {}
  PROVE  ExtractJSON(t) = <<>>
BY Zenon DEF ExtractJSON, Starts

(* A whole value is what is extracted. *)
LEMMA WholeExtracted ==
  ASSUME NEW v, IsValue(v), NEW t \in Seq(STRING), NEW p, Carries(t, p, v, Len(v)), \A k \in 1 .. p : k \notin Starts(t)
  PROVE  ExtractJSON(t) = v
<1>1. PICK n : n = Len(v)
  OBVIOUS
<1>2. n \in Nat \ {0} /\ v \in Seq(STRING) /\ v[1] \in Opening /\ p \in Nat /\ Len(t) \in Nat /\ p + n <= Len(t)
      /\ \A m \in 1 .. n : t[p + m] = v[m]
  BY <1>1, ValueReads DEF Carries
<1>3. MatchDelim(t, p + 1) = p + n /\ p + n # 0
  BY <1>1, <1>2, WholeMatched
<1>4. p + 1 \in Starts(t)
  <2>1. p + 1 \in 1 .. Len(t) /\ 1 \in 1 .. n
    BY <1>2
  <2> QED BY <1>2, <1>3, <2>1 DEF Starts
<1>5. ASSUME NEW i \in Starts(t), i <= p + 1 PROVE i = p + 1
  <2>1. i \in 1 .. Len(t)
    BY DEF Starts
  <2>2. i \notin 1 .. p
    OBVIOUS
  <2> QED BY <1>2, <1>5, <2>1, <2>2
<1>6. ExtractJSON(t) = SubSeq(t, p + 1, p + n)
  <2>1. PICK i \in Starts(t) : (\A j \in Starts(t) : i <= j) /\ ExtractJSON(t) = SubSeq(t, i, MatchDelim(t, i))
    BY <1>4, FirstStart
  <2>2. i = p + 1
    BY <1>4, <1>5, <2>1
  <2> QED BY <1>3, <2>1, <2>2
<1>7. PICK r : r = SubSeq(t, p + 1, p + n)
  OBVIOUS
<1>8. r \in Seq(STRING) /\ Len(r) = n /\ \A k \in 1 .. n : r[k] = v[k]
  <2>1. \A k \in (p + 1) .. (p + n) : t[k] \in STRING
    BY <1>2, ElementOfSeq
  <2>2. p + n - (p + 1) + 1 = n /\ p + 1 <= p + n /\ \A k \in 1 .. n : p + 1 + k - 1 = p + k
    BY <1>2
  <2>3. /\ r \in Seq(STRING) /\ Len(r) = (IF p + 1 <= p + n THEN p + n - (p + 1) + 1 ELSE 0)
        /\ \A k \in 1 .. (p + n - (p + 1) + 1) : r[k] = t[p + 1 + k - 1]
    BY <1>2, <1>7, <2>1, SubSeqProperties
  <2> QED BY <1>2, <2>2, <2>3
<1>9. r = v
  BY <1>1, <1>2, <1>8, SeqEqual
<1> QED BY <1>6, <1>7, <1>9

(* What is extracted ends where its bracket is closed. *)
LEMMA StartReaches ==
  ASSUME NEW t \in Seq(STRING), NEW i \in Starts(t), SubSeq(t, i, MatchDelim(t, i)) # <<>>
  PROVE  /\ i \in 1 .. Len(t) /\ Len(t) \in Nat /\ t[i] \in Opening
         /\ MatchDelim(t, i) # 0 /\ MatchDelim(t, i) \in i .. Len(t)
<1>1. PICK e : e = MatchDelim(t, i)
  OBVIOUS
<1>2. i \in 1 .. Len(t) /\ t[i] \in Opening /\ e # 0 /\ Len(t) \in Nat
  BY <1>1 DEF Starts
<1>3. e \in Int /\ e <= Len(t)
  <2>1. Len(t) \in (i - 1) .. Len(t)
    BY <1>2
  <2>2. PICK s : s = Scan(t, i)[Len(t)] /\ s \in ScanTypes /\ s.at <= Len(t)
    BY <1>2, <2>1, Scanned
  <2>3. e = s.at
    BY Zenon, <1>1, <1>2, <2>2 DEF MatchDelim
  <2> QED BY <2>2, <2>3 DEF ScanTypes
<1>4. i <= e
  BY <1>1, <1>2, <1>3, SubSeqEmpty
<1> QED BY <1>1, <1>2, <1>3, <1>4

(* What is extracted from a value cut short begins further in. *)
Inner(raw, v, k) == \E i \in 2 .. k : \E j \in i .. k : raw = SubSeq(v, i, j) /\ raw[1] = v[i]

(* Of a value cut short only something further in is extracted. *)
LEMMA CutExtracted ==
  ASSUME NEW v, IsValue(v), NEW t \in Seq(STRING), NEW p, NEW k, Carries(t, p, v, k), k < Len(v), Len(t) = p + k,
         \A j \in 1 .. p : j \notin Starts(t), ExtractJSON(t) # <<>>
  PROVE  Inner(ExtractJSON(t), v, k)
<1>1. p \in Nat /\ k \in Nat /\ k >= 1 /\ v \in Seq(STRING) /\ Len(v) \in Nat /\ \A m \in 1 .. k : t[p + m] = v[m]
  <2>1. Len(v) \in Nat /\ v \in Seq(STRING)
    BY ValueReads
  <2> QED BY <2>1 DEF Carries
<1>2. PICK i \in Starts(t) : ExtractJSON(t) = SubSeq(t, i, MatchDelim(t, i))
  BY NoStart, FirstStart
<1>3. PICK e : e = MatchDelim(t, i)
  OBVIOUS
<1>4. i \in 1 .. Len(t) /\ t[i] \in Opening /\ e # 0 /\ e \in i .. Len(t)
  BY <1>2, <1>3, StartReaches
<1>5. i # p + 1
  BY <1>3, <1>4, CutOpen
<1>6. e \in Int /\ e <= p + k /\ i <= e
  BY <1>1, <1>4
<1>8. PICK a, b \in Int : a = i - p /\ b = e - p
  BY <1>1, <1>4, <1>6
<1>9. a \in 2 .. k /\ b \in a .. k /\ i = p + a /\ e = p + b /\ e - i + 1 = b - a + 1
  <2>1. i \notin 1 .. p
    OBVIOUS
  <2> QED BY <1>1, <1>4, <1>5, <1>6, <1>8, <2>1
<1>10. PICK r, q : r = SubSeq(t, i, e) /\ q = SubSeq(v, a, b)
  OBVIOUS
<1>11. /\ r \in Seq(STRING) /\ Len(r) = b - a + 1 /\ \A m \in 1 .. (b - a + 1) : r[m] = t[i + m - 1]
  <2>1. PICK d : d = b - a + 1 /\ d = e - i + 1 /\ i \in 1 .. Len(t) /\ e \in i .. Len(t)
    BY <1>4, <1>6, <1>9
  <2>2. SubSeq(t, i, e) \in Seq(STRING) /\ Len(SubSeq(t, i, e)) = d /\ \A m \in 1 .. d : SubSeq(t, i, e)[m] = t[i + m - 1]
    BY <2>1, Stretch
  <2> QED BY Zenon, <1>10, <2>1, <2>2
<1>12. /\ q \in Seq(STRING) /\ Len(q) = b - a + 1 /\ \A m \in 1 .. (b - a + 1) : q[m] = v[a + m - 1]
  <2>1. PICK d : d = b - a + 1 /\ v \in Seq(STRING) /\ a \in 1 .. Len(v) /\ b \in a .. Len(v)
    BY <1>1, <1>8, <1>9
  <2>2. SubSeq(v, a, b) \in Seq(STRING) /\ Len(SubSeq(v, a, b)) = d /\ \A m \in 1 .. d : SubSeq(v, a, b)[m] = v[a + m - 1]
    BY <1>1, <1>9, <2>1, Stretch
  <2> QED BY Zenon, <1>10, <2>1, <2>2
<1>13. ASSUME NEW m \in 1 .. (b - a + 1) PROVE r[m] = q[m]
  <2>1. PICK x : x = a + m - 1
    OBVIOUS
  <2>2. x \in 1 .. k /\ i + m - 1 = p + x
    BY <1>1, <1>8, <1>9, <2>1
  <2> QED BY <1>1, <1>11, <1>12, <2>1, <2>2
<1>14. r = q
  BY <1>11, <1>12, <1>13, SeqEqual
<1>15. r[1] = v[a]
  <2>1. 1 \in 1 .. (b - a + 1) /\ a + 1 - 1 = a
    BY <1>8, <1>9
  <2> QED BY <1>12, <1>14, <2>1
<1> QED BY <1>2, <1>3, <1>9, <1>10, <1>14, <1>15 DEF Inner

(* What is decoded from the text of an answer. *)
LEMMA WholeDecoded ==
  ASSUME NEW v, IsValue(v), NEW p \in Seq(STRING), NEW s \in Seq(STRING),
         \A k \in DOMAIN p : k \notin Starts(Sent(p, v, Len(v), s))
  PROVE  DecodedJSON(Sent(p, v, Len(v), s), v[1]) = Ok(v)
<1>1. PICK t, n : t = Sent(p, v, Len(v), s) /\ n = Len(v)
  OBVIOUS
<1>2. n \in Nat \ {0} /\ n \in 0 .. n /\ v \in Seq(STRING) /\ DOMAIN p = 1 .. Len(p)
  BY <1>1, ValueReads
<1>3. t \in Seq(STRING) /\ (\A k \in 1 .. Len(p) : t[k] = p[k]) /\ Carries(t, Len(p), v, n)
  <2>1. t = Sent(p, v, n, s) /\ n \in 0 .. Len(v) /\ n # 0
    BY <1>1, <1>2
  <2>2. Shaped(t, p, v, n)
    BY Zenon, <1>2, <2>1, JSONText
  <2> QED BY Zenon, <2>1, <2>2 DEF Shaped
<1>4. \A k \in 1 .. Len(p) : k \notin Starts(t)
  BY Zenon, <1>1, <1>2
<1>5. ExtractJSON(t) = v
  BY <1>1, <1>3, <1>4, WholeExtracted
<1>6. v # <<>> /\ WellFormed(v)
  BY DEF IsValue
<1> QED BY Zenon, <1>1, <1>5, <1>6 DEF DecodedJSON

Further(raw, v, k) == \E i \in 2 .. k : \E j \in i .. k : raw = SubSeq(v, i, j) /\ v[i] = v[1]

(* And only something of the same kind is decoded. *)
LEMMA CutDecoded ==
  ASSUME NEW v, IsValue(v), NEW p \in Seq(STRING), NEW s \in Seq(STRING),
         NEW n \in 0 .. Len(v), n # Len(v), \A k \in DOMAIN p : k \notin Starts(Sent(p, v, n, s)), NEW d, d = DecodedJSON(Sent(p, v, n, s), v[1]), d.ok
  PROVE  Further(d.value, v, n)
<1>1. PICK t, raw : t = Sent(p, v, n, s) /\ raw = ExtractJSON(t)
  OBVIOUS
<1>2. Len(v) \in Nat /\ v \in Seq(STRING) /\ DOMAIN p = 1 .. Len(p) /\ Len(p) \in Nat /\ n < Len(v)
  BY ValueReads
<1>3. /\ t \in Seq(STRING) /\ (\A k \in 1 .. Len(p) : t[k] = p[k]) /\ (n # 0 => Carries(t, Len(p), v, n))
      /\ Len(t) = Len(p) + n
  <2>1. t = Sent(p, v, n, s)
    BY Zenon, <1>1
  <2>2. Shaped(t, p, v, n)
    BY Zenon, <1>2, <2>1, JSONText
  <2> QED BY Zenon, <2>2 DEF Shaped
<1>4. \A k \in 1 .. Len(p) : k \notin Starts(t)
  BY Zenon, <1>1, <1>2
<1>5. d.value = raw /\ raw # <<>> /\ raw[1] = v[1]
  <2>1. d = IF raw # <<>> /\ WellFormed(raw) /\ raw[1] = v[1] THEN Ok(raw) ELSE Failed
    BY Zenon, <1>1 DEF DecodedJSON
  <2> QED BY <2>1 DEF Ok, Failed
<1>6. n # 0
  <2>1. ASSUME n = 0 PROVE Starts(t) = {}
    <3>1. DOMAIN t = 1 .. Len(t)
      BY <1>3, LenProperties
    <3>2. DOMAIN t = 1 .. Len(p)
      BY <1>2, <1>3, <2>1, <3>1
    <3>3. Starts(t) \subseteq DOMAIN t
      BY Zenon DEF Starts
    <3> QED BY <1>4, <3>2, <3>3
  <2> QED BY <1>1, <1>5, <2>1, NoStart
<1>7. Inner(raw, v, n)
  <2>1. Carries(t, Len(p), v, n) /\ ExtractJSON(t) # <<>>
    BY Zenon, <1>1, <1>3, <1>5, <1>6
  <2>2. t \in Seq(STRING) /\ n < Len(v) /\ Len(t) = Len(p) + n /\ \A k \in 1 .. Len(p) : k \notin Starts(t)
    BY Zenon, <1>2, <1>3, <1>4
  <2>3. Inner(ExtractJSON(t), v, n)
    BY Zenon, <2>1, <2>2, CutExtracted
  <2> QED BY Zenon, <1>1, <2>3
<1> QED BY <1>5, <1>7 DEF Inner, Further

(* If a bracket of the words is closed, what is decoded begins in them. *)
LEMMA WordsDecoded ==
  ASSUME NEW v, IsValue(v), NEW p \in Seq(STRING), NEW s \in Seq(STRING), NEW n \in 0 .. Len(v),
         \E k \in DOMAIN p : k \in Starts(Sent(p, v, n, s)), DecodedJSON(Sent(p, v, n, s), v[1]).ok
  PROVE  \E i \in DOMAIN p : \E j \in i .. Len(Sent(p, v, n, s)) :
           DecodedJSON(Sent(p, v, n, s), v[1]).value = SubSeq(Sent(p, v, n, s), i, j) /\ p[i] = v[1]
<1>1. PICK t, d : t = Sent(p, v, n, s) /\ d = DecodedJSON(t, v[1])
  OBVIOUS
<1>2. PICK k \in DOMAIN p : k \in Starts(t)
  BY Zenon, <1>1
<1>3. d.ok
  BY Zenon, <1>1
<1>4. PICK raw : raw = ExtractJSON(t)
  OBVIOUS
<1>5. DOMAIN p = 1 .. Len(p) /\ Len(p) \in Nat
  BY LenProperties
<1>6. t \in Seq(STRING) /\ \A m \in 1 .. Len(p) : t[m] = p[m]
  <2>1. v \in Seq(STRING)
    BY ValueReads
  <2>2. Shaped(t, p, v, n)
    BY Zenon, <1>1, <2>1, JSONText
  <2> QED BY Zenon, <2>2 DEF Shaped
<1>7. d.value = raw /\ raw # <<>> /\ raw[1] = v[1]
  <2>1. d = IF raw # <<>> /\ WellFormed(raw) /\ raw[1] = v[1] THEN Ok(raw) ELSE Failed
    BY Zenon, <1>1, <1>4 DEF DecodedJSON
  <2> QED BY <1>3, <2>1 DEF Ok, Failed
<1>8. PICK i \in Starts(t) : (\A j \in Starts(t) : i <= j) /\ raw = SubSeq(t, i, MatchDelim(t, i))
  <2>1. Starts(t) # {}
    BY <1>2
  <2> QED BY Zenon, <1>4, <1>6, <2>1, FirstStart
<1>9. PICK e : e = MatchDelim(t, i)
  OBVIOUS
<1>10. i \in 1 .. Len(t) /\ Len(t) \in Nat /\ e \in i .. Len(t)
  BY <1>6, <1>7, <1>8, <1>9, StartReaches
<1>11. i \in DOMAIN p
  <2>1. i <= k
    BY <1>2, <1>8
  <2> QED BY <1>5, <1>10, <1>2, <2>1
<1>12. raw[1] = t[i]
  <2>1. PICK c : c = e - i + 1
    OBVIOUS
  <2>2. \A m \in 1 .. c : SubSeq(t, i, e)[m] = t[i + m - 1]
    BY <1>6, <1>10, <2>1, Stretch
  <2>3. 1 \in 1 .. c /\ i + 1 - 1 = i
    BY <1>10, <2>1
  <2> QED BY <1>7, <1>8, <1>9, <2>2, <2>3
<1>13. p[i] = v[1]
  BY <1>5, <1>6, <1>7, <1>11, <1>12
<1>14. d.value = SubSeq(t, i, e)
  BY <1>7, <1>8, <1>9
<1> QED BY Zenon, <1>1, <1>10, <1>11, <1>13, <1>14

(* An answer holds the text and the calls that it was made of. *)
LEMMA AnswerHolds ==
  ASSUME NEW S, NEW cs \in Seq(S), NEW T, NEW text \in Seq(T), NEW thought \in Seq(T)
  PROVE  CallsOf(AnswerWith(thought, text, cs)) = cs /\ TextIn(AnswerWith(thought, text, cs)) = text
<1>1. PICK parts : parts = Parts(thought, text, cs)
  OBVIOUS
<1>2. Gathered(parts, cs, text, thought)
  BY Zenon, <1>1, PartsHold
<1>3. PICK c : c = AnswerWith(thought, text, cs)
  OBVIOUS
<1>4. c = CASE Len(parts) = 0 -> Absent [] Len(parts) = 1 -> parts[1] [] OTHER -> Composite(parts)
  <2>1. /\ (IF thought = <<>> THEN <<>> ELSE <<Reasoning(thought)>>) = (IF thought # <<>> THEN <<Reasoning(thought)>> ELSE <<>>)
        /\ (IF text = <<>> THEN <<>> ELSE <<Text(text)>>) = (IF text # <<>> THEN <<Text(text)>> ELSE <<>>)
        /\ (IF cs = <<>> THEN <<>> ELSE <<ToolCalls(cs)>>) = (IF cs # <<>> THEN <<ToolCalls(cs)>> ELSE <<>>)
    BY Zenon
  <2> QED BY Zenon, <1>1, <1>3, <2>1 DEF AnswerWith, Parts
<1>5. PICK n \in Nat : n = Len(parts)
  BY <1>2 DEF Gathered
<1>6. CASE n = 0
  <2>1. c = Absent
    BY <1>4, <1>5, <1>6
  <2>2. thought = <<>> /\ text = <<>> /\ cs = <<>>
    BY Zenon, <1>2, <1>5, <1>6 DEF Gathered
  <2> QED BY Zenon, <1>3, <2>1, <2>2, OfOne DEF Holds
<1>7. CASE n = 1
  <2>1. c = parts[1]
    BY <1>4, <1>5, <1>7
  <2>2. Holds(parts[1], cs, text, thought)
    BY Zenon, <1>2, <1>5, <1>7 DEF Gathered
  <2> QED BY Zenon, <1>3, <2>1, <2>2 DEF Holds
<1>8. CASE n # 0 /\ n # 1
  <2>1. c = Composite(parts) /\ n > 1
    BY <1>4, <1>5, <1>8
  <2>2. Holds(Composite(parts), cs, text, thought)
    BY Zenon, <1>2, <1>5, <2>1 DEF Gathered
  <2> QED BY Zenon, <1>3, <2>1, <2>2 DEF Holds
<1> QED BY <1>6, <1>7, <1>8

(* The arguments are of the first call of that name. *)
LEMMA ToolArgsAsked ==
  ASSUME NEW S, NEW cs \in Seq(S), NEW content, CallsOf(content) = cs, NEW name, NEW d, d = ToolArgs(content, name)
  PROVE  IF d.ok THEN \E c \in ToSet(cs) : c.name = name /\ c.args = d.value
         ELSE \A c \in ToSet(cs) : c.name # name
<1> DEFINE asked == {k \in DOMAIN CallsOf(content) : CallsOf(content)[k].name = name}
<1>0. d = IF asked = {} THEN Failed ELSE Ok(CallsOf(content)[CHOOSE k \in asked : \A j \in asked : k <= j].args)
  BY Zenon DEF ToolArgs
<1>1. PICK named : named = asked
  OBVIOUS
<1>2. PICK first : first = CHOOSE k \in named : \A j \in named : k <= j
  OBVIOUS
<1>3. d = IF named = {} THEN Failed ELSE Ok(cs[first].args)
  <2> HIDE DEF asked
  <2> QED BY Zenon, <1>0, <1>1, <1>2
<1>4. DOMAIN cs = 1 .. Len(cs) /\ ToSet(cs) = {cs[k] : k \in DOMAIN cs} /\ named = {k \in DOMAIN cs : cs[k].name = name}
  BY Zenon, <1>1, LenProperties DEF ToSet
<1>5. CASE named = {}
  <2>1. ~d.ok
    BY <1>3, <1>5 DEF Failed
  <2>2. \A c \in ToSet(cs) : c.name # name
    BY Zenon, <1>4, <1>5
  <2> QED BY Zenon, <2>1, <2>2
<1>6. CASE named # {}
  <2>1. named \subseteq Nat
    BY <1>4
  <2>2. first \in named
    <3>1. \E k \in named : \A j \in named : k <= j
      BY <1>6, <2>1, Least
    <3> QED BY Zenon, <1>2, <3>1
  <2>3. PICK c : c = cs[first]
    OBVIOUS
  <2>4. c \in ToSet(cs) /\ c.name = name
    BY Zenon, <1>4, <2>2, <2>3
  <2>5. d.ok /\ d.value = c.args
    BY <1>3, <1>6, <2>3 DEF Ok
  <2> QED BY <2>4, <2>5
<1> QED BY <1>5, <1>6

(* The same without calls. *)
LEMMA AnswerText ==
  ASSUME NEW T, NEW text \in Seq(T), NEW thought \in Seq(T)
  PROVE  TextIn(AnswerWith(thought, text, <<>>)) = text
<1>1. PICK S, none : none = <<>> /\ S = {}
  OBVIOUS
<1>2. none \in Seq(S)
  BY <1>1
<1>3. CallsOf(AnswerWith(thought, text, none)) = none /\ TextIn(AnswerWith(thought, text, none)) = text
  BY <1>2, AnswerHolds
<1> QED BY Zenon, <1>1, <1>3

(* A sequence of two. *)
LEMMA PairOf == ASSUME NEW a, NEW b PROVE <<a, b>> \in Seq({a, b})
OBVIOUS

(* The call whose answer is to hold a value (callJSON). *)
LEMMA JSONDecoded ==
  ASSUME CallJSON PROVE ReplyDecoded'
<1>1. PICK p \in Before, v \in Values, s \in After, thought \in {<<>>, <<"{", "x">>} : \E n \in 0 .. Len(v) :
             LET text == p \o SubSeq(v, 1, n) \o (IF n = Len(v) THEN s ELSE <<>>)
             IN /\ given' = [NothingGiven EXCEPT !.prefix = p, !.value = v, !.arrived = n]
                /\ reply' = AnswerWith(thought, text, <<>>)
                /\ decoded' = [mode |-> "json", result |-> DecodedJSON(TextIn(reply'), v[1])]
  BY DEF CallJSON
<1>2. PICK n \in 0 .. Len(v) :
             /\ given' = [NothingGiven EXCEPT !.prefix = p, !.value = v, !.arrived = n]
             /\ reply' = AnswerWith(thought, Sent(p, v, n, s), <<>>)
             /\ decoded' = [mode |-> "json", result |-> DecodedJSON(TextIn(reply'), v[1])]
  BY Zenon, <1>1 DEF Sent
<1>3. IsValue(v) /\ p \in Seq(STRING) /\ s \in Seq(STRING)
  BY ReplyAssumption
<1>4. PICK t : t = Sent(p, v, n, s)
  OBVIOUS
<1>5. t \in Seq(STRING)
  <2>1. v \in Seq(STRING)
    BY <1>3, ValueReads
  <2> QED BY Zenon, <1>3, <1>4, <2>1, JSONText DEF Shaped
<1>6. TextIn(reply') = t
  <2>1. PICK T : T = STRING \cup {"{", "x"}
    OBVIOUS
  <2>2. t \in Seq(T)
    BY <1>5, <2>1, SeqMonotonic
  <2>3. thought \in Seq(T)
    <3>1. <<>> \in Seq({"{", "x"}) /\ <<"{", "x">> \in Seq({"{", "x"})
      BY Zenon, EmptySeq, PairOf
    <3>2. thought \in Seq({"{", "x"}) /\ {"{", "x"} \subseteq T
      BY Zenon, <2>1, <3>1
    <3> QED BY <3>2, SeqMonotonic
  <2>4. TextIn(AnswerWith(thought, t, <<>>)) = t
    BY Zenon, <2>2, <2>3, AnswerText
  <2> QED BY Zenon, <1>2, <1>4, <2>4
<1>7. PICK d : d = DecodedJSON(t, v[1])
  OBVIOUS
<1>8. decoded' = [mode |-> "json", result |-> d]
  BY Zenon, <1>2, <1>6, <1>7
<1>9. decoded'.mode = "json" /\ decoded'.result = d /\ given'.value = v /\ given'.arrived = n /\ given'.prefix = p
  <2>1. given' = [NothingGiven EXCEPT !.prefix = p, !.value = v, !.arrived = n]
    BY Zenon, <1>2
  <2> QED BY <1>8, <2>1 DEF NothingGiven
<1>10. OnlyTheToolAsked'
  BY <1>9 DEF OnlyTheToolAsked
<1>11. Misled' <=> \E k \in DOMAIN p : k \in Starts(t)
  <2>1. DOMAIN p \subseteq DOMAIN t /\ \A k \in DOMAIN p : t[k] = p[k]
    <3>1. v \in Seq(STRING)
      BY <1>3, ValueReads
    <3>2. Shaped(t, p, v, n)
      BY Zenon, <1>3, <1>4, <3>1, JSONText
    <3> QED BY <1>3, <1>5, <3>2, LenProperties DEF Shaped
  <2> QED BY Zenon, <1>6, <1>9, <2>1 DEF Misled, Starts
<1>12. CASE Misled'
  <2>2. d.ok => \E i \in DOMAIN p : \E j \in i .. Len(t) : d.value = SubSeq(t, i, j) /\ p[i] = v[1]
    <3>1. n \in 0 .. Len(v) /\ \E k \in DOMAIN p : k \in Starts(Sent(p, v, n, s))
      BY Zenon, <1>4, <1>11, <1>12
    <3>2. d = DecodedJSON(Sent(p, v, n, s), v[1])
      BY Zenon, <1>4, <1>7
    <3> QED BY Zenon, <1>3, <1>4, <3>1, <3>2, WordsDecoded
  <2>3. ValueFound'
    BY Zenon, <1>6, <1>9, <1>12, <2>2 DEF ValueFound, FromTheWords
  <2> QED BY Zenon, <1>10, <2>3 DEF ReplyDecoded
<1>13. CASE ~Misled' /\ n = Len(v)
  <2>1. d = Ok(v)
    BY Zenon, <1>3, <1>4, <1>7, <1>11, <1>13, WholeDecoded
  <2>2. Whole' /\ decoded'.result = Ok(given'.value)
    BY Zenon, <1>9, <1>13, <2>1 DEF Whole
  <2> QED BY Zenon, <1>10, <1>13, <2>2 DEF ReplyDecoded, ValueFound
<1>14. CASE ~Misled' /\ n # Len(v)
  <2>1. d.ok => Further(d.value, v, n)
    <3>1. d = DecodedJSON(Sent(p, v, n, s), v[1])
      BY Zenon, <1>4, <1>7
    <3> QED BY Zenon, <1>3, <1>4, <1>11, <1>14, <3>1, CutDecoded
  <2>2. ~Whole'
    BY Zenon, <1>9, <1>14 DEF Whole
  <2>3. ValueFound'
    BY Zenon, <1>9, <1>14, <2>1, <2>2 DEF ValueFound, Further
  <2> QED BY Zenon, <1>10, <2>3 DEF ReplyDecoded
<1> QED BY <1>12, <1>13, <1>14

(* The call that asks for one tool (callTool). *)
LEMMA ToolDecoded ==
  ASSUME CallTool PROVE ReplyDecoded'
<1>1. PICK names \in UNION {[1 .. n -> {"resolve", "other"}] : n \in 0 .. 2}, text \in {<<>>, <<"x">>} :
         LET cs == [k \in DOMAIN names |-> [id |-> ToString(k), name |-> names[k], args |-> <<"{", ToString(k), "}">>]]
         IN /\ reply' = AnswerWith(<<>>, text, cs)
            /\ given' = [NothingGiven EXCEPT !.calls = cs]
            /\ decoded' = [mode |-> "tool", result |-> ToolArgs(reply', "resolve")]
  BY DEF CallTool
<1>2. PICK n \in Nat : DOMAIN names = 1 .. n
  <2>1. PICK n \in 0 .. 2 : names \in [1 .. n -> {"resolve", "other"}]
    BY Zenon
  <2> QED BY <2>1
<1>3. PICK cs : /\ cs = [k \in 1 .. n |-> [id |-> ToString(k), name |-> names[k], args |-> <<"{", ToString(k), "}">>]]
                /\ reply' = AnswerWith(<<>>, text, cs)
                /\ given' = [NothingGiven EXCEPT !.calls = cs]
                /\ decoded' = [mode |-> "tool", result |-> ToolArgs(reply', "resolve")]
  BY Zenon, <1>1, <1>2
<1>4. PICK S : S = {cs[k] : k \in 1 .. n}
  OBVIOUS
<1>5. cs \in Seq(S)
  <2>1. cs = [k \in 1 .. n |-> cs[k]] /\ \A k \in 1 .. n : cs[k] \in S
    BY <1>3, <1>4
  <2> QED BY <1>2, <2>1
<1>6. CallsOf(reply') = cs
  <2>1. text \in Seq({"x"}) /\ <<>> \in Seq({"x"})
    <3>1. <<"x">> \in Seq({"x"})
      OBVIOUS
    <3> QED BY Zenon, <3>1, EmptySeq
  <2>2. CallsOf(AnswerWith(<<>>, text, cs)) = cs
    BY Zenon, <1>5, <2>1, AnswerHolds
  <2> QED BY Zenon, <1>3, <2>2
<1>7. PICK d : d = ToolArgs(reply', "resolve")
  OBVIOUS
<1>8. IF d.ok THEN \E c \in ToSet(cs) : c.name = "resolve" /\ c.args = d.value ELSE \A c \in ToSet(cs) : c.name # "resolve"
  BY Zenon, <1>5, <1>6, <1>7, ToolArgsAsked
<1>9. decoded'.mode = "tool" /\ decoded'.result = d /\ given'.calls = cs
  <2>1. decoded' = [mode |-> "tool", result |-> d]
    BY Zenon, <1>3, <1>7
  <2>2. given' = [NothingGiven EXCEPT !.calls = cs]
    BY Zenon, <1>3
  <2> QED BY <2>1, <2>2 DEF NothingGiven
<1>10. OnlyTheToolAsked'
  BY Zenon, <1>8, <1>9 DEF OnlyTheToolAsked
<1>11. ValueFound'
  BY <1>9 DEF ValueFound
<1> QED BY <1>10, <1>11 DEF ReplyDecoded

(* Whatever the values, the words around them and the point where the answer *)
(* is cut, extractJSON (caller.go:185) returns a value that arrived whole     *)
(* exactly, and of one cut short at most something of the same kind that      *)
(* begins further in, unless a bracket of the words before it is closed: then *)
(* what is decoded, if anything, begins in the words.  toolArgs (caller.go:   *)
(* 235) hands on the arguments of a call of the tool that was asked for.      *)
THEOREM RepliesDecoded ==
  ReplyInit /\ [][ReplyNext]_replyVars => []ReplyDecoded
<1>1. ReplyInit => ReplyDecoded
  BY DEF ReplyInit, ReplyDecoded, ValueFound, OnlyTheToolAsked
<1>2. ASSUME ReplyDecoded, [ReplyNext]_replyVars PROVE ReplyDecoded'
  <2>1. CASE CallJSON
    BY <2>1, JSONDecoded
  <2>2. CASE CallText
    <3>1. decoded'.mode \in {"text", "bool"}
      BY <2>2 DEF CallText
    <3> QED BY <3>1 DEF ReplyDecoded, ValueFound, OnlyTheToolAsked
  <2>3. CASE CallTool
    BY <2>3, ToolDecoded
  <2>4. CASE CallFails
    <3>1. decoded'.mode = "failed"
      BY <2>4 DEF CallFails
    <3> QED BY <3>1 DEF ReplyDecoded, ValueFound, OnlyTheToolAsked
  <2>5. CASE UNCHANGED replyVars
    BY <1>2, <2>5 DEF replyVars, ReplyDecoded, ValueFound, OnlyTheToolAsked, Whole, Misled, FromTheWords
  <2> QED BY <1>2, <2>1, <2>2, <2>3, <2>4, <2>5 DEF ReplyNext
<1> QED BY <1>1, <1>2, PTL

-----------------------------------------------------------------------------
(* Conversations: what FlattenSeq keeps. *)

(* It holds the elements of all the sequences, and no others. *)
LEMMA FlattenHolds ==
  ASSUME NEW S, NEW ss \in Seq(Seq(S))
  PROVE  /\ FlattenSeq(ss) \in Seq(S)
         /\ \A x : x \in ToSet(FlattenSeq(ss)) <=> \E k \in DOMAIN ss : x \in ToSet(ss[k])
<1>0. Len(ss) \in Nat /\ DOMAIN ss = 1 .. Len(ss) /\ \A k \in 1 .. Len(ss) : ss[k] \in Seq(S)
  OBVIOUS
<1>1. CASE Len(ss) = 0
  <2>1. ss = <<>>
    BY <1>1
  <2>2. FlattenSeq(ss) = <<>>
    BY <2>1, FlattenNone
  <2>3. DOMAIN ss = {} /\ ToSet(<<>>) = {} /\ <<>> \in Seq(S)
    BY <1>0, <1>1 DEF ToSet
  <2> QED BY Zenon, <2>2, <2>3
<1>2. CASE Len(ss) # 0
  <2> DEFINE n == Len(ss)
  <2>1. n \in Nat \ {0}
    BY <1>0, <1>2
  <2>2. PICK g : Grows(g, ss, n) /\ FlattenSeq(ss) = g[n]
    BY <2>1, FlattenIs
  <2> DEFINE Good == {m \in 1 .. n : g[m] \in Seq(S) /\ \A x : x \in ToSet(g[m]) <=> \E k \in 1 .. m : x \in ToSet(ss[k])}
  <2>3. 1 \in Good
    BY <1>0, <2>1, <2>2 DEF Grows
  <2>4. ASSUME NEW m \in 1 .. (n - 1), m \in Good PROVE m + 1 \in Good
    <3>0. m + 1 \in 1 .. n /\ m \in 1 .. n
      BY <2>1
    <3>1. m + 1 \in 1 .. n /\ m \in 1 .. n /\ g[m + 1] = g[m] \o ss[m + 1] /\ ss[m + 1] \in Seq(S)
      BY Zenon, <1>0, <2>2, <3>0 DEF Grows
    <3>2. PICK s, t, u : s = g[m] /\ t = ss[m + 1] /\ u = s \o t
      OBVIOUS
    <3>3. s \in Seq(S) /\ t \in Seq(S) /\ \A x : x \in ToSet(s) <=> \E k \in 1 .. m : x \in ToSet(ss[k])
      BY <2>4, <3>1, <3>2
    <3>4. u \in Seq(S) /\ \A x : x \in ToSet(u) <=> x \in ToSet(s) \/ x \in ToSet(t)
      <4>1. /\ u \in Seq(S) /\ Len(u) = Len(s) + Len(t)
            /\ \A i \in 1 .. Len(s) + Len(t) : u[i] = IF i <= Len(s) THEN s[i] ELSE t[i - Len(s)]
        BY <3>2, <3>3, ConcatProperties
      <4>2. Len(s) \in Nat /\ Len(t) \in Nat /\ DOMAIN s = 1 .. Len(s) /\ DOMAIN t = 1 .. Len(t) /\ DOMAIN u = 1 .. Len(u)
        BY <3>3, <4>1
      <4>3. ASSUME NEW x, x \in ToSet(s) PROVE x \in ToSet(u)
        <5>1. PICK i \in DOMAIN s : x = s[i]
          BY <4>3 DEF ToSet
        <5>2. i \in 1 .. Len(s) + Len(t) /\ i <= Len(s) /\ i \in DOMAIN u
          BY <4>1, <4>2, <5>1
        <5>3. u[i] = x
          BY <4>1, <5>1, <5>2
        <5> QED BY <5>2, <5>3 DEF ToSet
      <4>4. ASSUME NEW x, x \in ToSet(t) PROVE x \in ToSet(u)
        <5>1. PICK i \in DOMAIN t : x = t[i]
          BY <4>4 DEF ToSet
        <5>2. PICK j : j = i + Len(s)
          OBVIOUS
        <5>3. j \in DOMAIN u /\ j \in 1 .. Len(s) + Len(t) /\ ~(j <= Len(s)) /\ j - Len(s) = i
          BY <4>1, <4>2, <5>1, <5>2
        <5>4. u[j] = x
          BY <4>1, <5>1, <5>3
        <5> QED BY <5>3, <5>4 DEF ToSet
      <4>5. ASSUME NEW x, x \in ToSet(u) PROVE x \in ToSet(s) \/ x \in ToSet(t)
        <5>1. PICK i \in DOMAIN u : x = u[i]
          BY <4>5 DEF ToSet
        <5>2. CASE i <= Len(s)
          BY <4>1, <4>2, <5>1, <5>2 DEF ToSet
        <5>3. CASE ~(i <= Len(s))
          <6>1. i - Len(s) \in DOMAIN t /\ x = t[i - Len(s)]
            BY <4>1, <4>2, <5>1, <5>3
          <6> QED BY <6>1 DEF ToSet
        <5> QED BY <5>2, <5>3
      <4> QED BY <4>1, <4>3, <4>4, <4>5
    <3>5. ASSUME NEW x PROVE x \in ToSet(u) <=> \E k \in 1 .. (m + 1) : x \in ToSet(ss[k])
      <4>1. \A k : k \in 1 .. (m + 1) <=> k \in 1 .. m \/ k = m + 1
        BY <2>1
      <4> QED BY Zenon, <4>1, <3>2, <3>3, <3>4
    <3> QED BY <3>1, <3>2, <3>4, <3>5
  <2>5. 1 \in Nat /\ n \in Nat /\ n \in 1 .. n
    BY <2>1
  <2>6. n \in Good
    <3> HIDE DEF Good
    <3>1. \A m \in 1 .. n : m \in Good
      BY <2>3, <2>4, <2>5, Stepwise
    <3> QED BY <2>5, <3>1
  <2> QED BY <1>0, <2>2, <2>6
<1> QED BY <1>1, <1>2

(* Concatenation is associative. *)
LEMMA Associative ==
  ASSUME NEW S, NEW s \in Seq(S), NEW t \in Seq(S), NEW u \in Seq(S) PROVE (s \o t) \o u = s \o (t \o u)
OBVIOUS

Spliced(whole, s, t) == whole = s \o t

(* One more piece at the end. *)
LEMMA PieceAdded ==
  ASSUME NEW S, NEW s \in Seq(S), NEW t \in Seq(S), NEW u \in Seq(S), NEW whole, NEW more, NEW rest,
         Spliced(whole, s, t), Spliced(more, whole, u), Spliced(rest, t, u)
  PROVE  Spliced(more, s, rest)
<1>1. (s \o t) \o u = s \o (t \o u)
  BY Associative
<1> QED BY <1>1 DEF Spliced

(* The concatenation of two sequences of sequences, piece by piece. *)
LEMMA FlattenConcat ==
  ASSUME NEW S, NEW a \in Seq(Seq(S)), NEW b \in Seq(Seq(S))
  PROVE  FlattenSeq(a \o b) = FlattenSeq(a) \o FlattenSeq(b)
<1>0. FlattenSeq(a) \in Seq(S) /\ FlattenSeq(b) \in Seq(S)
  BY FlattenHolds
<1>1. CASE a = <<>>
  <2>1. a \o b = b
    BY Zenon, <1>1, ConcatEmptySeq
  <2>2. FlattenSeq(a) = <<>>
    BY <1>1, FlattenNone
  <2>3. FlattenSeq(b) = <<>> \o FlattenSeq(b)
    BY Zenon, <1>0, ConcatEmptySeq
  <2> QED BY Zenon, <2>1, <2>2, <2>3
<1>2. CASE b = <<>>
  <2>1. a \o b = a
    BY Zenon, <1>2, ConcatEmptySeq
  <2>2. FlattenSeq(b) = <<>>
    BY <1>2, FlattenNone
  <2>3. FlattenSeq(a) = FlattenSeq(a) \o <<>>
    BY Zenon, <1>0, ConcatEmptySeq
  <2> QED BY Zenon, <2>1, <2>2, <2>3
<1>3. CASE a # <<>> /\ b # <<>>
  <2>1. PICK c, na, nb : c = a \o b /\ na = Len(a) /\ nb = Len(b)
    OBVIOUS
  <2>2. /\ c \in Seq(Seq(S)) /\ Len(c) = na + nb
        /\ \A i \in 1 .. na + nb : c[i] = IF i <= na THEN a[i] ELSE b[i - na]
    BY <2>1, ConcatProperties
  <2>3. na \in Nat \ {0} /\ nb \in Nat \ {0} /\ na + nb \in Nat \ {0}
    BY <1>3, <2>1
  <2>4. PICK ga : Grows(ga, a, na) /\ FlattenSeq(a) = ga[na]
    BY <2>1, <2>3, FlattenIs
  <2>5. PICK gb : Grows(gb, b, nb) /\ FlattenSeq(b) = gb[nb]
    BY <2>1, <2>3, FlattenIs
  <2>6. PICK gc : Grows(gc, c, na + nb) /\ FlattenSeq(c) = gc[na + nb]
    BY <2>2, <2>3, FlattenIs
  <2>7. gc[na] = ga[na]
    <3> DEFINE Good == {m \in 1 .. na : gc[m] = ga[m]}
    <3>1. 1 \in Good
      <4>1. 1 \in 1 .. na + nb /\ 1 <= na /\ 1 \in 1 .. na
        BY <2>3
      <4>2. c[1] = a[1]
        BY <2>2, <4>1
      <4> QED BY Zenon, <2>4, <2>6, <4>1, <4>2 DEF Grows
    <3>2. ASSUME NEW m \in 1 .. (na - 1), m \in Good PROVE m + 1 \in Good
      <4>1. m \in 1 .. na /\ m + 1 \in 1 .. na /\ m \in 1 .. na + nb /\ m + 1 \in 1 .. na + nb
        BY <2>3
      <4>2. ga[m + 1] = ga[m] \o a[m + 1]
        BY <2>4, <4>1 DEF Grows
      <4>3. gc[m + 1] = gc[m] \o c[m + 1]
        BY <2>6, <4>1 DEF Grows
      <4>4. c[m + 1] = a[m + 1]
        BY <2>2, <4>1, <2>3
      <4> QED BY <3>2, <4>1, <4>2, <4>3, <4>4
    <3>3. 1 \in Nat /\ na \in Nat /\ na \in 1 .. na
      BY <2>3
    <3> HIDE DEF Good
    <3>4. \A m \in 1 .. na : m \in Good
      BY <3>1, <3>2, <3>3, Stepwise
    <3>5. na \in Good
      BY <3>3, <3>4
    <3> QED BY <3>5 DEF Good
  <2>8. gc[na + nb] = ga[na] \o gb[nb]
    <3> DEFINE Good == {m \in 1 .. nb : gb[m] \in Seq(S) /\ gc[na + m] = ga[na] \o gb[m]}
    <3>0. ga[na] \in Seq(S)
      BY <1>0, <2>4
    <3>1. 1 \in Good
      <4>1. na \in 1 .. na + nb /\ na + 1 \in 1 .. na + nb /\ 1 \in 1 .. nb /\ ~(na + 1 <= na) /\ na + 1 - na = 1
        BY <2>3
      <4>2. gc[na + 1] = gc[na] \o c[na + 1]
        BY <2>6, <4>1 DEF Grows
      <4>3. c[na + 1] = b[1]
        BY <2>2, <4>1
      <4>4. gb[1] = b[1]
        BY <2>5 DEF Grows
      <4>5. b[1] \in Seq(S)
        BY <4>1, <2>1
      <4> QED BY <2>7, <4>1, <4>2, <4>3, <4>4, <4>5
    <3>2. ASSUME NEW m \in 1 .. (nb - 1), m \in Good PROVE m + 1 \in Good
      <4>1. /\ m \in 1 .. nb /\ m + 1 \in 1 .. nb /\ na + m \in 1 .. na + nb /\ na + (m + 1) \in 1 .. na + nb
            /\ na + (m + 1) = (na + m) + 1 /\ ~(na + (m + 1) <= na) /\ na + (m + 1) - na = m + 1
        BY <2>3
      <4>2. gb[m + 1] = gb[m] \o b[m + 1]
        BY <2>5, <4>1 DEF Grows
      <4>3. gc[na + (m + 1)] = gc[na + m] \o c[na + (m + 1)]
        BY Zenon, <2>6, <4>1 DEF Grows
      <4>4. c[na + (m + 1)] = b[m + 1]
        <5>1. PICK j : j = na + (m + 1)
          OBVIOUS
        <5>2. j \in 1 .. na + nb /\ ~(j <= na) /\ j - na = m + 1
          BY <2>3, <4>1, <5>1
        <5>3. c[j] = b[j - na]
          BY <2>2, <5>2
        <5> QED BY <5>1, <5>2, <5>3
      <4>5. b[m + 1] \in Seq(S) /\ gb[m] \in Seq(S)
        BY <4>1, <2>1, <3>2, ElementOfSeq
      <4>6. gb[m + 1] \in Seq(S)
        BY <4>2, <4>5, ConcatProperties
      <4>7. gc[na + (m + 1)] = ga[na] \o gb[m + 1]
        <5>1. /\ Spliced(gc[na + m], ga[na], gb[m]) /\ Spliced(gc[na + (m + 1)], gc[na + m], b[m + 1])
              /\ Spliced(gb[m + 1], gb[m], b[m + 1])
          BY <3>2, <4>2, <4>3, <4>4 DEF Spliced
        <5>3. PICK x, y, z, w, r, l : /\ x = ga[na] /\ y = gb[m] /\ z = b[m + 1]
                                      /\ w = gc[na + m] /\ r = gb[m + 1] /\ l = gc[na + (m + 1)]
          OBVIOUS
        <5>4. x \in Seq(S) /\ y \in Seq(S) /\ z \in Seq(S)
          BY Zenon, <3>0, <4>5, <5>3
        <5>5. Spliced(w, x, y) /\ Spliced(l, w, z) /\ Spliced(r, y, z)
          BY Zenon, <5>1, <5>3
        <5>6. Spliced(l, x, r)
          BY Zenon, <5>4, <5>5, PieceAdded
        <5>2. Spliced(gc[na + (m + 1)], ga[na], gb[m + 1])
          BY Zenon, <5>3, <5>6
        <5> QED BY <5>2 DEF Spliced
      <4> QED BY <4>1, <4>6, <4>7
    <3>3. 1 \in Nat /\ nb \in Nat /\ nb \in 1 .. nb
      BY <2>3
    <3> HIDE DEF Good
    <3>4. \A m \in 1 .. nb : m \in Good
      BY <3>1, <3>2, <3>3, Stepwise
    <3>5. nb \in Good
      BY <3>3, <3>4
    <3> QED BY <3>5 DEF Good
  <2> QED BY <2>1, <2>4, <2>5, <2>6, <2>8
<1> QED BY <1>1, <1>2, <1>3

(* Two requests that differ only in what is said: who speaks, the calls and *)
(* what is answered are the same.                                           *)
Alike(u, v) == Len(u) = Len(v) /\ \A i \in 1 .. Len(u) : u[i].role = v[i].role /\ u[i].calls = v[i].calls /\ u[i].id = v[i].id

(* Pieces that are alike are alike when put together. *)
LEMMA ConcatAlike ==
  ASSUME NEW S, NEW s \in Seq(S), NEW t \in Seq(S), NEW u \in Seq(S), NEW v \in Seq(S), Alike(s, t), Alike(u, v)
  PROVE  Alike(s \o u, t \o v)
<1>1. PICK a, b : a = s \o u /\ b = t \o v
  OBVIOUS
<1>2. Len(a) = Len(s) + Len(u) /\ \A i \in 1 .. Len(s) + Len(u) : a[i] = IF i <= Len(s) THEN s[i] ELSE u[i - Len(s)]
  BY <1>1, ConcatProperties
<1>3. Len(b) = Len(t) + Len(v) /\ \A i \in 1 .. Len(t) + Len(v) : b[i] = IF i <= Len(t) THEN t[i] ELSE v[i - Len(t)]
  BY <1>1, ConcatProperties
<1>4. Len(s) \in Nat /\ Len(u) \in Nat /\ Len(s) = Len(t) /\ Len(u) = Len(v)
  BY DEF Alike
<1>5. ASSUME NEW i \in 1 .. Len(a) PROVE a[i].role = b[i].role /\ a[i].calls = b[i].calls /\ a[i].id = b[i].id
  <2>1. CASE i <= Len(s)
    <3>1. i \in 1 .. Len(s) /\ a[i] = s[i] /\ b[i] = t[i]
      BY <1>2, <1>3, <1>4, <2>1
    <3> QED BY <3>1 DEF Alike
  <2>2. CASE ~(i <= Len(s))
    <3>1. i - Len(s) \in 1 .. Len(u) /\ a[i] = u[i - Len(s)] /\ b[i] = v[i - Len(s)]
      BY <1>2, <1>3, <1>4, <2>2
    <3> QED BY <3>1 DEF Alike
  <2> QED BY <2>1, <2>2
<1> QED BY <1>1, <1>2, <1>3, <1>4, <1>5 DEF Alike

(* Sequences of pieces that are alike. *)
LEMMA FlattenAlike ==
  ASSUME NEW S, NEW a \in Seq(Seq(S)), NEW b \in Seq(Seq(S)), Len(a) = Len(b), \A k \in 1 .. Len(a) : Alike(a[k], b[k])
  PROVE  Alike(FlattenSeq(a), FlattenSeq(b))
<1>1. CASE Len(a) = 0
  <2>1. a = <<>> /\ b = <<>>
    <3>1. \A s \in Seq(Seq(S)) : Len(s) = 0 => s = <<>>
      OBVIOUS
    <3> QED BY <1>1, <3>1
  <2> QED BY <2>1, FlattenNone DEF Alike
<1>2. CASE Len(a) # 0
  <2>1. PICK n \in Nat \ {0} : n = Len(a) /\ n = Len(b)
    BY <1>2
  <2>2. PICK ga : Grows(ga, a, n) /\ FlattenSeq(a) = ga[n]
    BY <2>1, FlattenIs
  <2>3. PICK gb : Grows(gb, b, n) /\ FlattenSeq(b) = gb[n]
    BY <2>1, FlattenIs
  <2> DEFINE Good == {m \in 1 .. n : ga[m] \in Seq(S) /\ gb[m] \in Seq(S) /\ Alike(ga[m], gb[m])}
  <2>4. 1 \in Good
    BY <2>1, <2>2, <2>3 DEF Grows
  <2>5. ASSUME NEW m \in 1 .. (n - 1), m \in Good PROVE m + 1 \in Good
    <3>1. m + 1 \in 1 .. n /\ m \in 1 .. n
      BY <2>1
    <3>2. ga[m + 1] = ga[m] \o a[m + 1] /\ gb[m + 1] = gb[m] \o b[m + 1]
      BY <3>1, <2>2, <2>3 DEF Grows
    <3>3. a[m + 1] \in Seq(S) /\ b[m + 1] \in Seq(S) /\ Alike(a[m + 1], b[m + 1])
      BY <3>1, <2>1
    <3>4. ga[m] \in Seq(S) /\ gb[m] \in Seq(S) /\ Alike(ga[m], gb[m])
      BY <2>5
    <3>5. Alike(ga[m] \o a[m + 1], gb[m] \o b[m + 1])
      BY Zenon, <3>3, <3>4, ConcatAlike
    <3>6. ga[m] \o a[m + 1] \in Seq(S) /\ gb[m] \o b[m + 1] \in Seq(S)
      BY <3>3, <3>4, ConcatProperties
    <3> QED BY <3>1, <3>2, <3>5, <3>6
  <2>6. 1 \in Nat /\ n \in Nat /\ n \in 1 .. n
    BY <2>1
  <2> HIDE DEF Good
  <2>7. \A m \in 1 .. n : m \in Good
    BY <2>4, <2>5, <2>6, Stepwise
  <2>8. n \in Good
    BY <2>6, <2>7
  <2> QED BY <2>2, <2>3, <2>8 DEF Good
<1> QED BY <1>1, <1>2

-----------------------------------------------------------------------------
(* Requests: what the service's own rule says of pieces put together. *)

AnswerAt(w, i) ==
  \E j \in 1..(i - 1) :
     /\ \E k \in DOMAIN w[j].calls : w[j].calls[k].id = w[i].id
     /\ \A l \in (j + 1)..(i - 1) : w[l].role = "tool"
IsAnswered(w, j, k) ==
  \E i \in (j + 1)..Len(w) :
     /\ w[i].role = "tool" /\ w[i].id = w[j].calls[k].id
     /\ \A l \in (j + 1)..i : w[l].role = "tool"

(* The rule, with its two halves named. *)
LEMMA PairedIs ==
  ASSUME NEW w
  PROVE  Paired(w) <=> /\ \A i \in DOMAIN w : w[i].role = "tool" => AnswerAt(w, i)
                       /\ \A j \in DOMAIN w, k \in 1..2 : k \in DOMAIN w[j].calls => IsAnswered(w, j, k)
BY DEF Paired, AnswerAt, IsAnswered

(* Two pieces that keep the rule keep it together. *)
LEMMA PairedConcat ==
  ASSUME NEW S, NEW u \in Seq(S), NEW v \in Seq(S), Paired(u), Paired(v)
  PROVE  Paired(u \o v)
<1>1. PICK w, n : w = u \o v /\ n = Len(u)
  OBVIOUS
<1>2. w \in Seq(S) /\ Len(w) = n + Len(v) /\ \A i \in 1 .. n + Len(v) : w[i] = IF i <= n THEN u[i] ELSE v[i - n]
  BY <1>1, ConcatProperties
<1>3. n \in Nat /\ Len(v) \in Nat /\ DOMAIN u = 1 .. n /\ DOMAIN v = 1 .. Len(v) /\ DOMAIN w = 1 .. n + Len(v)
  BY <1>1, <1>2
<1>4. \A i \in 1 .. n : w[i] = u[i]
  BY <1>2, <1>3
<1>5. \A i \in 1 .. Len(v) : \A m : m = n + i => w[m] = v[i] /\ m \in DOMAIN w
  BY <1>2, <1>3
<1>6. ASSUME NEW i \in DOMAIN w, w[i].role = "tool" PROVE AnswerAt(w, i)
  <2>1. CASE i <= n
    <3>1. i \in DOMAIN u /\ w[i] = u[i]
      BY <1>3, <1>4, <2>1
    <3>2. AnswerAt(u, i)
      BY Zenon, <1>6, <3>1, PairedIs
    <3>3. PICK j \in 1 .. (i - 1) : (\E k \in DOMAIN u[j].calls : u[j].calls[k].id = u[i].id)
                                    /\ \A l \in (j + 1)..(i - 1) : u[l].role = "tool"
      BY <3>2 DEF AnswerAt
    <3>4. j \in 1 .. n /\ \A l \in (j + 1)..(i - 1) : l \in 1 .. n
      BY <1>3, <3>1, <3>3
    <3>5. w[j] = u[j] /\ \A l \in (j + 1)..(i - 1) : w[l] = u[l]
      BY <1>4, <3>4
    <3> QED BY Zenon, <3>1, <3>3, <3>5 DEF AnswerAt
  <2>2. CASE ~(i <= n)
    <3>1. PICK e \in DOMAIN v : e = i - n /\ i = n + e
      BY <1>3, <2>2
    <3>2. w[i] = v[e]
      BY <1>3, <1>5, <3>1
    <3>3. AnswerAt(v, e)
      BY Zenon, <1>6, <3>1, <3>2, PairedIs
    <3>4. PICK j \in 1 .. (e - 1) : (\E k \in DOMAIN v[j].calls : v[j].calls[k].id = v[e].id)
                                    /\ \A l \in (j + 1)..(e - 1) : v[l].role = "tool"
      BY <3>3 DEF AnswerAt
    <3>5. PICK h : h = n + j
      OBVIOUS
    <3>6. h \in 1 .. (i - 1) /\ j \in 1 .. Len(v) /\ w[h] = v[j]
      BY <1>3, <1>5, <3>1, <3>4, <3>5
    <3>7. ASSUME NEW l \in (h + 1) .. (i - 1) PROVE w[l].role = "tool"
      <4>1. l - n \in (j + 1)..(e - 1) /\ l - n \in 1 .. Len(v) /\ l = n + (l - n)
        BY <1>3, <3>1, <3>4, <3>5
      <4> QED BY <1>5, <3>4, <4>1
    <3> QED BY Zenon, <3>2, <3>4, <3>6, <3>7 DEF AnswerAt
  <2> QED BY <2>1, <2>2
<1>7. ASSUME NEW j \in DOMAIN w, NEW k \in 1..2, k \in DOMAIN w[j].calls PROVE IsAnswered(w, j, k)
  <2>1. CASE j <= n
    <3>1. j \in DOMAIN u /\ w[j] = u[j]
      BY <1>3, <1>4, <2>1
    <3>2. IsAnswered(u, j, k)
      BY Zenon, <1>7, <3>1, PairedIs
    <3>3. PICK i \in (j + 1) .. Len(u) : /\ u[i].role = "tool" /\ u[i].id = u[j].calls[k].id
                                         /\ \A l \in (j + 1)..i : u[l].role = "tool"
      BY <3>2 DEF IsAnswered
    <3>4. i \in 1 .. n /\ i \in (j + 1) .. Len(w) /\ \A l \in (j + 1)..i : l \in 1 .. n
      BY <1>1, <1>2, <1>3, <3>1, <3>3
    <3>5. w[i] = u[i] /\ \A l \in (j + 1)..i : w[l] = u[l]
      BY <1>4, <3>4
    <3> QED BY Zenon, <3>1, <3>3, <3>4, <3>5 DEF IsAnswered
  <2>2. CASE ~(j <= n)
    <3>1. PICK e \in DOMAIN v : e = j - n /\ j = n + e
      BY <1>3, <2>2
    <3>2. w[j] = v[e]
      BY <1>3, <1>5, <3>1
    <3>3. IsAnswered(v, e, k)
      BY Zenon, <1>7, <3>1, <3>2, PairedIs
    <3>4. PICK i \in (e + 1) .. Len(v) : /\ v[i].role = "tool" /\ v[i].id = v[e].calls[k].id
                                         /\ \A l \in (e + 1)..i : v[l].role = "tool"
      BY <3>3 DEF IsAnswered
    <3>5. PICK h : h = n + i
      OBVIOUS
    <3>6. h \in (j + 1) .. Len(w) /\ i \in 1 .. Len(v) /\ w[h] = v[i]
      BY <1>2, <1>3, <1>5, <3>1, <3>4, <3>5
    <3>7. ASSUME NEW l \in (j + 1) .. h PROVE w[l].role = "tool"
      <4>1. l - n \in (e + 1)..i /\ l - n \in 1 .. Len(v) /\ l = n + (l - n)
        BY <1>3, <3>1, <3>4, <3>5
      <4> QED BY <1>5, <3>4, <4>1
    <3> QED BY Zenon, <3>2, <3>4, <3>6, <3>7 DEF IsAnswered
  <2> QED BY <2>1, <2>2
<1> QED BY Zenon, <1>1, <1>6, <1>7, PairedIs

(* What follows a cut keeps the rule, unless it begins with an answer. *)
LEMMA PairedRest ==
  ASSUME NEW S, NEW u \in Seq(S), NEW v \in Seq(S), Paired(u \o v), v # <<>> => v[1].role # "tool"
  PROVE  Paired(v)
<1>1. PICK w, n : w = u \o v /\ n = Len(u)
  OBVIOUS
<1>2. w \in Seq(S) /\ Len(w) = n + Len(v) /\ \A i \in 1 .. n + Len(v) : w[i] = IF i <= n THEN u[i] ELSE v[i - n]
  BY <1>1, ConcatProperties
<1>3. n \in Nat /\ Len(v) \in Nat /\ DOMAIN v = 1 .. Len(v) /\ DOMAIN w = 1 .. n + Len(v)
  BY <1>1, <1>2
<1>5. \A i \in 1 .. Len(v) : \A m : m = n + i => w[m] = v[i] /\ m \in DOMAIN w
  BY <1>2, <1>3
<1>6. ASSUME NEW i \in DOMAIN v, v[i].role = "tool" PROVE AnswerAt(v, i)
  <2>1. PICK m : m = n + i
    OBVIOUS
  <2>2. w[m] = v[i] /\ m \in DOMAIN w
    BY <1>3, <1>5, <2>1
  <2>3. AnswerAt(w, m)
    BY Zenon, <1>1, <1>6, <2>2, PairedIs
  <2>4. PICK j \in 1 .. (m - 1) : (\E k \in DOMAIN w[j].calls : w[j].calls[k].id = w[m].id)
                                  /\ \A l \in (j + 1)..(m - 1) : w[l].role = "tool"
    BY <2>3 DEF AnswerAt
  <2>5. j > n
    <3> SUFFICES ASSUME ~(j > n) PROVE FALSE
      OBVIOUS
    <3>1. PICK b : b = n + 1
      OBVIOUS
    <3>2. 1 \in 1 .. Len(v) /\ v # <<>> /\ v[1].role # "tool"
      BY <1>3
    <3>3. w[b] = v[1]
      BY <1>5, <3>1, <3>2
    <3>4. b = m \/ b \in (j + 1) .. (m - 1)
      BY <1>3, <2>1, <2>4, <3>1
    <3> QED BY Zenon, <1>6, <2>2, <2>4, <3>2, <3>3, <3>4
  <2>6. PICK e \in 1 .. (i - 1) : e = j - n /\ j = n + e
    BY <1>3, <2>1, <2>4, <2>5
  <2>7. e \in 1 .. Len(v) /\ w[j] = v[e]
    BY <1>3, <1>5, <2>6
  <2>8. ASSUME NEW l \in (e + 1) .. (i - 1) PROVE v[l].role = "tool"
    <3>1. PICK g : g = n + l
      OBVIOUS
    <3>2. g \in (j + 1) .. (m - 1) /\ l \in 1 .. Len(v)
      BY <1>3, <2>1, <2>6, <3>1
    <3>3. w[g] = v[l]
      BY <1>5, <3>1, <3>2
    <3> QED BY Zenon, <2>4, <3>2, <3>3
  <2> QED BY Zenon, <2>2, <2>4, <2>7, <2>8 DEF AnswerAt
<1>7. ASSUME NEW j \in DOMAIN v, NEW k \in 1..2, k \in DOMAIN v[j].calls PROVE IsAnswered(v, j, k)
  <2>1. PICK m : m = n + j
    OBVIOUS
  <2>2. w[m] = v[j] /\ m \in DOMAIN w
    BY <1>3, <1>5, <2>1
  <2>3. IsAnswered(w, m, k)
    BY Zenon, <1>1, <1>7, <2>2, PairedIs
  <2>4. PICK i \in (m + 1) .. Len(w) : /\ w[i].role = "tool" /\ w[i].id = w[m].calls[k].id
                                       /\ \A l \in (m + 1)..i : w[l].role = "tool"
    BY <2>3 DEF IsAnswered
  <2>5. PICK e \in (j + 1) .. Len(v) : e = i - n /\ i = n + e
    BY <1>2, <1>3, <2>1, <2>4
  <2>6. e \in 1 .. Len(v) /\ w[i] = v[e]
    <3>1. e \in 1 .. Len(v)
      BY <1>3, <2>5
    <3> QED BY Zenon, <1>5, <2>5, <3>1
  <2>7. ASSUME NEW l \in (j + 1) .. e PROVE v[l].role = "tool"
    <3>1. PICK g : g = n + l
      OBVIOUS
    <3>2. g \in (m + 1) .. i /\ l \in 1 .. Len(v)
      BY <1>3, <2>1, <2>5, <3>1
    <3>3. w[g] = v[l]
      BY <1>5, <3>1, <3>2
    <3> QED BY Zenon, <2>4, <3>2, <3>3
  <2> QED BY Zenon, <2>2, <2>4, <2>6, <2>7 DEF IsAnswered
<1> QED BY Zenon, <1>6, <1>7, PairedIs

(* The rule looks at roles, calls and what is answered only. *)
LEMMA PairedAlike ==
  ASSUME NEW S, NEW u \in Seq(S), NEW v \in Seq(S), Alike(u, v), Paired(u)
  PROVE  Paired(v)
<1>1. Len(u) = Len(v) /\ Len(u) \in Nat /\ DOMAIN u = 1 .. Len(u) /\ DOMAIN v = 1 .. Len(u)
  BY DEF Alike
<1>2. \A i \in 1 .. Len(u) : u[i].role = v[i].role /\ u[i].calls = v[i].calls /\ u[i].id = v[i].id
  BY DEF Alike
<1>3. ASSUME NEW i \in DOMAIN v, v[i].role = "tool" PROVE AnswerAt(v, i)
  <2>1. AnswerAt(u, i)
    BY Zenon, <1>1, <1>2, <1>3, PairedIs
  <2>2. PICK j \in 1 .. (i - 1) : (\E k \in DOMAIN u[j].calls : u[j].calls[k].id = u[i].id)
                                  /\ \A l \in (j + 1)..(i - 1) : u[l].role = "tool"
    BY <2>1 DEF AnswerAt
  <2>3. j \in 1 .. Len(u) /\ \A l \in (j + 1)..(i - 1) : l \in 1 .. Len(u)
    BY <1>1, <2>2
  <2> QED BY Zenon, <1>1, <1>2, <2>2, <2>3 DEF AnswerAt
<1>4. ASSUME NEW j \in DOMAIN v, NEW k \in 1..2, k \in DOMAIN v[j].calls PROVE IsAnswered(v, j, k)
  <2>1. IsAnswered(u, j, k)
    BY Zenon, <1>1, <1>2, <1>4, PairedIs
  <2>2. PICK i \in (j + 1) .. Len(u) : /\ u[i].role = "tool" /\ u[i].id = u[j].calls[k].id
                                       /\ \A l \in (j + 1)..i : u[l].role = "tool"
    BY <2>1 DEF IsAnswered
  <2>3. i \in 1 .. Len(u) /\ \A l \in (j + 1)..i : l \in 1 .. Len(u)
    BY <1>1, <2>2
  <2> QED BY Zenon, <1>1, <1>2, <2>2, <2>3 DEF IsAnswered
<1> QED BY Zenon, <1>3, <1>4, PairedIs

(* What neither calls nor answers keeps the rule. *)
LEMMA PairedQuiet ==
  ASSUME NEW w, \A i \in DOMAIN w : w[i].role # "tool" /\ w[i].calls = <<>>
  PROVE  Paired(w)
<1>1. \A k \in 1 .. 2 : k \notin DOMAIN <<>>
  OBVIOUS
<1> QED BY Zenon, <1>1, PairedIs

(* After a first message, an answer to each of these calls in their order. *)
Answering(w, cs, n) == \A i \in 1 .. n : \A m : m = i + 1 => w[m].role = "tool" /\ w[m].id = cs[i].id /\ w[m].calls = <<>>

(* A message with calls, and an answer to each of them in their order. *)
LEMMA PairedExchange ==
  ASSUME NEW S, NEW w \in Seq(S), NEW cs, NEW n \in Nat, DOMAIN cs = 1 .. n, Len(w) = n + 1, w[1].role # "tool", w[1].calls = cs,
         Answering(w, cs, n)
  PROVE  Paired(w)
<1>1. DOMAIN w = 1 .. n + 1
  OBVIOUS
<1>2. \A m \in 2 .. n + 1 : m - 1 \in 1 .. n /\ w[m].role = "tool" /\ w[m].id = cs[m - 1].id /\ w[m].calls = <<>>
  <2>1. ASSUME NEW m \in 2 .. n + 1 PROVE m - 1 \in 1 .. n /\ m = (m - 1) + 1
    OBVIOUS
  <2> QED BY Zenon, <2>1 DEF Answering
<1>3. ASSUME NEW i \in DOMAIN w, w[i].role = "tool" PROVE AnswerAt(w, i)
  <2>1. i \in 2 .. n + 1
    BY <1>1, <1>3
  <2>2. i - 1 \in DOMAIN w[1].calls /\ w[1].calls[i - 1].id = w[i].id
    BY <1>2, <2>1
  <2>3. 1 \in 1 .. (i - 1) /\ \A l \in (1 + 1) .. (i - 1) : l \in 2 .. n + 1
    BY <2>1
  <2> QED BY Zenon, <1>2, <2>2, <2>3 DEF AnswerAt
<1>4. ASSUME NEW j \in DOMAIN w, NEW k \in 1..2, k \in DOMAIN w[j].calls PROVE IsAnswered(w, j, k)
  <2>1. j = 1
    <3>1. j = 1 \/ j \in 2 .. n + 1
      BY <1>1
    <3>2. k \notin DOMAIN <<>>
      OBVIOUS
    <3> QED BY Zenon, <1>2, <1>4, <3>1, <3>2
  <2>2. PICK i : i = k + 1
    OBVIOUS
  <2>3. k \in 1 .. n /\ i \in (1 + 1) .. Len(w) /\ \A l \in (1 + 1) .. i : l \in 2 .. n + 1
    BY <1>4, <2>1, <2>2
  <2>4. w[i].role = "tool" /\ w[i].id = w[1].calls[k].id
    BY <2>2, <2>3 DEF Answering
  <2> QED BY Zenon, <1>2, <2>1, <2>3, <2>4 DEF IsAnswered
<1> QED BY Zenon, <1>3, <1>4, PairedIs

(* An answer with no call anywhere before it breaks the rule. *)
LEMMA OrphanUnpaired ==
  ASSUME NEW S, NEW u \in Seq(S), NEW v \in Seq(S), \A i \in DOMAIN u : u[i].calls = <<>>, v # <<>>, v[1].role = "tool"
  PROVE  ~Paired(u \o v)
<1>1. PICK w, n : w = u \o v /\ n = Len(u)
  OBVIOUS
<1>2. w \in Seq(S) /\ Len(w) = n + Len(v) /\ \A i \in 1 .. n + Len(v) : w[i] = IF i <= n THEN u[i] ELSE v[i - n]
  BY <1>1, ConcatProperties
<1>3. n \in Nat /\ Len(v) \in Nat \ {0} /\ DOMAIN u = 1 .. n /\ DOMAIN w = 1 .. n + Len(v)
  BY <1>1, <1>2
<1>4. PICK m : m = n + 1
  OBVIOUS
<1>5. m \in DOMAIN w /\ w[m] = v[1] /\ \A j \in 1 .. (m - 1) : j \in DOMAIN u /\ w[j] = u[j]
  BY <1>2, <1>3, <1>4
<1>6. ~AnswerAt(w, m)
  <2>1. \A k : k \notin DOMAIN <<>>
    OBVIOUS
  <2> QED BY Zenon, <1>5, <2>1 DEF AnswerAt
<1> QED BY Zenon, <1>1, <1>5, <1>6, PairedIs

-----------------------------------------------------------------------------
(* Messages: what users, agents, tools and the system say, and what is sent *)
(* of it.                                                                   *)

Details == {Call(n) : n \in Nat}
Ids == {d.id : d \in Details}
Tokens == STRING \cup {"prompt", "summary", "t", "r"}
Texts == [type : {"text"}, text : Seq(Tokens)]
Medias == [type : {"multi_modal"}, kind : (STRING \cup {"audio"}) \ {"none"}, bytes : BOOLEAN]
Pieces == Texts \cup Medias
Thoughts == [type : {"reasoning"}, reasoning : Seq(Tokens)]
ToolUses == [type : {"tool_call"}, details : Seq(Details)]
Composed3 == [type : {"composite"}, parts : Seq(Texts \cup Thoughts \cup ToolUses)]
UserContents == Pieces \cup [type : {"composite"}, parts : Seq(Pieces)]
AgentContents == Texts \cup Thoughts \cup Medias \cup ToolUses \cup Composed3
ToolContents == [type : {"tool_result"}, results : Seq(Ids) \ {<<>>}]

UserMessages == [role : {"user"}, content : UserContents]
AgentMessages == [role : {"assistant"}, content : AgentContents]
ToolMessages == [role : {"tool"}, content : ToolContents]
SystemMessages == [role : {"system"}, content : Texts]
Spoken == UserMessages \cup AgentMessages \cup ToolMessages
Posted == Spoken \cup SystemMessages

Roles == {"user", "assistant", "system", "tool", "refused"}
Wires == [role : Roles, parts : Seq(Pieces), calls : Seq(Details), id : Ids \cup {""}]
PartsOf(c) == IF c.type = "composite" THEN c.parts ELSE <<c>>
MediaOf(c) == {p \in (IF c.type = "composite" THEN ToSet(c.parts) ELSE {c}) : p.type = "multi_modal"}

(* What a message of the wire holds, and that it is no refusal. *)
LEMMA WireHolds ==
  ASSUME NEW r, NEW ps, NEW cs, NEW i
  PROVE  /\ Wire(r, ps, cs, i).role = r /\ Wire(r, ps, cs, i).parts = ps
         /\ Wire(r, ps, cs, i).calls = cs /\ Wire(r, ps, cs, i).id = i
         /\ r # "refused" => Wire(r, ps, cs, i) # Refused
         /\ r \in Roles /\ ps \in Seq(Pieces) /\ cs \in Seq(Details) /\ i \in Ids \cup {""} => Wire(r, ps, cs, i) \in Wires
<1>1. PICK w : w = Wire(r, ps, cs, i)
  OBVIOUS
<1>2. w = [role |-> r, parts |-> ps, calls |-> cs, id |-> i]
  BY <1>1 DEF Wire
<1>3. w.role = r /\ w.parts = ps /\ w.calls = cs /\ w.id = i
  BY <1>2
<1>4. Refused.role = "refused"
  BY DEF Refused, Wire
<1>5. ASSUME r \in Roles, ps \in Seq(Pieces), cs \in Seq(Details), i \in Ids \cup {""} PROVE w \in Wires
  <2> DEFINE P == Seq(Pieces)
             D == Seq(Details)
             I == Ids \cup {""}
             R == Roles
  <2>1. r \in R /\ ps \in P /\ cs \in D /\ i \in I
    BY <1>5
  <2> HIDE DEF P, D, I, R
  <2>2. w \in [role : R, parts : P, calls : D, id : I]
    BY <1>2, <1>5, <2>1
  <2> QED BY <2>2 DEF Wires, P, D, I, R
<1> QED BY Zenon, <1>1, <1>3, <1>4, <1>5

(* Roles of the wire, and nothing in its sequences. *)
LEMMA Small ==
  /\ \A r \in {"user", "assistant", "system", "tool", "refused"} : r \in Roles
  /\ <<>> \in Seq(Pieces) /\ <<>> \in Seq(Details) /\ "" \in Ids \cup {""} /\ Ids \subseteq Ids \cup {""}
<1>1. \A r \in {"user", "assistant", "system", "tool", "refused"} : r \in Roles
  BY Zenon DEF Roles
<1>2. <<>> \in Seq(Pieces) /\ <<>> \in Seq(Details)
  BY Zenon, EmptySeq
<1>3. "" \in Ids \cup {""} /\ Ids \subseteq Ids \cup {""}
  BY Zenon
<1> QED BY Zenon, <1>1, <1>2, <1>3

(* One message, and none. *)
LEMMA OneOf ==
  ASSUME NEW S, NEW x \in S
  PROVE  <<x>> \in Seq(S) /\ <<>> \in Seq(S) /\ ToSet(<<x>>) = {x}
BY DEF ToSet

(* The calls and the text of what an agent says. *)
LEMMA AgentSays ==
  ASSUME NEW c \in AgentContents
  PROVE  CallsOf(c) \in Seq(Details) /\ TextIn(c) \in Seq(Tokens)
<1>0. <<>> \in Seq(Details) /\ <<>> \in Seq(Tokens)
  OBVIOUS
<1>1. CASE c \in Texts
  BY <1>0, <1>1 DEF Texts, CallsOf, TextIn
<1>2. CASE c \in Thoughts
  BY <1>0, <1>2 DEF Thoughts, CallsOf, TextIn
<1>3. CASE c \in Medias
  BY <1>0, <1>3 DEF Medias, CallsOf, TextIn
<1>4. CASE c \in ToolUses
  BY <1>0, <1>4 DEF ToolUses, CallsOf, TextIn
<1>5. CASE c \in Composed3
  <2>1. PICK ps : ps = c.parts
    OBVIOUS
  <2>2. c.type = "composite" /\ ps \in Seq(Texts \cup Thoughts \cup ToolUses)
    BY <1>5, <2>1 DEF Composed3
  <2>3. ASSUME NEW p \in Texts \cup Thoughts \cup ToolUses PROVE CallsIn(p) \in Seq(Details) /\ TextOf(p) \in Seq(Tokens)
    BY <1>0 DEF CallsIn, TextOf, Texts, Thoughts, ToolUses
  <2>4. PICK cs, ts : cs = [k \in DOMAIN ps |-> CallsIn(ps[k])] /\ ts = [k \in DOMAIN ps |-> TextOf(ps[k])]
    OBVIOUS
  <2>5. cs \in Seq(Seq(Details)) /\ ts \in Seq(Seq(Tokens))
    <3>1. DOMAIN ps = 1 .. Len(ps) /\ Len(ps) \in Nat /\ \A k \in DOMAIN ps : ps[k] \in Texts \cup Thoughts \cup ToolUses
      BY <2>2
    <3>2. \A k \in 1 .. Len(ps) : CallsIn(ps[k]) \in Seq(Details) /\ TextOf(ps[k]) \in Seq(Tokens)
      BY Zenon, <2>3, <3>1
    <3>3. cs = [k \in 1 .. Len(ps) |-> CallsIn(ps[k])] /\ ts = [k \in 1 .. Len(ps) |-> TextOf(ps[k])]
      BY Zenon, <2>4, <3>1
    <3> QED BY <3>1, <3>2, <3>3
  <2>6. FlattenSeq(cs) \in Seq(Details) /\ FlattenSeq(ts) \in Seq(Tokens)
    BY Zenon, <2>5, FlattenHolds
  <2>7. CallsOf(c) = FlattenSeq(cs) /\ TextIn(c) = FlattenSeq(ts)
    BY <2>1, <2>2, <2>4 DEF CallsOf, TextIn, CallsIn, TextOf
  <2> QED BY Zenon, <2>6, <2>7
<1> QED BY <1>1, <1>2, <1>3, <1>4, <1>5 DEF AgentContents

(* The conversion of a user's message. *)
LEMMA ConvertUser ==
  ASSUME NEW m \in UserMessages
  PROVE  /\ ConvertMessage(m) = <<UserWire(m.content)>>
         /\ UserWire(m.content) \in {Refused, Wire("user", PartsOf(m.content), <<>>, "")}
         /\ UserWire(m.content) = Refused <=> \E p \in MediaOf(m.content) : p.kind \notin {"image", "audio", "video"}
         /\ PartsOf(m.content) \in Seq(Pieces)
         /\ MediaOf(m.content) = {p \in ToSet(PartsOf(m.content)) : p.type = "multi_modal"}
<1>1. m.role = "user" /\ m.content \in UserContents
  BY DEF UserMessages
<1>2. PICK c, ps : c = m.content /\ ps = PartsOf(c)
  OBVIOUS
<1>3. ps \in Seq(Pieces)
  <2>1. CASE c \in Pieces
    <3>1. c.type # "composite"
      BY <2>1 DEF Pieces, Texts, Medias
    <3> QED BY <1>2, <2>1, <3>1, OneOf DEF PartsOf
  <2>2. CASE c \in [type : {"composite"}, parts : Seq(Pieces)]
    BY <1>2, <2>2 DEF PartsOf
  <2> QED BY <1>1, <1>2, <2>1, <2>2 DEF UserContents
<1>4. ConvertMessage(m) = <<UserWire(c)>>
  BY <1>1, <1>2 DEF ConvertMessage
<1>5. UserWire(c) = IF \A k \in DOMAIN ps : Sendable(ps[k]) THEN Wire("user", ps, <<>>, "") ELSE Refused
  BY <1>2 DEF UserWire, PartsOf
<1>6. Wire("user", ps, <<>>, "") # Refused
  BY DEF Wire, Refused
<1>7. MediaOf(c) = {p \in ToSet(ps) : p.type = "multi_modal"}
  <2>1. CASE c.type = "composite"
    BY <1>2, <2>1 DEF MediaOf, PartsOf
  <2>2. CASE c.type # "composite"
    <3>1. ps = <<c>>
      BY <1>2, <2>2 DEF PartsOf
    <3>2. ToSet(ps) = {c}
      BY <3>1 DEF ToSet
    <3> QED BY <2>2, <3>2 DEF MediaOf
  <2> QED BY <2>1, <2>2
<1>8. \A p \in Pieces : Sendable(p) <=> ~(p.type = "multi_modal" /\ p.kind \notin {"image", "audio", "video"})
  BY DEF Sendable, Pieces, Texts, Medias
<1>9. (\A k \in DOMAIN ps : Sendable(ps[k])) <=> ~ \E p \in MediaOf(c) : p.kind \notin {"image", "audio", "video"}
  <2>1. \A k \in DOMAIN ps : ps[k] \in Pieces
    BY <1>3
  <2>2. \A x : x \in ToSet(ps) <=> \E k \in DOMAIN ps : x = ps[k]
    BY DEF ToSet
  <2>3. ASSUME NEW k \in DOMAIN ps, ~Sendable(ps[k]) PROVE \E p \in MediaOf(c) : p.kind \notin {"image", "audio", "video"}
    <3>1. ps[k] \in Pieces /\ ps[k] \in ToSet(ps)
      BY Zenon, <2>1, <2>2
    <3>2. ps[k].type = "multi_modal" /\ ps[k].kind \notin {"image", "audio", "video"}
      BY Zenon, <1>8, <2>3, <3>1
    <3>3. ps[k] \in MediaOf(c)
      BY <1>7, <3>1, <3>2
    <3> QED BY <3>2, <3>3
  <2>4. ASSUME NEW p \in MediaOf(c), p.kind \notin {"image", "audio", "video"} PROVE \E k \in DOMAIN ps : ~Sendable(ps[k])
    <3>1. p \in ToSet(ps) /\ p.type = "multi_modal"
      BY <1>7, <2>4
    <3>2. PICK k \in DOMAIN ps : p = ps[k]
      BY Zenon, <2>2, <3>1
    <3>3. ~Sendable(p)
      BY <1>8, <2>1, <2>4, <3>1, <3>2
    <3> QED BY <3>2, <3>3
  <2> QED BY Zenon, <2>3, <2>4
<1> QED BY Zenon, <1>2, <1>3, <1>4, <1>5, <1>6, <1>7, <1>9

(* The conversion of an agent's message. *)
LEMMA ConvertAgent ==
  ASSUME NEW m \in AgentMessages
  PROVE  /\ ConvertMessage(m) = <<AssistantWire(m.content)>>
         /\ AssistantWire(m.content) = Refused <=> m.content.type = "multi_modal"
         /\ AssistantWire(m.content) # Refused =>
              /\ AssistantWire(m.content).role = "assistant" /\ AssistantWire(m.content).calls = CallsOf(m.content)
              /\ AssistantWire(m.content).id = "" /\ AssistantWire(m.content).parts \in Seq(Texts)
         /\ MediaOf(m.content) # {} => m.content.type = "multi_modal"
<1>1. PICK c : c = m.content
  OBVIOUS
<1>2. m.role = "assistant" /\ c \in AgentContents
  BY <1>1 DEF AgentMessages
<1>3. ConvertMessage(m) = <<AssistantWire(c)>>
  BY <1>1, <1>2 DEF ConvertMessage
<1>4. CallsOf(c) \in Seq(Details) /\ TextIn(c) \in Seq(Tokens)
  BY <1>2, AgentSays
<1>5. CASE c.type = "multi_modal"
  <2>1. AssistantWire(c) = Refused
    BY <1>5 DEF AssistantWire
  <2> QED BY Zenon, <1>1, <1>3, <1>5, <2>1
<1>6. CASE c \in Thoughts
  <2>1. c.type = "reasoning" /\ c.reasoning \in Seq(Tokens)
    BY <1>6 DEF Thoughts
  <2>2. AssistantWire(c) = Wire("assistant", <<Text(c.reasoning)>>, <<>>, "") /\ CallsOf(c) = <<>>
    BY <2>1 DEF AssistantWire, CallsOf
  <2>3. <<Text(c.reasoning)>> \in Seq(Texts)
    BY <2>1 DEF Text, Texts
  <2>4. MediaOf(c) = {}
    BY <2>1 DEF MediaOf
  <2>5. "assistant" # "refused" /\ c.type # "multi_modal"
    BY <2>1
  <2>6. PICK w : w = AssistantWire(c)
    OBVIOUS
  <2>7. w # Refused /\ w.role = "assistant" /\ w.calls = CallsOf(c) /\ w.id = "" /\ w.parts \in Seq(Texts)
    <3>1. PICK ps, cs : ps = <<Text(c.reasoning)>> /\ cs = <<>>
      OBVIOUS
    <3>2. w = Wire("assistant", ps, cs, "") /\ cs = CallsOf(c) /\ ps \in Seq(Texts)
      <4>1. w = Wire("assistant", ps, cs, "") /\ cs = CallsOf(c)
        BY <2>2, <2>6, <3>1
      <4>2. ps \in Seq(Texts)
        BY <2>3, <3>1
      <4> QED BY Zenon, <4>1, <4>2
    <3>3. w.role = "assistant" /\ w.parts = ps /\ w.calls = cs /\ w.id = ""
      BY <3>2 DEF Wire
    <3>4. w # Refused
      <4>1. Refused.role = "refused"
        BY DEF Wire, Refused
      <4> QED BY <3>3, <4>1
    <3> QED BY <3>2, <3>3, <3>4
  <2> QED BY Zenon, <1>1, <1>3, <2>4, <2>5, <2>6, <2>7
<1>7. CASE c.type \in {"text", "tool_call", "composite"}
  <2>1. AssistantWire(c) = Wire("assistant", IF TextIn(c) = <<>> THEN <<>> ELSE <<Text(TextIn(c))>>, CallsOf(c), "")
    BY <1>7 DEF AssistantWire
  <2>2. (IF TextIn(c) = <<>> THEN <<>> ELSE <<Text(TextIn(c))>>) \in Seq(Texts)
    <3>1. Text(TextIn(c)) \in Texts
      BY <1>4 DEF Text, Texts
    <3> QED BY Zenon, <3>1, OneOf
  <2>3. MediaOf(c) = {}
    <3>1. CASE c.type # "composite"
      BY <1>7, <3>1 DEF MediaOf
    <3>2. CASE c.type = "composite"
      <4>1. c.parts \in Seq(Texts \cup Thoughts \cup ToolUses)
        BY <1>2, <3>2 DEF AgentContents, Texts, Thoughts, Medias, ToolUses, Composed3
      <4>2. \A p \in ToSet(c.parts) : p \in Texts \cup Thoughts \cup ToolUses
        BY <4>1 DEF ToSet
      <4>3. \A p \in Texts \cup Thoughts \cup ToolUses : p.type # "multi_modal"
        BY DEF Texts, Thoughts, ToolUses
      <4> QED BY Zenon, <3>2, <4>2, <4>3 DEF MediaOf
    <3> QED BY <3>1, <3>2
  <2>5. "assistant" # "refused" /\ c.type # "multi_modal"
    BY <1>7
  <2>6. PICK w : w = AssistantWire(c)
    OBVIOUS
  <2>7. w # Refused /\ w.role = "assistant" /\ w.calls = CallsOf(c) /\ w.id = "" /\ w.parts \in Seq(Texts)
    <3>1. PICK ps, cs : ps = (IF TextIn(c) = <<>> THEN <<>> ELSE <<Text(TextIn(c))>>) /\ cs = CallsOf(c)
      OBVIOUS
    <3>2. w = Wire("assistant", ps, cs, "") /\ cs = CallsOf(c) /\ ps \in Seq(Texts)
      <4>1. w = Wire("assistant", ps, cs, "") /\ cs = CallsOf(c)
        BY <2>1, <2>6, <3>1
      <4>2. ps \in Seq(Texts)
        BY <2>2, <3>1
      <4> QED BY Zenon, <4>1, <4>2
    <3>3. w.role = "assistant" /\ w.parts = ps /\ w.calls = cs /\ w.id = ""
      BY <3>2 DEF Wire
    <3>4. w # Refused
      <4>1. Refused.role = "refused"
        BY DEF Wire, Refused
      <4> QED BY <3>3, <4>1
    <3> QED BY <3>2, <3>3, <3>4
  <2> QED BY Zenon, <1>1, <1>3, <2>3, <2>5, <2>6, <2>7
<1>8. c.type = "multi_modal" \/ c \in Thoughts \/ c.type \in {"text", "tool_call", "composite"}
  BY <1>2 DEF AgentContents, Texts, Medias, ToolUses, Composed3
<1> QED BY <1>5, <1>6, <1>7, <1>8

(* The conversion of the answers of tools. *)
LEMMA ConvertTool ==
  ASSUME NEW m \in ToolMessages
  PROVE  /\ ConvertMessage(m) \in Seq(Wires) \ {<<>>} /\ Len(ConvertMessage(m)) = Len(m.content.results)
         /\ \A i \in 1 .. Len(m.content.results) : ConvertMessage(m)[i] = Wire("tool", <<>>, <<>>, m.content.results[i])
         /\ MediaOf(m.content) = {}
<1>1. PICK c, rs : c = m.content /\ rs = c.results
  OBVIOUS
<1>2. m.role = "tool" /\ c.type = "tool_result" /\ rs \in Seq(Ids) /\ rs # <<>>
  BY <1>1 DEF ToolMessages, ToolContents
<1>3. ConvertMessage(m) = [k \in DOMAIN rs |-> Wire("tool", <<>>, <<>>, rs[k])]
  BY <1>1, <1>2 DEF ConvertMessage, ToolWire
<1>4. Len(rs) \in Nat \ {0} /\ DOMAIN rs = 1 .. Len(rs) /\ \A k \in 1 .. Len(rs) : rs[k] \in Ids
  BY <1>2
<1>5. \A k \in 1 .. Len(rs) : Wire("tool", <<>>, <<>>, rs[k]) \in Wires
  <2>1. "tool" \in Roles
    BY DEF Roles
  <2> QED BY Zenon, <1>4, <2>1, Small, WireHolds
<1>6. PICK w : w = [k \in 1 .. Len(rs) |-> Wire("tool", <<>>, <<>>, rs[k])]
  OBVIOUS
<1>7. w \in Seq(Wires) /\ Len(w) = Len(rs) /\ w # <<>> /\ \A i \in 1 .. Len(rs) : w[i] = Wire("tool", <<>>, <<>>, rs[i])
  BY <1>4, <1>5, <1>6
<1>8. MediaOf(c) = {}
  BY <1>2 DEF MediaOf
<1> QED BY Zenon, <1>1, <1>3, <1>4, <1>6, <1>7, <1>8

(* The conversion of what the system says. *)
LEMMA ConvertSystem ==
  ASSUME NEW m \in SystemMessages
  PROVE  ConvertMessage(m) = <<Wire("system", <<m.content>>, <<>>, "")>> /\ m.content \in Texts
BY DEF SystemMessages, Texts, ConvertMessage, SystemWire

(* Every conversion is a sequence of messages of the wire. *)
LEMMA ConvertTypes ==
  ASSUME NEW m \in Posted
  PROVE  ConvertMessage(m) \in Seq(Wires)
<1>0. Refused \in Wires
  <2>1. "refused" \in Roles
    BY DEF Roles
  <2> QED BY Zenon, <2>1, Small, WireHolds DEF Refused
<1>a. /\ "user" \in Roles /\ "assistant" \in Roles /\ "system" \in Roles
      /\ <<>> \in Seq(Pieces) /\ <<>> \in Seq(Details) /\ "" \in Ids \cup {""}
  <2>1. "user" \in Roles /\ "assistant" \in Roles /\ "system" \in Roles
    BY DEF Roles
  <2> QED BY Zenon, <2>1, Small
<1>1. CASE m \in UserMessages
  <2>1. Wire("user", PartsOf(m.content), <<>>, "") \in Wires
    <3>1. PartsOf(m.content) \in Seq(Pieces)
      BY Zenon, <1>1, ConvertUser
    <3> QED BY Zenon, <1>a, <3>1, WireHolds
  <2>2. UserWire(m.content) \in Wires
    BY Zenon, <1>0, <1>1, <2>1, ConvertUser
  <2>3. ConvertMessage(m) = <<UserWire(m.content)>>
    BY <1>1, ConvertUser
  <2> QED BY <2>2, <2>3
<1>2. CASE m \in AgentMessages
  <2>1. PICK w : w = AssistantWire(m.content)
    OBVIOUS
  <2>2. CASE w = Refused
    <3>1. ConvertMessage(m) = <<w>>
      BY Zenon, <1>2, <2>1, ConvertAgent
    <3> QED BY Zenon, <1>0, <2>2, <3>1, OneOf
  <2>3. CASE w # Refused
    <3>1. m.content.type # "multi_modal" /\ m.content \in AgentContents
      BY <1>2, <2>1, <2>3, ConvertAgent DEF AgentMessages
    <3>2. CallsOf(m.content) \in Seq(Details)
      BY <3>1, AgentSays
    <3>3. w.parts \in Seq(Texts)
      BY <1>2, <2>1, <2>3, ConvertAgent
    <3>4. w.parts \in Seq(Pieces)
      BY <3>3 DEF Pieces
    <3>5. w = Wire(w.role, w.parts, w.calls, w.id)
      BY <2>1 DEF AssistantWire, Wire, Refused
    <3>6. w.role = "assistant" /\ w.calls = CallsOf(m.content) /\ w.id = ""
      BY <1>2, <2>1, <2>3, ConvertAgent
    <3>7. w \in Wires
      <4>1. Wire(w.role, w.parts, w.calls, w.id) \in Wires
        <5>1. w.role \in Roles /\ w.calls \in Seq(Details) /\ w.id \in Ids \cup {""}
          BY Zenon, <1>a, <3>2, <3>6
        <5> QED BY Zenon, <3>4, <5>1, WireHolds
      <4> QED BY Zenon, <3>5, <4>1
    <3>8. ConvertMessage(m) = <<w>>
      BY <1>2, <2>1, ConvertAgent
    <3> QED BY <3>7, <3>8
  <2> QED BY <2>2, <2>3
<1>3. CASE m \in ToolMessages
  BY <1>3, ConvertTool
<1>4. CASE m \in SystemMessages
  <2>1. Wire("system", <<m.content>>, <<>>, "") \in Wires
    <3>1. m.content \in Pieces
      BY <1>4, ConvertSystem DEF Pieces
    <3>2. <<m.content>> \in Seq(Pieces)
      BY Zenon, <3>1, OneOf
    <3> QED BY Zenon, <1>a, <3>2, WireHolds
  <2>2. ConvertMessage(m) = <<Wire("system", <<m.content>>, <<>>, "")>>
    BY Zenon, <1>4, ConvertSystem
  <2> QED BY Zenon, <2>1, <2>2, OneOf
<1> QED BY <1>1, <1>2, <1>3, <1>4 DEF Posted, Spoken

Conversions(ms) == [k \in DOMAIN ms |-> ConvertMessage(ms[k])]

(* The conversions of messages are a sequence of sequences. *)
LEMMA ConversionsTypes ==
  ASSUME NEW ms \in Seq(Posted)
  PROVE  /\ Conversions(ms) \in Seq(Seq(Wires)) /\ Len(Conversions(ms)) = Len(ms)
         /\ \A k \in 1 .. Len(ms) : Conversions(ms)[k] = ConvertMessage(ms[k])
<1>1. DOMAIN ms = 1 .. Len(ms) /\ Len(ms) \in Nat /\ \A k \in 1 .. Len(ms) : ms[k] \in Posted
  OBVIOUS
<1>2. \A k \in 1 .. Len(ms) : ConvertMessage(ms[k]) \in Seq(Wires)
  BY <1>1, ConvertTypes
<1>3. Conversions(ms) = [k \in 1 .. Len(ms) |-> ConvertMessage(ms[k])]
  BY <1>1 DEF Conversions
<1> QED BY <1>1, <1>2, <1>3

(* A request converts piece by piece. *)
LEMMA ConvertConcat ==
  ASSUME NEW a \in Seq(Posted), NEW b \in Seq(Posted)
  PROVE  ConvertMessages(a \o b) = ConvertMessages(a) \o ConvertMessages(b)
<1>1. PICK c, ca, cb, cc : c = a \o b /\ ca = Conversions(a) /\ cb = Conversions(b) /\ cc = Conversions(c)
  OBVIOUS
<1>2. c \in Seq(Posted) /\ Len(c) = Len(a) + Len(b) /\ \A i \in 1 .. Len(a) + Len(b) : c[i] = IF i <= Len(a) THEN a[i] ELSE b[i - Len(a)]
  BY <1>1, ConcatProperties
<1>3. /\ ca \in Seq(Seq(Wires)) /\ Len(ca) = Len(a) /\ \A k \in 1 .. Len(a) : ca[k] = ConvertMessage(a[k])
      /\ cb \in Seq(Seq(Wires)) /\ Len(cb) = Len(b) /\ \A k \in 1 .. Len(b) : cb[k] = ConvertMessage(b[k])
      /\ cc \in Seq(Seq(Wires)) /\ Len(cc) = Len(c) /\ \A k \in 1 .. Len(c) : cc[k] = ConvertMessage(c[k])
  BY Zenon, <1>1, <1>2, ConversionsTypes
<1>4. PICK d : d = ca \o cb
  OBVIOUS
<1>5. /\ d \in Seq(Seq(Wires)) /\ Len(d) = Len(ca) + Len(cb)
      /\ \A i \in 1 .. Len(ca) + Len(cb) : d[i] = IF i <= Len(ca) THEN ca[i] ELSE cb[i - Len(ca)]
  <2> DEFINE T == Seq(Wires)
  <2> HIDE DEF T
  <2>1. ca \in Seq(T) /\ cb \in Seq(T)
    BY <1>3 DEF T
  <2>2. /\ d \in Seq(T) /\ Len(d) = Len(ca) + Len(cb)
        /\ \A i \in 1 .. Len(ca) + Len(cb) : d[i] = IF i <= Len(ca) THEN ca[i] ELSE cb[i - Len(ca)]
    BY <1>4, <2>1, ConcatProperties
  <2> QED BY <2>2 DEF T
<1>6. ASSUME NEW i \in 1 .. Len(cc) PROVE cc[i] = d[i]
  <2>1. Len(a) \in Nat /\ Len(b) \in Nat /\ i \in 1 .. Len(a) + Len(b)
    BY <1>2, <1>3
  <2>2. cc[i] = ConvertMessage(c[i])
    BY <1>3
  <2>3. CASE i <= Len(a)
    <3>1. c[i] = a[i] /\ i \in 1 .. Len(a)
      BY <1>2, <2>1, <2>3
    <3>2. d[i] = ca[i]
      BY <1>3, <1>5, <2>1, <2>3
    <3> QED BY Zenon, <1>3, <2>2, <3>1, <3>2
  <2>4. CASE ~(i <= Len(a))
    <3>1. PICK j : j = i - Len(a)
      OBVIOUS
    <3>2. c[i] = b[j] /\ j \in 1 .. Len(b)
      BY <1>2, <2>1, <2>4, <3>1
    <3>3. d[i] = cb[j]
      BY <1>3, <1>5, <2>1, <2>4, <3>1
    <3> QED BY Zenon, <1>3, <2>2, <3>2, <3>3
  <2> QED BY <2>3, <2>4
<1>7. cc = d
  <2>1. Len(cc) = Len(d)
    BY <1>2, <1>3, <1>5
  <2> QED BY Zenon, <1>3, <1>5, <1>6, <2>1, SeqEqual
<1>8. FlattenSeq(ca \o cb) = FlattenSeq(ca) \o FlattenSeq(cb)
  BY <1>3, FlattenConcat
<1> QED BY <1>1, <1>4, <1>7, <1>8 DEF ConvertMessages, Conversions

(* Of one message. *)
LEMMA ConvertOne ==
  ASSUME NEW m
  PROVE  ConvertMessages(<<m>>) = ConvertMessage(m)
<1>1. PICK s, t : s = <<m>> /\ t = Conversions(s)
  OBVIOUS
<1>2. DOMAIN s = 1 .. 1 /\ s[1] = m
  BY <1>1
<1>3. Len(t) = 1 /\ t[1] = ConvertMessage(m)
  BY <1>1, <1>2 DEF Conversions
<1>4. FlattenSeq(t) = t[1]
  BY <1>3, FlattenOne
<1> QED BY Zenon, <1>1, <1>3, <1>4 DEF ConvertMessages, Conversions

(* A request holds what its messages convert to. *)
LEMMA ConvertHolds ==
  ASSUME NEW ms \in Seq(Posted)
  PROVE  /\ ConvertMessages(ms) \in Seq(Wires)
         /\ \A x : x \in ToSet(ConvertMessages(ms)) <=> \E k \in DOMAIN ms : x \in ToSet(ConvertMessage(ms[k]))
<1>1. PICK cs : cs = Conversions(ms)
  OBVIOUS
<1>2. /\ cs \in Seq(Seq(Wires)) /\ Len(cs) = Len(ms) /\ DOMAIN cs = DOMAIN ms
      /\ \A k \in DOMAIN ms : cs[k] = ConvertMessage(ms[k])
  BY <1>1, ConversionsTypes
<1>3. /\ FlattenSeq(cs) \in Seq(Wires)
      /\ \A x : x \in ToSet(FlattenSeq(cs)) <=> \E k \in DOMAIN cs : x \in ToSet(cs[k])
  BY <1>2, FlattenHolds
<1>4. ConvertMessages(ms) = FlattenSeq(cs)
  BY <1>1 DEF ConvertMessages, Conversions
<1> QED BY Zenon, <1>2, <1>3, <1>4

-----------------------------------------------------------------------------
(* Requests: why one is refused, by what its messages say. *)

Unsendable(m) ==
  \/ m \in UserMessages /\ \E p \in MediaOf(m.content) : p.kind \notin {"image", "audio", "video"}
  \/ m \in AgentMessages /\ m.content.type = "multi_modal"

(* Who speaks is told by the role. *)
LEMMA RolesDiffer ==
  ASSUME NEW m \in Posted
  PROVE  /\ m \in UserMessages => m.role = "user" /\ m \notin AgentMessages /\ m \notin ToolMessages
         /\ m \in AgentMessages => m.role = "assistant" /\ m \notin UserMessages /\ m \notin ToolMessages
         /\ m \in ToolMessages => m.role = "tool" /\ m \notin UserMessages /\ m \notin AgentMessages
         /\ m \in SystemMessages => m.role = "system" /\ m \notin UserMessages /\ m \notin AgentMessages /\ m \notin ToolMessages
         /\ m \in UserMessages \/ m \in AgentMessages \/ m \in ToolMessages \/ m \in SystemMessages
BY DEF Posted, Spoken, UserMessages, AgentMessages, ToolMessages, SystemMessages

Carried(m, p) == m \in UserMessages /\ p \in MediaOf(m.content)

(* What one message converts to: whether it is refused, and its media.      *)
LEMMA MessageSent ==
  ASSUME NEW m \in Posted
  PROVE  /\ Refused \in ToSet(ConvertMessage(m)) <=> Unsendable(m)
         /\ \A x \in ToSet(ConvertMessage(m)) : \A p : p \in ToSet(x.parts) /\ p.type = "multi_modal" => Carried(m, p)
         /\ ~Unsendable(m) => \A p : Carried(m, p) => \E x \in ToSet(ConvertMessage(m)) : p \in ToSet(x.parts) /\ p.type = "multi_modal"
<1>0. Refused.parts = <<>> /\ Refused.role = "refused" /\ \A x : x \notin ToSet(<<>>)
  BY DEF Refused, Wire, ToSet
<1>s. \A x : ToSet(<<x>>) = {x}
  BY DEF ToSet
<1>1. CASE m \in UserMessages
  <2>1. PICK c, w : c = m.content /\ w = UserWire(c)
    OBVIOUS
  <2>2. ConvertMessage(m) = <<w>>
    BY Zenon, <1>1, <2>1, ConvertUser
  <2>3. ToSet(ConvertMessage(m)) = {w}
    BY Zenon, <1>s, <2>2
  <2>4. w = Refused \/ w = Wire("user", PartsOf(c), <<>>, "")
    BY Zenon, <1>1, <2>1, ConvertUser
  <2>5. w # Refused => w.parts = PartsOf(c)
    <3>1. PICK ps : ps = PartsOf(c)
      OBVIOUS
    <3>2. Wire("user", ps, <<>>, "").parts = ps
      BY DEF Wire
    <3> QED BY Zenon, <2>4, <3>1, <3>2
  <2>6. MediaOf(c) = {p \in ToSet(PartsOf(c)) : p.type = "multi_modal"}
    BY Zenon, <1>1, <2>1, ConvertUser
  <2>7. w = Refused <=> Unsendable(m)
    BY Zenon, <1>1, <2>1, ConvertUser, RolesDiffer DEF Unsendable
  <2> QED BY Zenon, <1>0, <1>1, <2>1, <2>3, <2>5, <2>6, <2>7 DEF Carried
<1>2. CASE m \in AgentMessages
  <2>1. PICK c, w : c = m.content /\ w = AssistantWire(c)
    OBVIOUS
  <2>2. ToSet(ConvertMessage(m)) = {w}
    BY Zenon, <1>2, <1>s, <2>1, ConvertAgent
  <2>3. w = Refused <=> Unsendable(m)
    BY Zenon, <1>2, <2>1, ConvertAgent, RolesDiffer DEF Unsendable
  <2>4. w # Refused => w.parts \in Seq(Texts)
    BY Zenon, <1>2, <2>1, ConvertAgent
  <2>5. \A p : p \in ToSet(w.parts) => p.type # "multi_modal"
    <3>1. CASE w = Refused
      BY <1>0, <3>1
    <3>2. CASE w # Refused
      <4>1. \A p \in Texts : p.type # "multi_modal"
        BY DEF Texts
      <4>2. \A p \in ToSet(w.parts) : p \in Texts
        BY <2>4, <3>2 DEF ToSet
      <4> QED BY Zenon, <4>1, <4>2
    <3> QED BY <3>1, <3>2
  <2> QED BY Zenon, <1>2, <2>2, <2>3, <2>5, RolesDiffer DEF Carried
<1>3. CASE m \in ToolMessages
  <2>1. PICK w, rs : w = ConvertMessage(m) /\ rs = m.content.results
    OBVIOUS
  <2>2. /\ w \in Seq(Wires) /\ Len(w) = Len(rs)
        /\ \A i \in 1 .. Len(rs) : w[i] = Wire("tool", <<>>, <<>>, rs[i])
    BY Zenon, <1>3, <2>1, ConvertTool
  <2>3. ASSUME NEW x \in ToSet(w) PROVE x # Refused /\ x.parts = <<>>
    <3>1. PICK i \in DOMAIN w : x = w[i]
      BY DEF ToSet
    <3>2. i \in 1 .. Len(rs)
      BY <2>2
    <3>3. x = Wire("tool", <<>>, <<>>, rs[i])
      BY Zenon, <2>2, <3>1, <3>2
    <3>4. x.role = "tool" /\ x.parts = <<>>
      BY <3>3 DEF Wire
    <3> QED BY <1>0, <3>4
  <2> QED BY Zenon, <1>0, <1>3, <2>1, <2>3, RolesDiffer DEF Carried, Unsendable
<1>4. CASE m \in SystemMessages
  <2>1. PICK c, w : c = m.content /\ w = Wire("system", <<c>>, <<>>, "")
    OBVIOUS
  <2>2. ToSet(ConvertMessage(m)) = {w} /\ c \in Texts
    BY Zenon, <1>4, <1>s, <2>1, ConvertSystem
  <2>3. w.role = "system" /\ w.parts = <<c>>
    BY <2>1 DEF Wire
  <2>4. w # Refused /\ ToSet(w.parts) = {c} /\ c.type # "multi_modal"
    <3>1. c.type # "multi_modal"
      BY <2>2 DEF Texts
    <3>2. w # Refused
      BY <1>0, <2>3
    <3> QED BY Zenon, <1>s, <2>3, <3>1, <3>2
  <2> QED BY Zenon, <1>4, <2>2, <2>4, RolesDiffer DEF Carried, Unsendable
<1> QED BY Zenon, <1>1, <1>2, <1>3, <1>4, RolesDiffer

(* What a request holds. *)
LEMMA RequestHolds ==
  ASSUME NEW ms \in Seq(Posted), NEW w, w = ConvertMessages(ms)
  PROVE  /\ (\E k \in DOMAIN w : w[k] = Refused) <=> \E k \in DOMAIN ms : Unsendable(ms[k])
         /\ \A p \in MediaSent(w) : \E k \in DOMAIN ms : Carried(ms[k], p)
         /\ (\A k \in DOMAIN ms : ~Unsendable(ms[k])) => \A k \in DOMAIN ms : \A p : Carried(ms[k], p) => p \in MediaSent(w)
<1>1. \A x : x \in ToSet(w) <=> \E k \in DOMAIN ms : x \in ToSet(ConvertMessage(ms[k]))
  BY Zenon, ConvertHolds
<1>2. \A k \in DOMAIN ms : ms[k] \in Posted
  OBVIOUS
<1>3. \A x : x \in ToSet(w) <=> \E k \in DOMAIN w : w[k] = x
  BY DEF ToSet
<1>4. \A p : p \in MediaSent(w) <=> \E x \in ToSet(w) : p \in ToSet(x.parts) /\ p.type = "multi_modal"
  <2>1. \A p : p \in MediaSent(w) <=> \E k \in DOMAIN w : p \in ToSet(w[k].parts) /\ p.type = "multi_modal"
    BY DEF MediaSent
  <2> QED BY Zenon, <1>3, <2>1
<1>5. (\E k \in DOMAIN w : w[k] = Refused) <=> \E k \in DOMAIN ms : Unsendable(ms[k])
  BY Zenon, <1>1, <1>2, <1>3, MessageSent
<1>6. ASSUME NEW p \in MediaSent(w) PROVE \E k \in DOMAIN ms : Carried(ms[k], p)
  <2>1. PICK x \in ToSet(w) : p \in ToSet(x.parts) /\ p.type = "multi_modal"
    BY Zenon, <1>4
  <2>2. PICK k \in DOMAIN ms : x \in ToSet(ConvertMessage(ms[k]))
    BY Zenon, <1>1
  <2> QED BY Zenon, <1>2, <2>1, <2>2, MessageSent
<1>7. ASSUME \A k \in DOMAIN ms : ~Unsendable(ms[k]), NEW k \in DOMAIN ms, NEW p, Carried(ms[k], p) PROVE p \in MediaSent(w)
  <2>1. PICK x \in ToSet(ConvertMessage(ms[k])) : p \in ToSet(x.parts) /\ p.type = "multi_modal"
    BY Zenon, <1>2, <1>7, MessageSent
  <2> QED BY Zenon, <1>1, <1>4, <2>1
<1> QED BY Zenon, <1>5, <1>6, <1>7

(* The verdict on a request, by what its messages say. *)
LEMMA VerdictIs ==
  ASSUME NEW ms \in Seq(Posted), NEW w, w = ConvertMessages(ms)
  PROVE  /\ Verdict(w) = "no" <=> /\ \A k \in DOMAIN ms : ~Unsendable(ms[k])
                                  /\ Paired(w)
                                  /\ \A k \in DOMAIN ms : \A p : Carried(ms[k], p) => p.kind \in Accepts /\ p.bytes
         /\ Verdict(w) = "unsupported" => \E k \in DOMAIN ms : Unsendable(ms[k])
         /\ Verdict(w) = "orphan" => ~Paired(w)
         /\ Verdict(w) = "blind" => \E k \in DOMAIN ms : \E p : Carried(ms[k], p) /\ p.kind \notin Accepts
         /\ Verdict(w) = "hollow" => \E k \in DOMAIN ms : \E p : Carried(ms[k], p) /\ ~p.bytes
         /\ Verdict(w) \in {"unsupported", "orphan", "blind", "hollow", "no"}
<1>1. PICK bad, pair, blind, hollow :
        /\ bad \in BOOLEAN /\ pair \in BOOLEAN /\ blind \in BOOLEAN /\ hollow \in BOOLEAN
        /\ bad <=> \E k \in DOMAIN w : w[k] = Refused
        /\ pair <=> Paired(w)
        /\ blind <=> \E p \in MediaSent(w) : p.kind \notin Accepts
        /\ hollow <=> \E p \in MediaSent(w) : ~p.bytes
  <2>1. PICK bad \in BOOLEAN : bad <=> \E k \in DOMAIN w : w[k] = Refused
    BY Zenon
  <2>2. PICK pair \in BOOLEAN : pair <=> Paired(w)
    BY Zenon
  <2>3. PICK blind \in BOOLEAN : blind <=> \E p \in MediaSent(w) : p.kind \notin Accepts
    BY Zenon
  <2>4. PICK hollow \in BOOLEAN : hollow <=> \E p \in MediaSent(w) : ~p.bytes
    BY Zenon
  <2> QED BY Zenon, <2>1, <2>2, <2>3, <2>4
<1>2. Verdict(w) = IF bad THEN "unsupported" ELSE IF ~pair THEN "orphan" ELSE IF blind THEN "blind" ELSE IF hollow THEN "hollow" ELSE "no"
  BY <1>1 DEF Verdict
<1>3. bad <=> \E k \in DOMAIN ms : Unsendable(ms[k])
  BY Zenon, <1>1, RequestHolds
<1>4. blind => \E k \in DOMAIN ms : \E p : Carried(ms[k], p) /\ p.kind \notin Accepts
  BY Zenon, <1>1, RequestHolds
<1>5. hollow => \E k \in DOMAIN ms : \E p : Carried(ms[k], p) /\ ~p.bytes
  BY Zenon, <1>1, RequestHolds
<1>6. ~bad /\ ~blind /\ ~hollow => \A k \in DOMAIN ms : \A p : Carried(ms[k], p) => p.kind \in Accepts /\ p.bytes
  BY Zenon, <1>1, <1>3, RequestHolds
<1>7. (Verdict(w) = "no" <=> ~bad /\ pair /\ ~blind /\ ~hollow) /\ Verdict(w) \in {"unsupported", "orphan", "blind", "hollow", "no"}
  BY <1>2
<1>8. /\ Verdict(w) = "unsupported" => bad
      /\ Verdict(w) = "orphan" => ~pair
      /\ Verdict(w) = "blind" => blind
      /\ Verdict(w) = "hollow" => hollow
  BY <1>2
<1>9. Verdict(w) = "no" <=> /\ \A k \in DOMAIN ms : ~Unsendable(ms[k])
                            /\ Paired(w)
                            /\ \A k \in DOMAIN ms : \A p : Carried(ms[k], p) => p.kind \in Accepts /\ p.bytes
  BY Zenon, <1>1, <1>3, <1>4, <1>5, <1>6, <1>7
<1> QED BY Zenon, <1>1, <1>3, <1>4, <1>5, <1>7, <1>8, <1>9

-----------------------------------------------------------------------------
(* Histories: what the rule says of them, cut, continued and stored. *)

Coherent(h) == Paired(ConvertMessages(h))

(* Histories are requests. *)
LEMMA SpokenSent ==
  ASSUME NEW h \in Seq(Spoken) PROVE h \in Seq(Posted) /\ \A k \in DOMAIN h : h[k] \in Spoken /\ h[k] \in Posted
BY DEF Posted

(* A first message of a request shows in its first wire. *)
LEMMA FirstSent ==
  ASSUME NEW h \in Seq(Spoken), h # <<>>
  PROVE  ConvertMessages(h) # <<>> /\ (ConvertMessages(h)[1].role = "tool" <=> h[1].role = "tool")
<1>1. PICK m, t : m = h[1] /\ t = Tail(h)
  OBVIOUS
<1>2. m \in Spoken /\ t \in Seq(Spoken) /\ h = <<m>> \o t
  BY <1>1
<1>3. m \in Posted /\ t \in Seq(Posted) /\ <<m>> \in Seq(Posted)
  BY <1>2, SpokenSent DEF Posted
<1>4. PICK a, b, w : a = ConvertMessage(m) /\ b = ConvertMessages(t) /\ w = ConvertMessages(h)
  OBVIOUS
<1>5. ConvertMessages(<<m>>) = a
  BY Zenon, <1>4, ConvertOne
<1>6. w = a \o b
  <2>1. ConvertMessages(<<m>> \o t) = ConvertMessages(<<m>>) \o ConvertMessages(t)
    BY <1>3, ConvertConcat
  <2> QED BY <1>2, <1>4, <1>5, <2>1
<1>7. a \in Seq(Wires) /\ b \in Seq(Wires)
  BY Zenon, <1>3, <1>4, ConvertTypes, ConvertHolds
<1>8. a # <<>> /\ (a[1].role = "tool" <=> m.role = "tool")
  <2>0. Refused.role = "refused"
    BY DEF Refused, Wire
  <2>1. CASE m \in UserMessages
    <3>1. PICK x : x = UserWire(m.content)
      OBVIOUS
    <3>2. a = <<x>> /\ (x = Refused \/ x = Wire("user", PartsOf(m.content), <<>>, ""))
      BY Zenon, <1>4, <2>1, <3>1, ConvertUser
    <3>3. Wire("user", PartsOf(m.content), <<>>, "").role = "user"
      BY DEF Wire
    <3>4. x.role = "refused" \/ x.role = "user"
      BY Zenon, <2>0, <3>2, <3>3
    <3>5. m.role = "user"
      BY Zenon, <1>3, <2>1, RolesDiffer
    <3> QED BY <3>2, <3>4, <3>5
  <2>2. CASE m \in AgentMessages
    <3>1. PICK x : x = AssistantWire(m.content)
      OBVIOUS
    <3>2. a = <<x>> /\ (x = Refused \/ x.role = "assistant")
      BY Zenon, <1>4, <2>2, <3>1, ConvertAgent
    <3>3. m.role = "assistant"
      BY Zenon, <1>3, <2>2, RolesDiffer
    <3> QED BY <2>0, <3>2, <3>3
  <2>3. CASE m \in ToolMessages
    <3>1. PICK rs : rs = m.content.results
      OBVIOUS
    <3>2. a # <<>> /\ Len(a) = Len(rs) /\ \A i \in 1 .. Len(rs) : a[i] = Wire("tool", <<>>, <<>>, rs[i])
      BY Zenon, <1>4, <2>3, <3>1, ConvertTool
    <3>3. 1 \in 1 .. Len(rs)
      BY <1>7, <3>2
    <3>4. a[1].role = "tool"
      <4>1. a[1] = Wire("tool", <<>>, <<>>, rs[1])
        BY <3>2, <3>3
      <4> QED BY <4>1 DEF Wire
    <3>5. m.role = "tool"
      BY Zenon, <1>3, <2>3, RolesDiffer
    <3> QED BY <3>2, <3>4, <3>5
  <2> QED BY <1>2, <2>1, <2>2, <2>3 DEF Spoken
<1>9. w # <<>> /\ w[1] = a[1]
  <2>1. Len(w) = Len(a) + Len(b) /\ \A i \in 1 .. Len(a) + Len(b) : w[i] = IF i <= Len(a) THEN a[i] ELSE b[i - Len(a)]
    BY <1>6, <1>7, ConcatProperties
  <2>2. Len(a) \in Nat \ {0} /\ Len(b) \in Nat
    BY <1>7, <1>8
  <2>3. 1 \in 1 .. Len(a) + Len(b) /\ 1 <= Len(a)
    BY <2>2
  <2>4. w \in Seq(Wires)
    BY <1>6, <1>7, ConcatProperties
  <2> QED BY <2>1, <2>2, <2>3, <2>4
<1> QED BY Zenon, <1>1, <1>4, <1>8, <1>9

(* Coherent histories put together are whole. *)
LEMMA WholeConcat ==
  ASSUME NEW a \in Seq(Spoken), NEW b \in Seq(Spoken), Coherent(a), Coherent(b)
  PROVE  Coherent(a \o b)
<1>1. PICK wa, wb : wa = ConvertMessages(a) /\ wb = ConvertMessages(b)
  OBVIOUS
<1>2. wa \in Seq(Wires) /\ wb \in Seq(Wires) /\ Paired(wa) /\ Paired(wb)
  BY Zenon, <1>1, SpokenSent, ConvertHolds DEF Coherent
<1>3. Paired(wa \o wb)
  BY <1>2, PairedConcat
<1>4. ConvertMessages(a \o b) = wa \o wb
  BY <1>1, SpokenSent, ConvertConcat
<1> QED BY <1>3, <1>4 DEF Coherent

(* What a cut leaves of a whole history is whole, or begins with an orphan. *)
LEMMA WholeRest ==
  ASSUME NEW a \in Seq(Spoken), NEW b \in Seq(Spoken), Coherent(a \o b), ~Orphaned(b)
  PROVE  Coherent(b)
<1>1. PICK wa, wb : wa = ConvertMessages(a) /\ wb = ConvertMessages(b)
  OBVIOUS
<1>2. wa \in Seq(Wires) /\ wb \in Seq(Wires)
  BY Zenon, <1>1, SpokenSent, ConvertHolds
<1>3. ConvertMessages(a \o b) = wa \o wb
  BY <1>1, SpokenSent, ConvertConcat
<1>4. wb # <<>> => wb[1].role # "tool"
  <2>1. CASE b = <<>>
    <3>1. ConvertMessages(b) = <<>>
      BY <2>1, FlattenNone DEF ConvertMessages
    <3> QED BY <1>1, <3>1
  <2>2. CASE b # <<>>
    BY Zenon, <1>1, <2>2, FirstSent DEF Orphaned
  <2> QED BY <2>1, <2>2
<1>5. Paired(wa \o wb)
  BY <1>3 DEF Coherent
<1>6. Paired(wb)
  BY <1>2, <1>4, <1>5, PairedRest
<1> QED BY <1>1, <1>6 DEF Coherent

(* What stands before the history. *)
LEMMA ComposedIs ==
  ASSUME NEW h \in Seq(Spoken), NEW s \in BOOLEAN
  PROVE  \E pre \in Seq(SystemMessages) : Composed(h, s) = pre \o h
<1>1. PICK m, n : m = Message("system", Text(<<"prompt">>)) /\ n = Message("system", Text(<<"summary">>))
  OBVIOUS
<1>2. m \in SystemMessages /\ n \in SystemMessages
  <2>1. Text(<<"prompt">>) \in Texts /\ Text(<<"summary">>) \in Texts
    BY DEF Text, Texts, Tokens
  <2> QED BY <1>1, <2>1 DEF Message, SystemMessages
<1>3. PICK pre : pre = <<m>> \o (IF s THEN <<n>> ELSE <<>>)
  OBVIOUS
<1>4. pre \in Seq(SystemMessages)
  BY <1>2, <1>3
<1>5. Composed(h, s) = pre \o h
  BY <1>1, <1>3 DEF Composed
<1> QED BY <1>4, <1>5

(* It is quiet. *)
LEMMA PrefixQuiet ==
  ASSUME NEW pre \in Seq(SystemMessages)
  PROVE  /\ pre \in Seq(Posted) /\ \A i \in DOMAIN ConvertMessages(pre) :
              ConvertMessages(pre)[i].role # "tool" /\ ConvertMessages(pre)[i].calls = <<>>
         /\ \A k \in DOMAIN pre : ~Unsendable(pre[k]) /\ \A p : ~Carried(pre[k], p)
<1>1. pre \in Seq(Posted) /\ \A k \in DOMAIN pre : pre[k] \in SystemMessages /\ pre[k] \in Posted
  BY DEF Posted
<1>2. PICK w : w = ConvertMessages(pre)
  OBVIOUS
<1>3. \A x : x \in ToSet(w) <=> \E k \in DOMAIN pre : x \in ToSet(ConvertMessage(pre[k]))
  BY Zenon, <1>1, <1>2, ConvertHolds
<1>4. ASSUME NEW i \in DOMAIN w PROVE w[i].role # "tool" /\ w[i].calls = <<>>
  <2>1. w[i] \in ToSet(w)
    BY DEF ToSet
  <2>2. PICK k \in DOMAIN pre : w[i] \in ToSet(ConvertMessage(pre[k]))
    BY Zenon, <1>3, <2>1
  <2>3. PICK x : x = Wire("system", <<pre[k].content>>, <<>>, "")
    OBVIOUS
  <2>4. ConvertMessage(pre[k]) = <<x>>
    BY Zenon, <1>1, <2>3, ConvertSystem
  <2>5. ToSet(<<x>>) = {x}
    BY DEF ToSet
  <2>6. w[i] = x
    BY Zenon, <2>2, <2>4, <2>5
  <2>7. x.role = "system" /\ x.calls = <<>>
    BY <2>3 DEF Wire
  <2> QED BY <2>6, <2>7
<1>5. \A k \in DOMAIN pre : ~Unsendable(pre[k]) /\ \A p : ~Carried(pre[k], p)
  BY Zenon, <1>1, RolesDiffer DEF Unsendable, Carried
<1> QED BY Zenon, <1>1, <1>2, <1>4, <1>5

(* A request that begins a run: the history after what the system says. *)
LEMMA ComposedHolds ==
  ASSUME NEW h \in Seq(Spoken), NEW s \in BOOLEAN, NEW ms, ms = Composed(h, s)
  PROVE  /\ ms \in Seq(Posted)
         /\ ~Orphaned(h) /\ Coherent(h) => Coherent(ms)
         /\ Orphaned(h) => ~Coherent(ms)
         /\ (\E k \in DOMAIN ms : Unsendable(ms[k])) <=> \E k \in DOMAIN h : Unsendable(h[k])
         /\ \A p : (\E k \in DOMAIN ms : Carried(ms[k], p)) <=> \E k \in DOMAIN h : Carried(h[k], p)
<1>1. PICK pre \in Seq(SystemMessages) : ms = pre \o h
  BY ComposedIs
<1>2. PICK wp, wh : wp = ConvertMessages(pre) /\ wh = ConvertMessages(h)
  OBVIOUS
<1>3. pre \in Seq(Posted) /\ h \in Seq(Posted)
  BY PrefixQuiet, SpokenSent
<1>4. wp \in Seq(Wires) /\ wh \in Seq(Wires)
  BY Zenon, <1>2, <1>3, ConvertHolds
<1>5. ConvertMessages(ms) = wp \o wh
  BY <1>1, <1>2, <1>3, ConvertConcat
<1>6. \A i \in DOMAIN wp : wp[i].role # "tool" /\ wp[i].calls = <<>>
  BY Zenon, <1>2, PrefixQuiet
<1>7. ASSUME Coherent(h) PROVE Coherent(ms)
  <2>1. Paired(wp)
    BY Zenon, <1>6, PairedQuiet
  <2>2. Paired(wh)
    BY <1>2, <1>7 DEF Coherent
  <2>3. Paired(wp \o wh)
    BY <1>4, <2>1, <2>2, PairedConcat
  <2> QED BY <1>5, <2>3 DEF Coherent
<1>8. ASSUME Orphaned(h) PROVE ~Coherent(ms)
  <2>1. h # <<>> /\ h[1].role = "tool"
    BY <1>8 DEF Orphaned
  <2>2. wh # <<>> /\ wh[1].role = "tool"
    BY Zenon, <1>2, <2>1, FirstSent
  <2>3. ~Paired(wp \o wh)
    BY <1>4, <1>6, <2>2, OrphanUnpaired
  <2> QED BY <1>5, <2>3 DEF Coherent
<1>9. /\ ms \in Seq(Posted) /\ Len(ms) = Len(pre) + Len(h)
      /\ \A i \in 1 .. Len(pre) + Len(h) : ms[i] = IF i <= Len(pre) THEN pre[i] ELSE h[i - Len(pre)]
  BY <1>1, <1>3, ConcatProperties
<1>10. ASSUME NEW k \in DOMAIN h PROVE \E i \in DOMAIN ms : ms[i] = h[k]
  <2>1. PICK i : i = Len(pre) + k
    OBVIOUS
  <2>2. i \in 1 .. Len(pre) + Len(h) /\ ~(i <= Len(pre)) /\ i - Len(pre) = k /\ i \in DOMAIN ms
    BY <1>3, <1>9, <2>1
  <2>3. ms[i] = h[k]
    BY <1>9, <2>2
  <2> QED BY <2>2, <2>3
<1>11. ASSUME NEW i \in DOMAIN ms PROVE (\E k \in DOMAIN h : ms[i] = h[k]) \/ \E k \in DOMAIN pre : ms[i] = pre[k]
  <2>1. i \in 1 .. Len(pre) + Len(h) /\ Len(pre) \in Nat /\ Len(h) \in Nat
    BY <1>3, <1>9
  <2>2. CASE i <= Len(pre)
    <3>1. ms[i] = pre[i] /\ i \in DOMAIN pre
      BY <1>9, <2>1, <2>2
    <3> QED BY <3>1
  <2>3. CASE ~(i <= Len(pre))
    <3>1. PICK k : k = i - Len(pre)
      OBVIOUS
    <3>2. ms[i] = h[k] /\ k \in DOMAIN h
      BY <1>9, <2>1, <2>3, <3>1
    <3> QED BY <3>2
  <2> QED BY <2>2, <2>3
<1>12. (\E k \in DOMAIN ms : Unsendable(ms[k])) <=> \E k \in DOMAIN h : Unsendable(h[k])
  BY Zenon, <1>10, <1>11, PrefixQuiet
<1>13. \A p : (\E k \in DOMAIN ms : Carried(ms[k], p)) <=> \E k \in DOMAIN h : Carried(h[k], p)
  BY Zenon, <1>10, <1>11, PrefixQuiet
<1> QED BY Zenon, <1>7, <1>8, <1>9, <1>12, <1>13

(* Two messages. *)
LEMMA TwoOf ==
  ASSUME NEW S, NEW x \in S, NEW y \in S
  PROVE  <<x, y>> \in Seq(S) /\ <<x, y>> = <<x>> \o <<y>>
<1>1. PICK s, t, a, b : s = <<x, y>> /\ a = <<x>> /\ b = <<y>> /\ t = a \o b
  OBVIOUS
<1>2. s \in Seq(S) /\ Len(s) = 2 /\ s[1] = x /\ s[2] = y /\ a \in Seq(S) /\ b \in Seq(S)
  BY <1>1
<1>3. Two(t, x, y)
  BY Zenon, <1>1, JoinTwo
<1>4. t \in Seq(S)
  BY <1>1, <1>2, ConcatProperties
<1>5. \A i \in 1 .. Len(s) : s[i] = t[i]
  BY <1>2, <1>3 DEF Two
<1>6. s = t
  BY <1>2, <1>3, <1>4, <1>5, SeqEqual DEF Two
<1> QED BY <1>1, <1>2, <1>6

(* A message with nothing to answer is whole by itself. *)
LEMMA WholeOne ==
  ASSUME NEW m \in Spoken, m \in UserMessages \/ (m \in AgentMessages /\ CallsOf(m.content) = <<>>)
  PROVE  <<m>> \in Seq(Spoken) /\ Coherent(<<m>>)
<1>0. Refused.role = "refused" /\ Refused.calls = <<>>
  BY DEF Refused, Wire
<1>1. PICK x : ConvertMessage(m) = <<x>> /\ x.role # "tool" /\ x.calls = <<>>
  <2>1. CASE m \in UserMessages
    <3>1. PICK x : x = UserWire(m.content)
      OBVIOUS
    <3>2. ConvertMessage(m) = <<x>> /\ (x = Refused \/ x = Wire("user", PartsOf(m.content), <<>>, ""))
      BY Zenon, <2>1, <3>1, ConvertUser
    <3>3. Wire("user", PartsOf(m.content), <<>>, "").role = "user" /\ Wire("user", PartsOf(m.content), <<>>, "").calls = <<>>
      BY DEF Wire
    <3>4. (x.role = "refused" \/ x.role = "user") /\ x.calls = <<>>
      BY Zenon, <1>0, <3>2, <3>3
    <3> QED BY <3>2, <3>4
  <2>2. CASE m \in AgentMessages /\ CallsOf(m.content) = <<>>
    <3>1. PICK x : x = AssistantWire(m.content)
      OBVIOUS
    <3>2. ConvertMessage(m) = <<x>> /\ (x = Refused \/ (x.role = "assistant" /\ x.calls = <<>>))
      BY Zenon, <2>2, <3>1, ConvertAgent
    <3> QED BY <1>0, <3>2
  <2> QED BY <2>1, <2>2
<1>2. PICK w : w = <<x>>
  OBVIOUS
<1>3. \A i \in DOMAIN w : w[i].role # "tool" /\ w[i].calls = <<>>
  BY <1>1, <1>2
<1>4. Paired(w)
  BY Zenon, <1>3, PairedQuiet
<1>5. ConvertMessages(<<m>>) = w
  BY Zenon, <1>1, <1>2, ConvertOne
<1> QED BY <1>4, <1>5 DEF Coherent

IdsOf(cs) == [k \in DOMAIN cs |-> cs[k].id]

(* Calls and their results. *)
LEMMA WholeExchange ==
  ASSUME NEW a \in AgentMessages, CallsOf(a.content) # <<>>, NEW m, m = Message("tool", Results(IdsOf(CallsOf(a.content))))
  PROVE  /\ a \in Spoken /\ m \in Spoken /\ a \in Posted /\ m \in Posted /\ m \in ToolMessages
         /\ ~Unsendable(a) /\ ~Unsendable(m) /\ \A p : ~Carried(a, p) /\ ~Carried(m, p)
         /\ <<a, m>> \in Seq(Spoken) /\ Coherent(<<a, m>>)
<1>1. PICK cs, ids : cs = CallsOf(a.content) /\ ids = IdsOf(cs)
  OBVIOUS
<1>2. cs \in Seq(Details) /\ cs # <<>>
  <2>1. a.content \in AgentContents
    BY DEF AgentMessages
  <2> QED BY <1>1, <2>1, AgentSays
<1>3. PICK n \in Nat \ {0} : n = Len(cs) /\ DOMAIN cs = 1 .. n
  BY <1>2
<1>4. ids \in Seq(Ids) /\ ids # <<>> /\ Len(ids) = n /\ \A k \in 1 .. n : ids[k] = cs[k].id
  <2>1. \A k \in 1 .. n : cs[k].id \in Ids
    BY <1>2, <1>3 DEF Ids
  <2>2. ids = [k \in 1 .. n |-> cs[k].id]
    BY <1>1, <1>3 DEF IdsOf
  <2> QED BY <1>3, <2>1, <2>2
<1>5. m \in ToolMessages /\ m.content.results = ids
  BY <1>1, <1>4 DEF Message, Results, ToolMessages, ToolContents
<1>6. a \in Spoken /\ m \in Spoken /\ a \in Posted /\ m \in Posted
  BY <1>5 DEF Spoken, Posted
<1>7. a.content.type # "multi_modal"
  <2>1. a.content.type = "multi_modal" => CallsOf(a.content) = <<>>
    BY DEF CallsOf
  <2> QED BY <2>1
<1>8. ~Unsendable(a) /\ ~Unsendable(m) /\ \A p : ~Carried(a, p) /\ ~Carried(m, p)
  BY Zenon, <1>5, <1>6, <1>7, RolesDiffer DEF Unsendable, Carried
<1>9. <<a, m>> \in Seq(Spoken) /\ <<a, m>> = <<a>> \o <<m>> /\ <<a>> \in Seq(Posted) /\ <<m>> \in Seq(Posted)
  BY <1>6, TwoOf, OneOf
<1>10. PICK x, t, w : x = AssistantWire(a.content) /\ t = ConvertMessage(m) /\ w = <<x>> \o t
  OBVIOUS
<1>11. ConvertMessage(a) = <<x>> /\ x.role = "assistant" /\ x.calls = cs
  BY Zenon, <1>1, <1>7, <1>10, ConvertAgent
<1>12. /\ t \in Seq(Wires) /\ Len(t) = n /\ \A i \in 1 .. n : t[i] = Wire("tool", <<>>, <<>>, ids[i])
  BY Zenon, <1>4, <1>5, <1>10, ConvertTool
<1>13. <<x>> \in Seq(Wires) /\ Len(<<x>>) = 1 /\ <<x>>[1] = x
  <2>1. <<x>> \in Seq(Wires)
    BY Zenon, <1>6, <1>11, ConvertTypes
  <2> QED BY <2>1
<1>14. PICK s : s = <<x>>
  OBVIOUS
<1>15. /\ w \in Seq(Wires) /\ Len(w) = 1 + n
       /\ \A i \in 1 .. 1 + n : w[i] = IF i <= 1 THEN s[i] ELSE t[i - 1]
  BY <1>10, <1>12, <1>13, <1>14, ConcatProperties
<1>16. w[1] = x
  BY <1>3, <1>13, <1>14, <1>15
<1>17. ASSUME NEW i \in 1 .. n, NEW k, k = i + 1 PROVE w[k].role = "tool" /\ w[k].id = cs[i].id /\ w[k].calls = <<>>
  <2>1. k \in 1 .. 1 + n /\ ~(k <= 1) /\ k - 1 = i
    BY <1>17
  <2>2. w[k] = t[i]
    BY <1>15, <2>1
  <2>3. w[k] = Wire("tool", <<>>, <<>>, cs[i].id)
    BY Zenon, <1>4, <1>12, <2>2
  <2> QED BY <2>3 DEF Wire
<1>18. w[1].role # "tool" /\ w[1].calls = cs /\ Len(w) = n + 1 /\ n \in Nat
  BY <1>11, <1>15, <1>16
<1>19. Paired(w)
  <2>1. Answering(w, cs, n)
    BY <1>17 DEF Answering
  <2> QED BY Zenon, <1>3, <1>15, <2>1, <1>18, PairedExchange
<1>20. ConvertMessages(<<a, m>>) = w
  <2>1. ConvertMessages(<<a>> \o <<m>>) = ConvertMessages(<<a>>) \o ConvertMessages(<<m>>)
    BY <1>9, ConvertConcat
  <2>2. ConvertMessages(<<a>>) = <<x>> /\ ConvertMessages(<<m>>) = t
    BY Zenon, <1>10, <1>11, ConvertOne
  <2> QED BY <1>9, <1>10, <2>1, <2>2
<1> QED BY Zenon, <1>5, <1>6, <1>8, <1>9, <1>19, <1>20 DEF Coherent

(* What a user may send. *)
LEMMA InputSpoken ==
  ASSUME NEW c \in Inputs
  PROVE  /\ Message("user", c) \in UserMessages /\ Message("user", c).content = c
         /\ \A p \in MediaOf(c) : p.bytes /\ p.kind # "none"
<1>1. c \in Words \cup Payloads({TRUE}) \/ c \in [type : {"composite"}, parts : Seq(Words \cup Payloads({TRUE}))]
  BY ConversationAssumption
<1>2. \A s \in Seq(STRING) : s \in Seq(Tokens)
  <2>1. STRING \subseteq Tokens
    BY Zenon DEF Tokens
  <2> QED BY Zenon, <2>1, SeqMonotonic
<1>3. ASSUME NEW p \in Words \cup Payloads({TRUE})
      PROVE  p \in Pieces /\ p.type # "composite" /\ (p.type = "multi_modal" => p.bytes /\ p.kind # "none")
  <2>1. CASE p \in Words
    <3>1. p = [type |-> "text", text |-> p.text] /\ p.text \in Seq(STRING)
      BY <2>1 DEF Words
    <3>2. p.text \in Seq(Tokens)
      BY Zenon, <1>2, <3>1
    <3>3. p \in Texts
      BY <3>1, <3>2 DEF Texts
    <3> QED BY <3>1, <3>3 DEF Pieces
  <2>2. CASE p \in Payloads({TRUE})
    <3>1. p \in Medias
      BY <2>2 DEF Payloads, Medias
    <3>2. p.type = "multi_modal" /\ p.bytes /\ p.kind # "none"
      BY <2>2 DEF Payloads
    <3> QED BY <3>1, <3>2 DEF Pieces
  <2> QED BY <1>3, <2>1, <2>2
<1>4. CASE c \in Words \cup Payloads({TRUE})
  <2>1. c \in Pieces /\ c.type # "composite"
    BY Zenon, <1>3, <1>4
  <2>2. c \in UserContents
    BY <2>1 DEF UserContents
  <2>3. MediaOf(c) \subseteq {c}
    BY <2>1 DEF MediaOf
  <2>4. \A p \in MediaOf(c) : p.type = "multi_modal"
    BY Zenon DEF MediaOf
  <2>5. \A p \in MediaOf(c) : p.bytes /\ p.kind # "none"
    BY Zenon, <1>3, <1>4, <2>3, <2>4
  <2> QED BY <2>2, <2>5 DEF Message, UserMessages
<1>5. CASE c \in [type : {"composite"}, parts : Seq(Words \cup Payloads({TRUE}))]
  <2>1. c.type = "composite" /\ c.parts \in Seq(Words \cup Payloads({TRUE})) /\ c = [type |-> "composite", parts |-> c.parts]
    BY <1>5
  <2>2. Words \cup Payloads({TRUE}) \subseteq Pieces
    BY Zenon, <1>3
  <2>3. c.parts \in Seq(Pieces)
    BY Zenon, <2>1, <2>2, SeqMonotonic
  <2>4. c \in UserContents
    BY <2>1, <2>3 DEF UserContents
  <2>5. \A p \in ToSet(c.parts) : p \in Words \cup Payloads({TRUE})
    BY <2>1 DEF ToSet
  <2>6. \A p \in MediaOf(c) : p.bytes /\ p.kind # "none"
    BY Zenon, <1>3, <2>1, <2>5 DEF MediaOf
  <2> QED BY <2>4, <2>6 DEF Message, UserMessages
<1> QED BY <1>1, <1>4, <1>5

(* What a model replies. *)
LEMMA ReplySpoken ==
  ASSUME NEW kind \in {"text", "reasoning", "media", "call", "calls"}, convCount.calls \in Nat
  PROVE  /\ Message("assistant", Reply(kind)) \in AgentMessages /\ Message("assistant", Reply(kind)).content = Reply(kind)
         /\ CallsOf(Reply(kind)) \in Seq(Details)
         /\ \A p \in MediaOf(Reply(kind)) : p.bytes
<1>1. PICK c : c = Reply(kind)
  OBVIOUS
<1>2. PICK d, e : d = Call(convCount.calls + 1) /\ e = Call(convCount.calls + 2)
  OBVIOUS
<1>3. d \in Details /\ e \in Details
  BY <1>2 DEF Details
<1>4. \A ds \in Seq(Details) : ToolCalls(ds) \in ToolUses
  BY DEF ToolCalls, ToolUses
<1>5. <<d>> \in Seq(Details) /\ <<d, e>> \in Seq(Details)
  BY <1>3
<1>6. Text(<<"t">>) \in Texts /\ Reasoning(<<"r">>) \in Thoughts
  BY DEF Text, Texts, Reasoning, Thoughts, Tokens
<1>7. c \in AgentContents
  <2>1. CASE kind = "text"
    BY <1>1, <1>6, <2>1 DEF Reply, AgentContents
  <2>2. CASE kind = "reasoning"
    BY <1>1, <1>6, <2>2 DEF Reply, AgentContents
  <2>3. CASE kind = "media"
    <3>1. Media("audio") \in Medias
      BY DEF Media, Medias
    <3> QED BY <1>1, <2>3, <3>1 DEF Reply, AgentContents
  <2>4. CASE kind = "call"
    <3>1. ToolCalls(<<d>>) \in ToolUses
      BY Zenon, <1>4, <1>5
    <3>2. c = ToolCalls(<<d>>)
      BY <1>1, <1>2, <2>4 DEF Reply
    <3> QED BY Zenon, <3>1, <3>2 DEF AgentContents
  <2>5. CASE kind = "calls"
    <3>1. PICK x, y, z, ps : x = Reasoning(<<"r">>) /\ y = Text(<<"t">>) /\ z = ToolCalls(<<d, e>>) /\ ps = <<x, y, z>>
      OBVIOUS
    <3>2. x \in Thoughts /\ y \in Texts /\ z \in ToolUses
      BY Zenon, <1>4, <1>5, <1>6, <3>1
    <3>3. ps \in Seq(Texts \cup Thoughts \cup ToolUses)
      BY <3>1, <3>2
    <3>4. c = Composite(ps)
      BY <1>1, <1>2, <2>5, <3>1 DEF Reply
    <3>5. c \in Composed3
      BY <3>3, <3>4 DEF Composite, Composed3
    <3> QED BY <3>5 DEF AgentContents
  <2> QED BY <2>1, <2>2, <2>3, <2>4, <2>5
<1>8. CallsOf(c) \in Seq(Details)
  BY <1>7, AgentSays
<1>9. Message("assistant", c) \in AgentMessages /\ Message("assistant", c).content = c
  BY <1>7 DEF Message, AgentMessages
<1>10. \A p \in MediaOf(c) : p.bytes
  <2>1. c.type = "multi_modal" => c = Media("audio")
    BY <1>1 DEF Reply, Text, Reasoning, ToolCalls, Composite
  <2>2. MediaOf(c) # {} => c.type = "multi_modal"
    BY Zenon, <1>9, ConvertAgent
  <2>3. Media("audio").bytes /\ Media("audio").type = "multi_modal"
    BY DEF Media
  <2>4. MediaOf(Media("audio")) \subseteq {Media("audio")}
    BY <2>3 DEF MediaOf
  <2> QED BY Zenon, <2>1, <2>2, <2>3, <2>4
<1> QED BY Zenon, <1>1, <1>8, <1>9, <1>10

-----------------------------------------------------------------------------
(* What the session file gives back of a content. *)

(* Of a part. *)
LEMMA PartKept ==
  ASSUME NEW c \in Pieces \cup Thoughts \cup ToolUses \cup ToolContents
  PROVE  /\ Part(c).type = c.type /\ (c.type # "multi_modal" => Part(c) = c) /\ c.type # "composite"
         /\ c.type = "multi_modal" => c \in Medias /\ Part(c) \in Medias /\ Part(c).kind = c.kind /\ Part(c).bytes = FALSE
<1>1. CASE c \in Medias
  <2>1. c.type = "multi_modal" /\ Part(c) = [c EXCEPT !.bytes = FALSE]
    BY <1>1 DEF Medias, Part
  <2>2. c = [type |-> "multi_modal", kind |-> c.kind, bytes |-> c.bytes] /\ c.kind \in (STRING \cup {"audio"}) \ {"none"}
    BY <1>1 DEF Medias
  <2>3. Part(c) = [type |-> "multi_modal", kind |-> c.kind, bytes |-> FALSE]
    BY <2>1, <2>2
  <2> QED BY <1>1, <2>1, <2>2, <2>3 DEF Medias
<1>2. CASE c \notin Medias
  <2>1. c.type # "multi_modal" /\ c.type # "composite"
    BY <1>2 DEF Pieces, Texts, Thoughts, ToolUses, ToolContents
  <2> QED BY <2>1 DEF Part
<1> QED BY <1>1, <1>2

KeptContent(c, d) ==
  /\ CallsOf(d) = CallsOf(c) /\ TextIn(d) = TextIn(c) /\ d.type = c.type /\ MediaKinds(d) = MediaKinds(c)
  /\ \A p \in MediaOf(d) : ~p.bytes
  /\ c.type \in {"reasoning", "absent", "tool_result"} => d = c

(* Of a content that is no composite. *)
LEMMA SingleKept ==
  ASSUME NEW c \in Pieces \cup Thoughts \cup ToolUses \cup ToolContents
  PROVE  KeptContent(c, Stored(c)) /\ Stored(c) = Part(c)
<1>1. Stored(c) = Part(c) /\ c.type # "composite"
  BY PartKept DEF Stored
<1>2. CASE c.type # "multi_modal"
  <2>1. Part(c) = c
    BY <1>2, PartKept
  <2>2. MediaOf(c) = {}
    BY <1>1, <1>2 DEF MediaOf
  <2> QED BY Zenon, <1>1, <2>1, <2>2 DEF KeptContent
<1>3. CASE c.type = "multi_modal"
  <2>1. PICK d : d = Part(c)
    OBVIOUS
  <2>2. d.type = "multi_modal" /\ d.kind = c.kind /\ d.bytes = FALSE
    BY <1>3, <2>1, PartKept
  <2>3. CallsOf(c) = <<>> /\ CallsOf(d) = <<>> /\ TextIn(c) = <<>> /\ TextIn(d) = <<>>
    BY <1>3, <2>2 DEF CallsOf, TextIn
  <2>4. MediaKinds(c) = {c.kind} /\ MediaKinds(d) = {d.kind} /\ MediaOf(d) = {d}
    BY <1>3, <2>2 DEF MediaKinds, MediaOf
  <2>5. c.type \notin {"reasoning", "absent", "tool_result"}
    BY <1>3
  <2>6. d.type = c.type /\ MediaKinds(d) = MediaKinds(c) /\ \A p \in MediaOf(d) : ~p.bytes
    BY <1>3, <2>2, <2>4
  <2> QED BY Zenon, <1>1, <2>1, <2>3, <2>5, <2>6 DEF KeptContent
<1> QED BY <1>1, <1>2, <1>3

(* Of a composite. *)
LEMMA CompositeKept ==
  ASSUME NEW S, S \subseteq Pieces \cup Thoughts \cup ToolUses \cup ToolContents, Medias \subseteq S \/ S \cap Medias = {},
         NEW c \in [type : {"composite"}, parts : Seq(S)]
  PROVE  KeptContent(c, Stored(c)) /\ Stored(c) \in [type : {"composite"}, parts : Seq(S)]
<1>1. PICK ps, qs : ps = c.parts /\ qs = [k \in DOMAIN ps |-> Part(ps[k])]
  OBVIOUS
<1>2. c.type = "composite" /\ ps \in Seq(S) /\ c = [type |-> "composite", parts |-> ps]
  BY <1>1
<1>3. DOMAIN ps = 1 .. Len(ps) /\ Len(ps) \in Nat /\ \A k \in DOMAIN ps : ps[k] \in S
  BY <1>2
<1>4. Stored(c) = [type |-> "composite", parts |-> qs]
  BY <1>1, <1>2 DEF Stored
<1>5. PICK d : d = Stored(c) /\ d.type = "composite" /\ d.parts = qs
  BY <1>4
<1>6. \A k \in DOMAIN ps : qs[k] = Part(ps[k])
  BY <1>1
<1>7. DOMAIN qs = DOMAIN ps
  BY <1>1
<1>8. ASSUME NEW k \in DOMAIN ps
      PROVE  /\ qs[k].type = ps[k].type /\ (ps[k].type # "multi_modal" => qs[k] = ps[k])
             /\ ps[k].type = "multi_modal" => qs[k].kind = ps[k].kind /\ qs[k].bytes = FALSE
             /\ qs[k] \in S
  <2>1. ps[k] \in S /\ ps[k] \in Pieces \cup Thoughts \cup ToolUses \cup ToolContents /\ qs[k] = Part(ps[k])
    BY <1>3, <1>6
  <2>2. /\ qs[k].type = ps[k].type /\ (ps[k].type # "multi_modal" => qs[k] = ps[k])
        /\ ps[k].type = "multi_modal" => ps[k] \in Medias /\ qs[k] \in Medias /\ qs[k].kind = ps[k].kind /\ qs[k].bytes = FALSE
    BY Zenon, <2>1, PartKept
  <2> QED BY <2>1, <2>2
<1>9. qs \in Seq(S)
  <2>1. qs = [k \in 1 .. Len(ps) |-> qs[k]]
    BY <1>1, <1>3
  <2>2. \A k \in 1 .. Len(ps) : qs[k] \in S
    BY <1>3, <1>8
  <2> QED BY <1>3, <2>1, <2>2
<1>10. CallsOf(d) = CallsOf(c)
  <2>1. \A k \in DOMAIN ps : CallsIn(qs[k]) = CallsIn(ps[k])
    BY <1>8 DEF CallsIn
  <2>2. [k \in DOMAIN qs |-> CallsIn(qs[k])] = [k \in DOMAIN ps |-> CallsIn(ps[k])]
    BY <1>7, <2>1
  <2>3. CallsOf(d) = FlattenSeq([k \in DOMAIN qs |-> CallsIn(qs[k])])
    BY <1>5 DEF CallsOf, CallsIn
  <2>4. CallsOf(c) = FlattenSeq([k \in DOMAIN ps |-> CallsIn(ps[k])])
    BY <1>1, <1>2 DEF CallsOf, CallsIn
  <2> QED BY Zenon, <2>2, <2>3, <2>4
<1>11. TextIn(d) = TextIn(c)
  <2>1. \A k \in DOMAIN ps : TextOf(qs[k]) = TextOf(ps[k])
    BY <1>8 DEF TextOf
  <2>2. [k \in DOMAIN qs |-> TextOf(qs[k])] = [k \in DOMAIN ps |-> TextOf(ps[k])]
    BY <1>7, <2>1
  <2>3. TextIn(d) = FlattenSeq([k \in DOMAIN qs |-> TextOf(qs[k])])
    BY <1>5 DEF TextIn, TextOf
  <2>4. TextIn(c) = FlattenSeq([k \in DOMAIN ps |-> TextOf(ps[k])])
    BY <1>1, <1>2 DEF TextIn, TextOf
  <2> QED BY Zenon, <2>2, <2>3, <2>4
<1>12. (\A x : x \in ToSet(ps) <=> \E k \in DOMAIN ps : x = ps[k]) /\ \A x : x \in ToSet(qs) <=> \E k \in DOMAIN ps : x = qs[k]
  BY <1>7 DEF ToSet
<1>13. (\A p : p \in MediaOf(c) <=> \E k \in DOMAIN ps : p = ps[k] /\ ps[k].type = "multi_modal")
       /\ \A p : p \in MediaOf(d) <=> \E k \in DOMAIN ps : p = qs[k] /\ ps[k].type = "multi_modal"
  <2>1. MediaOf(c) = {p \in ToSet(ps) : p.type = "multi_modal"} /\ MediaOf(d) = {p \in ToSet(qs) : p.type = "multi_modal"}
    BY <1>1, <1>2, <1>5 DEF MediaOf
  <2>2. ASSUME NEW p PROVE p \in MediaOf(c) <=> \E k \in DOMAIN ps : p = ps[k] /\ ps[k].type = "multi_modal"
    <3>1. p \in MediaOf(c) <=> p \in ToSet(ps) /\ p.type = "multi_modal"
      BY <2>1
    <3>2. p \in ToSet(ps) <=> \E k \in DOMAIN ps : p = ps[k]
      BY Zenon, <1>12
    <3>3. ASSUME NEW k \in DOMAIN ps, p = ps[k], ps[k].type = "multi_modal" PROVE p \in MediaOf(c)
      BY <3>1, <3>2, <3>3
    <3>4. ASSUME p \in MediaOf(c) PROVE \E k \in DOMAIN ps : p = ps[k] /\ ps[k].type = "multi_modal"
      BY <3>1, <3>2, <3>4
    <3> QED BY Zenon, <3>3, <3>4
  <2>3. ASSUME NEW p, p \in MediaOf(d) PROVE \E k \in DOMAIN ps : p = qs[k] /\ ps[k].type = "multi_modal"
    <3>1. p \in ToSet(qs) /\ p.type = "multi_modal"
      BY <2>1, <2>3
    <3>2. PICK k \in DOMAIN ps : p = qs[k]
      BY Zenon, <1>12, <3>1
    <3>3. ps[k].type = "multi_modal"
      BY <1>8, <3>1, <3>2
    <3> QED BY <3>2, <3>3
  <2>4. ASSUME NEW k \in DOMAIN ps, ps[k].type = "multi_modal" PROVE qs[k] \in MediaOf(d)
    <3>1. qs[k] \in ToSet(qs)
      BY Zenon, <1>12
    <3>2. qs[k].type = "multi_modal"
      BY <1>8, <2>4
    <3> QED BY <2>1, <3>1, <3>2
  <2> QED BY Zenon, <2>2, <2>3, <2>4
<1>14. MediaKinds(d) = MediaKinds(c)
  <2>1. MediaKinds(c) = {p.kind : p \in MediaOf(c)} /\ MediaKinds(d) = {p.kind : p \in MediaOf(d)}
    BY Zenon DEF MediaKinds, MediaOf
  <2>2. ASSUME NEW x \in MediaKinds(c) PROVE x \in MediaKinds(d)
    <3>1. PICK p \in MediaOf(c) : x = p.kind
      BY <2>1
    <3>2. PICK k \in DOMAIN ps : p = ps[k] /\ ps[k].type = "multi_modal"
      BY Zenon, <1>13, <3>1
    <3>3. qs[k] \in MediaOf(d) /\ qs[k].kind = x
      BY Zenon, <1>8, <1>13, <3>1, <3>2
    <3> QED BY <2>1, <3>3
  <2>3. ASSUME NEW x \in MediaKinds(d) PROVE x \in MediaKinds(c)
    <3>1. PICK p \in MediaOf(d) : x = p.kind
      BY <2>1
    <3>2. PICK k \in DOMAIN ps : p = qs[k] /\ ps[k].type = "multi_modal"
      BY Zenon, <1>13, <3>1
    <3>3. ps[k] \in MediaOf(c) /\ ps[k].kind = x
      BY Zenon, <1>8, <1>13, <3>1, <3>2
    <3> QED BY <2>1, <3>3
  <2> QED BY Zenon, <2>2, <2>3
<1>15. \A p \in MediaOf(d) : ~p.bytes
  <2>1. \A k \in DOMAIN ps : ps[k].type = "multi_modal" => ~qs[k].bytes
    BY <1>8
  <2>2. ASSUME NEW p, p \in MediaOf(d) PROVE ~p.bytes
    <3>1. PICK k \in DOMAIN ps : p = qs[k] /\ ps[k].type = "multi_modal"
      BY Zenon, <1>13, <2>2
    <3> QED BY Zenon, <2>1, <3>1
  <2> QED BY Zenon, <2>2
<1>16. d \in [type : {"composite"}, parts : Seq(S)]
  BY <1>4, <1>5, <1>9
<1>17. c.type \notin {"reasoning", "absent", "tool_result"} /\ d.type = c.type
  BY <1>2, <1>5
<1> QED BY Zenon, <1>5, <1>10, <1>11, <1>14, <1>15, <1>16, <1>17 DEF KeptContent

(* Of any content. *)
LEMMA ContentKept ==
  ASSUME NEW c
  PROVE  /\ c \in UserContents => KeptContent(c, Stored(c)) /\ Stored(c) \in UserContents
         /\ c \in AgentContents => KeptContent(c, Stored(c)) /\ Stored(c) \in AgentContents
         /\ c \in ToolContents => KeptContent(c, Stored(c)) /\ Stored(c) \in ToolContents
<1>0. ASSUME NEW S, S \subseteq Pieces \cup Thoughts \cup ToolUses \cup ToolContents, Medias \subseteq S \/ S \cap Medias = {}, c \in S
      PROVE  KeptContent(c, Stored(c)) /\ Stored(c) \in S
  <2>1. Stored(c) \in S
    <3>1. c \in Pieces \cup Thoughts \cup ToolUses \cup ToolContents
      BY Zenon, <1>0
    <3>2. Stored(c) = Part(c)
      BY Zenon, <3>1, SingleKept
    <3>3. CASE c.type = "multi_modal"
      BY <1>0, <3>1, <3>2, <3>3, PartKept
    <3>4. CASE c.type # "multi_modal"
      BY <1>0, <3>1, <3>2, <3>4, PartKept
    <3> QED BY <3>3, <3>4
  <2> QED BY Zenon, <1>0, <2>1, SingleKept
<1>1. ToolContents \cap Medias = {} /\ Pieces \subseteq Pieces \cup Thoughts \cup ToolUses \cup ToolContents /\ Medias \subseteq Pieces
  BY DEF ToolContents, Medias, Pieces
<1>2. ASSUME c \in UserContents PROVE KeptContent(c, Stored(c)) /\ Stored(c) \in UserContents
  <2>1. CASE c \in Pieces
    BY Zenon, <1>0, <1>1, <2>1 DEF UserContents
  <2>2. CASE c \in [type : {"composite"}, parts : Seq(Pieces)]
    BY Zenon, <1>1, <2>2, CompositeKept DEF UserContents
  <2> QED BY <1>2, <2>1, <2>2 DEF UserContents
<1>3. ASSUME c \in AgentContents PROVE KeptContent(c, Stored(c)) /\ Stored(c) \in AgentContents
  <2>1. PICK S : S = Texts \cup Thoughts \cup Medias \cup ToolUses
    OBVIOUS
  <2>2. S \subseteq Pieces \cup Thoughts \cup ToolUses \cup ToolContents /\ Medias \subseteq S /\ S \subseteq AgentContents
    BY <2>1 DEF Pieces, AgentContents
  <2>3. CASE c \in S
    BY Zenon, <1>0, <2>2, <2>3
  <2>4. CASE c \in Composed3
    <3>1. PICK T : T = Texts \cup Thoughts \cup ToolUses
      OBVIOUS
    <3>2. T \subseteq Pieces \cup Thoughts \cup ToolUses \cup ToolContents /\ T \cap Medias = {}
      <4>1. Texts \cap Medias = {} /\ Thoughts \cap Medias = {} /\ ToolUses \cap Medias = {}
        BY DEF Texts, Thoughts, ToolUses, Medias
      <4> QED BY <3>1, <4>1 DEF Pieces
    <3>3. Composed3 = [type : {"composite"}, parts : Seq(T)]
      BY <3>1 DEF Composed3
    <3>4. KeptContent(c, Stored(c)) /\ Stored(c) \in Composed3
      BY Zenon, <2>4, <3>2, <3>3, CompositeKept
    <3> QED BY <3>4 DEF AgentContents
  <2> QED BY <1>3, <2>1, <2>3, <2>4 DEF AgentContents
<1>4. ASSUME c \in ToolContents PROVE KeptContent(c, Stored(c)) /\ Stored(c) \in ToolContents
  <2>1. ToolContents \subseteq Pieces \cup Thoughts \cup ToolUses \cup ToolContents
    BY Zenon
  <2> QED BY Zenon, <1>0, <1>1, <1>4, <2>1
<1> QED BY <1>2, <1>3, <1>4
(* A message of the history, as it comes back. *)
LEMMA MessageKept ==
  ASSUME NEW m \in Spoken, NEW n, n = [m EXCEPT !.content = Stored(@)]
  PROVE  /\ n \in Spoken /\ n.role = m.role /\ KeptContent(m.content, n.content)
         /\ n \in UserMessages <=> m \in UserMessages
         /\ n \in AgentMessages <=> m \in AgentMessages
         /\ Alike(ConvertMessage(m), ConvertMessage(n))
         /\ Unsendable(n) <=> Unsendable(m)
         /\ (\E p : Carried(m, p)) => \E p : Carried(n, p) /\ ~p.bytes
<1>1. PICK c, d : c = m.content /\ d = Stored(c)
  OBVIOUS
<1>2. n.role = m.role /\ n.content = d
  BY <1>1 DEF Spoken, UserMessages, AgentMessages, ToolMessages
<1>3. /\ m \in UserMessages => c \in UserContents /\ n \in UserMessages
      /\ m \in AgentMessages => c \in AgentContents /\ n \in AgentMessages
      /\ m \in ToolMessages => c \in ToolContents /\ n \in ToolMessages
  <2>1. CASE m \in UserMessages
    <3>1. c \in UserContents /\ m = [role |-> "user", content |-> c]
      BY <1>1, <2>1 DEF UserMessages
    <3>2. d \in UserContents
      BY <1>1, <3>1, ContentKept
    <3>3. n \in UserMessages
      BY <1>1, <3>1, <3>2 DEF UserMessages
    <3> QED BY <2>1, <3>1, <3>3 DEF UserMessages, AgentMessages, ToolMessages
  <2>2. CASE m \in AgentMessages
    <3>1. c \in AgentContents /\ m = [role |-> "assistant", content |-> c]
      BY <1>1, <2>2 DEF AgentMessages
    <3>2. d \in AgentContents
      BY <1>1, <3>1, ContentKept
    <3>3. n \in AgentMessages
      BY <1>1, <3>1, <3>2 DEF AgentMessages
    <3> QED BY <2>2, <3>1, <3>3 DEF UserMessages, AgentMessages, ToolMessages
  <2>3. CASE m \in ToolMessages
    <3>1. c \in ToolContents /\ m = [role |-> "tool", content |-> c]
      BY <1>1, <2>3 DEF ToolMessages
    <3>2. d \in ToolContents
      BY <1>1, <3>1, ContentKept
    <3>3. n \in ToolMessages
      BY <1>1, <3>1, <3>2 DEF ToolMessages
    <3> QED BY <2>3, <3>1, <3>3 DEF UserMessages, AgentMessages, ToolMessages
  <2> QED BY <2>1, <2>2, <2>3 DEF Spoken
<1>4. KeptContent(c, d)
  BY Zenon, <1>1, <1>3, ContentKept DEF Spoken
<1>5. n \in Spoken /\ m \in Posted /\ n \in Posted
  BY <1>3 DEF Spoken, Posted
<1>6. (n \in UserMessages <=> m \in UserMessages) /\ (n \in AgentMessages <=> m \in AgentMessages)
  BY Zenon, <1>2, <1>3, <1>5, RolesDiffer DEF Spoken
<1>7. (\E p \in MediaOf(d) : p.kind \notin {"image", "audio", "video"}) <=> \E p \in MediaOf(c) : p.kind \notin {"image", "audio", "video"}
  <2>1. MediaKinds(c) = {p.kind : p \in MediaOf(c)} /\ MediaKinds(d) = {p.kind : p \in MediaOf(d)}
    BY Zenon DEF MediaKinds, MediaOf
  <2>2. MediaKinds(c) = MediaKinds(d)
    BY <1>4 DEF KeptContent
  <2> QED BY Zenon, <2>1, <2>2
<1>8. Unsendable(n) <=> Unsendable(m)
  <2>1. d.type = c.type
    BY <1>4 DEF KeptContent
  <2> QED BY Zenon, <1>1, <1>2, <1>6, <1>7, <2>1 DEF Unsendable
<1>9. ASSUME NEW p, Carried(m, p) PROVE \E q : Carried(n, q) /\ ~q.bytes
  <2>1. MediaKinds(c) = {q.kind : q \in MediaOf(c)} /\ MediaKinds(d) = {q.kind : q \in MediaOf(d)}
    BY Zenon DEF MediaKinds, MediaOf
  <2>2. p.kind \in MediaKinds(d) /\ m \in UserMessages
    BY <1>1, <1>4, <1>9, <2>1 DEF KeptContent, Carried
  <2>3. PICK q \in MediaOf(d) : p.kind = q.kind
    BY <2>1, <2>2
  <2>4. ~q.bytes
    BY <1>4 DEF KeptContent
  <2> QED BY <1>2, <1>6, <2>2, <2>3, <2>4 DEF Carried
<1>10. Alike(ConvertMessage(m), ConvertMessage(n))
  <2>0. \A x, y : x.role = y.role /\ x.calls = y.calls /\ x.id = y.id => Alike(<<x>>, <<y>>)
    BY DEF Alike
  <2>1. CASE m \in UserMessages
    <3>1. PICK x, y : x = UserWire(c) /\ y = UserWire(d)
      OBVIOUS
    <3>2. ConvertMessage(m) = <<x>> /\ ConvertMessage(n) = <<y>>
      BY Zenon, <1>1, <1>2, <1>6, <2>1, <3>1, ConvertUser
    <3>3. x = Refused <=> y = Refused
      BY Zenon, <1>1, <1>2, <1>6, <1>7, <2>1, <3>1, ConvertUser
    <3>4. /\ x = Refused \/ x = Wire("user", PartsOf(c), <<>>, "")
          /\ y = Refused \/ y = Wire("user", PartsOf(d), <<>>, "")
      BY Zenon, <1>1, <1>2, <1>6, <2>1, <3>1, ConvertUser
    <3>5. \A ps : Wire("user", ps, <<>>, "").role = "user" /\ Wire("user", ps, <<>>, "").calls = <<>> /\ Wire("user", ps, <<>>, "").id = ""
      BY DEF Wire
    <3>6. x.role = y.role /\ x.calls = y.calls /\ x.id = y.id
      BY Zenon, <3>3, <3>4, <3>5
    <3> QED BY Zenon, <2>0, <3>2, <3>6
  <2>2. CASE m \in AgentMessages
    <3>1. PICK x, y : x = AssistantWire(c) /\ y = AssistantWire(d)
      OBVIOUS
    <3>2. ConvertMessage(m) = <<x>> /\ ConvertMessage(n) = <<y>>
      BY Zenon, <1>1, <1>2, <1>6, <2>2, <3>1, ConvertAgent
    <3>3. d.type = c.type /\ CallsOf(d) = CallsOf(c)
      BY <1>4 DEF KeptContent
    <3>4. x = Refused <=> y = Refused
      BY Zenon, <1>1, <1>2, <1>6, <2>2, <3>1, <3>3, ConvertAgent
    <3>5. /\ x # Refused => x.role = "assistant" /\ x.calls = CallsOf(c) /\ x.id = ""
          /\ y # Refused => y.role = "assistant" /\ y.calls = CallsOf(d) /\ y.id = ""
      BY Zenon, <1>1, <1>2, <1>6, <2>2, <3>1, ConvertAgent
    <3>6. x.role = y.role /\ x.calls = y.calls /\ x.id = y.id
      BY Zenon, <3>3, <3>4, <3>5
    <3> QED BY Zenon, <2>0, <3>2, <3>6
  <2>3. CASE m \in ToolMessages
    <3>1. c \in ToolContents
      BY <1>3, <2>3
    <3>2. d = c
      BY <1>4, <3>1 DEF KeptContent, ToolContents
    <3>3. n = m
      BY <1>1, <2>3, <3>2 DEF ToolMessages
    <3> QED BY <3>3 DEF Alike
  <2> QED BY <2>1, <2>2, <2>3 DEF Spoken
<1> QED BY Zenon, <1>1, <1>2, <1>4, <1>5, <1>6, <1>8, <1>9, <1>10

-----------------------------------------------------------------------------
(* What the inductive invariant says of a history that loses its head, of  *)
(* what shows media without bytes, of what cannot be sent.                  *)
Odd(h) == \E k \in DOMAIN h : Unsendable(h[k])
Hollow(h) == \E k \in DOMAIN h : \E p : Carried(h[k], p) /\ ~p.bytes

(* A history without its first n messages; calls and their results are     *)
(* together in whatever a history may be cut to, but for a head that a cut  *)
(* may orphan.                                                              *)
Rest(h, n) == SubSeq(h, n + 1, Len(h))
Sound(h) == \A n \in 0 .. Len(h) : ~Orphaned(Rest(h, n)) => Coherent(Rest(h, n))

(* A request the service takes, from a run of this kind. *)
Acceptable(ms, kind) ==
  /\ ~Odd(ms) /\ Coherent(ms) /\ ~Hollow(ms)
  /\ \A k \in DOMAIN ms : \A p : Carried(ms[k], p) => p.kind \in (IF kind \in Multimodal THEN Seen \cup {kind} ELSE Seen)

Doings == AgentMessages \cup ToolMessages
RunTypes ==
  [at : {"idle", "heard", "request", "tools"}, input : Seq(Posted), out : Seq(Doings), steps : Nat, attempts : Nat,
   kind : STRING \cup {"audio", "none"}]
Counts == [runs : Nat, calls : Nat, full : Nat, restarts : Nat]
ConvTypes == history \in Seq(Spoken) /\ summary \in BOOLEAN /\ run \in RunTypes /\ convCount \in Counts

(* What a run was given: whatever became of the history since, it is in     *)
(* order unless it began with an orphan.                                    *)
Given(ms, restarts) == (OrphanedInput(ms) <=> ~Coherent(ms)) /\ (restarts = 0 => ~Hollow(ms))

ConvRun ==
  /\ run.at \in {"idle", "heard"} => run.out = <<>>
  /\ run.at = "request" => Coherent(run.out) /\ Given(run.input, convCount.restarts)
  /\ run.at = "tools" =>
       /\ Acceptable(run.input, run.kind) /\ ~OrphanedInput(run.input)
       /\ \E o \in Seq(Doings), a \in AgentMessages : run.out = Append(o, a) /\ CallsOf(a.content) # <<>> /\ Coherent(o)

ConvInv ==
  /\ ConvTypes /\ ConvRun /\ WorkRemembered
  /\ Sound(history)
  /\ convCount.restarts = 0 => ~Hollow(history)

Left(h, n, b) ==
  /\ Len(b) = Len(h) - n /\ Len(h) \in Nat /\ n \in Nat
  /\ \A i \in 1 .. Len(h) - n : b[i] = h[n + i]

(* A history without its first messages. *)
LEMMA RestIs ==
  ASSUME NEW S, NEW h \in Seq(S), NEW n \in 0 .. Len(h), NEW b, b = Rest(h, n)
  PROVE  /\ b \in Seq(S) /\ Left(h, n, b)
         /\ Spliced(h, SubSeq(h, 1, n), b) /\ SubSeq(h, 1, n) \in Seq(S)
<1>1. Len(h) \in Nat /\ n \in Nat /\ n <= Len(h) /\ n + 1 \in Nat
  OBVIOUS
<1>2. b \in Seq(S) /\ Len(b) = Len(h) - n /\ \A i \in 1 .. Len(h) - n : b[i] = h[n + i]
  BY <1>1 DEF Rest
<1>3. PICK a : a = SubSeq(h, 1, n)
  OBVIOUS
<1>4. a \in Seq(S) /\ Len(a) = n /\ \A i \in 1 .. n : a[i] = h[i]
  BY <1>1, <1>3
<1>5. PICK d : d = a \o b
  OBVIOUS
<1>6. /\ d \in Seq(S) /\ Len(d) = Len(a) + Len(b)
      /\ \A i \in 1 .. Len(a) + Len(b) : d[i] = IF i <= Len(a) THEN a[i] ELSE b[i - Len(a)]
  <2>1. a \in Seq(S) /\ b \in Seq(S)
    BY <1>2, <1>4
  <2> QED BY <1>5, <2>1, ConcatProperties
<1>7. Len(d) = Len(h)
  BY <1>1, <1>2, <1>4, <1>6
<1>8. ASSUME NEW i \in 1 .. Len(h) PROVE d[i] = h[i]
  <2>1. CASE i <= n
    BY <1>1, <1>2, <1>4, <1>6, <2>1
  <2>2. CASE ~(i <= n)
    <3>1. PICK j : j = i - n
      OBVIOUS
    <3>2. j \in 1 .. Len(h) - n /\ n + j = i
      BY <1>1, <2>2, <3>1
    <3>3. d[i] = b[j]
      BY <1>1, <1>2, <1>4, <1>6, <2>2, <3>1
    <3> QED BY <1>2, <3>2, <3>3
  <2> QED BY <2>1, <2>2
<1>9. d = h
  BY <1>6, <1>7, <1>8
<1> QED BY <1>1, <1>2, <1>3, <1>4, <1>5, <1>9 DEF Spliced, Left

(* Nothing left out, and what is left out of what is left. *)
LEMMA RestOfRest ==
  ASSUME NEW S, NEW h \in Seq(S)
  PROVE  /\ Rest(h, 0) = h /\ 0 \in 0 .. Len(h)
         /\ \A n \in 0 .. Len(h) : \A m \in 0 .. Len(Rest(h, n)) : n + m \in 0 .. Len(h) /\ Rest(Rest(h, n), m) = Rest(h, n + m)
<1>1. PICK all : all = Rest(h, 0)
  OBVIOUS
<1>2. all = h
  <2>1. 0 \in 0 .. Len(h)
    OBVIOUS
  <2>2. all \in Seq(S) /\ Len(all) = Len(h) /\ \A i \in 1 .. Len(h) : all[i] = h[i]
    BY <1>1, <2>1, RestIs DEF Left
  <2> QED BY <2>2
<1>3. ASSUME NEW n \in 0 .. Len(h), NEW m \in 0 .. Len(Rest(h, n))
      PROVE  n + m \in 0 .. Len(h) /\ Rest(Rest(h, n), m) = Rest(h, n + m)
  <2>1. PICK b, c, d, k : b = Rest(h, n) /\ c = Rest(b, m) /\ k = n + m /\ d = Rest(h, k)
    OBVIOUS
  <2>2. b \in Seq(S) /\ Len(b) = Len(h) - n /\ Len(h) \in Nat /\ n \in Nat /\ \A i \in 1 .. Len(h) - n : b[i] = h[n + i]
    <3>1. b \in Seq(S) /\ Left(h, n, b)
      BY Zenon, <2>1, RestIs
    <3> QED BY Zenon, <3>1 DEF Left
  <2>3. m \in Nat /\ m <= Len(b) /\ k \in 0 .. Len(h)
    BY <2>1, <2>2
  <2>4. c \in Seq(S) /\ Len(c) = Len(b) - m /\ \A i \in 1 .. Len(b) - m : c[i] = b[m + i]
    <3>1. m \in 0 .. Len(b)
      BY <2>1
    <3>2. c \in Seq(S) /\ Left(b, m, c)
      BY Zenon, <2>1, <2>2, <3>1, RestIs
    <3> QED BY Zenon, <3>2 DEF Left
  <2>5. d \in Seq(S) /\ Len(d) = Len(h) - k /\ \A i \in 1 .. Len(h) - k : d[i] = h[k + i]
    <3>1. d \in Seq(S) /\ Left(h, k, d)
      BY Zenon, <2>1, <2>3, RestIs
    <3> QED BY Zenon, <3>1 DEF Left
  <2>6. Len(c) = Len(d)
    <3>1. Len(b) = Len(h) - n /\ Len(c) = Len(b) - m /\ Len(d) = Len(h) - k /\ k = n + m
      BY Zenon, <2>1, <2>2, <2>4, <2>5
    <3>2. Len(h) \in Nat /\ n \in Nat /\ m \in Nat
      BY Zenon, <2>2, <2>3
    <3> QED BY <3>1, <3>2
  <2>7. ASSUME NEW i \in 1 .. Len(d) PROVE c[i] = d[i]
    <3>1. i \in 1 .. Len(b) - m /\ i \in 1 .. Len(h) - k /\ m + i \in 1 .. Len(h) - n /\ n + (m + i) = k + i
      BY <2>1, <2>2, <2>3, <2>4, <2>5
    <3> QED BY <2>2, <2>4, <2>5, <3>1
  <2>8. c = d
    BY <2>4, <2>5, <2>6, <2>7
  <2> QED BY <2>1, <2>3, <2>8
<1> QED BY <1>1, <1>2, <1>3

(* A history in order may be cut anywhere. *)
LEMMA SoundWhole ==
  ASSUME NEW h \in Seq(Spoken), Coherent(h)
  PROVE  Sound(h)
<1>1. ASSUME NEW n \in 0 .. Len(h), ~Orphaned(Rest(h, n)) PROVE Coherent(Rest(h, n))
  <2>1. PICK a, b : a = SubSeq(h, 1, n) /\ b = Rest(h, n)
    OBVIOUS
  <2>2. a \in Seq(Spoken) /\ b \in Seq(Spoken) /\ Spliced(h, a, b)
    BY <2>1, RestIs
  <2>3. Coherent(a \o b)
    BY <2>2 DEF Spliced
  <2>4. Coherent(b)
    BY <1>1, <2>1, <2>2, <2>3, WholeRest
  <2> QED BY <2>1, <2>4
<1> QED BY <1>1 DEF Sound

(* So may what a cut has left. *)
LEMMA SoundRest ==
  ASSUME NEW h \in Seq(Spoken), Sound(h), NEW n \in 0 .. Len(h), NEW b, b = Rest(h, n)
  PROVE  Sound(b)
<1>1. ASSUME NEW m \in 0 .. Len(b), ~Orphaned(Rest(b, m)) PROVE Coherent(Rest(b, m))
  <2>1. n + m \in 0 .. Len(h) /\ Rest(b, m) = Rest(h, n + m)
    BY RestOfRest
  <2> QED BY <1>1, <2>1 DEF Sound
<1> QED BY <1>1 DEF Sound

(* Uncut it is in order, unless a cut before has orphaned its head. *)
LEMMA SoundUncut ==
  ASSUME NEW h \in Seq(Spoken), Sound(h), ~Orphaned(h) PROVE Coherent(h)
BY RestOfRest DEF Sound

(* It may go on. *)
LEMMA SoundMore ==
  ASSUME NEW h \in Seq(Spoken), Sound(h), NEW t \in Seq(Spoken), Coherent(t), NEW c, Spliced(c, h, t)
  PROVE  c \in Seq(Spoken) /\ Sound(c)
<1>1. /\ c \in Seq(Spoken) /\ Len(c) = Len(h) + Len(t) /\ Len(h) \in Nat /\ Len(t) \in Nat
      /\ \A i \in 1 .. Len(h) + Len(t) : c[i] = IF i <= Len(h) THEN h[i] ELSE t[i - Len(h)]
  BY ConcatProperties DEF Spliced
<1>2. ASSUME NEW n \in 0 .. Len(c), ~Orphaned(Rest(c, n)) PROVE Coherent(Rest(c, n))
  <2>1. PICK b : b = Rest(c, n)
    OBVIOUS
  <2>2. b \in Seq(Spoken) /\ Len(b) = Len(c) - n /\ n \in Nat /\ \A i \in 1 .. Len(c) - n : b[i] = c[n + i]
    <3>1. b \in Seq(Spoken) /\ Left(c, n, b)
      BY Zenon, <1>1, <2>1, RestIs
    <3> QED BY Zenon, <3>1 DEF Left
  <2>3. CASE n < Len(h)
    <3>1. PICK y : y = Rest(h, n)
      OBVIOUS
    <3>2. n \in 0 .. Len(h)
      BY <1>1, <2>2, <2>3
    <3>3. y \in Seq(Spoken) /\ Len(y) = Len(h) - n /\ \A i \in 1 .. Len(h) - n : y[i] = h[n + i]
      <4>1. y \in Seq(Spoken) /\ Left(h, n, y)
        BY Zenon, <3>1, <3>2, RestIs
      <4> QED BY Zenon, <4>1 DEF Left
    <3>4. PICK d : d = y \o t
      OBVIOUS
    <3>5. /\ d \in Seq(Spoken) /\ Len(d) = Len(y) + Len(t)
          /\ \A i \in 1 .. Len(y) + Len(t) : d[i] = IF i <= Len(y) THEN y[i] ELSE t[i - Len(y)]
      BY <3>3, <3>4, ConcatProperties
    <3>6. Len(d) = Len(b)
      BY <1>1, <2>2, <3>2, <3>3, <3>5
    <3>7. ASSUME NEW i \in 1 .. Len(b) PROVE b[i] = d[i]
      <4>1. i \in 1 .. Len(c) - n /\ n + i \in 1 .. Len(h) + Len(t) /\ i \in 1 .. Len(y) + Len(t)
        BY <1>1, <2>2, <3>2, <3>3, <3>5, <3>6
      <4>2. CASE i <= Len(h) - n
        <5>1. n + i <= Len(h) /\ i \in 1 .. Len(h) - n /\ i <= Len(y)
          BY <1>1, <2>2, <3>2, <3>3, <4>1, <4>2
        <5> QED BY <1>1, <2>2, <3>3, <3>5, <4>1, <5>1
      <4>3. CASE ~(i <= Len(h) - n)
        <5>1. ~(n + i <= Len(h)) /\ ~(i <= Len(y)) /\ (n + i) - Len(h) = i - Len(y)
          BY <1>1, <2>2, <3>2, <3>3, <4>1, <4>3
        <5>2. b[i] = t[(n + i) - Len(h)]
          BY <1>1, <2>2, <4>1, <5>1
        <5>3. d[i] = t[i - Len(y)]
          BY <3>5, <4>1, <5>1
        <5> QED BY <5>1, <5>2, <5>3
      <4> QED BY <4>2, <4>3
    <3>8. b = d
      BY <2>2, <3>5, <3>6, <3>7
    <3>9. ~Orphaned(y)
      <4>1. 1 \in 1 .. Len(b) /\ 1 \in 1 .. Len(y) + Len(t) /\ 1 <= Len(y) /\ b # <<>>
        BY <1>1, <2>2, <2>3, <3>3
      <4>2. b[1] = y[1]
        BY <3>5, <3>8, <4>1
      <4> QED BY <1>2, <2>1, <4>1, <4>2 DEF Orphaned
    <3>10. Coherent(y)
      BY <3>1, <3>2, <3>9 DEF Sound
    <3>11. Coherent(d)
      BY <3>3, <3>4, <3>10, WholeConcat
    <3> QED BY <2>1, <3>8, <3>11
  <2>4. CASE ~(n < Len(h))
    <3>1. PICK m : m = n - Len(h)
      OBVIOUS
    <3>2. PICK d : d = Rest(t, m)
      OBVIOUS
    <3>3. m \in 0 .. Len(t)
      BY <1>1, <2>2, <2>4, <3>1
    <3>4. d \in Seq(Spoken) /\ Len(d) = Len(t) - m /\ \A i \in 1 .. Len(t) - m : d[i] = t[m + i]
      <4>1. d \in Seq(Spoken) /\ Left(t, m, d)
        BY Zenon, <3>2, <3>3, RestIs
      <4> QED BY Zenon, <4>1 DEF Left
    <3>5. Len(d) = Len(b)
      BY <1>1, <2>2, <3>1, <3>3, <3>4
    <3>6. ASSUME NEW i \in 1 .. Len(b) PROVE b[i] = d[i]
      <4>1. /\ i \in 1 .. Len(c) - n /\ n + i \in 1 .. Len(h) + Len(t) /\ i \in 1 .. Len(t) - m
            /\ ~(n + i <= Len(h)) /\ (n + i) - Len(h) = m + i
        BY <1>1, <2>2, <2>4, <3>1, <3>3
      <4>2. b[i] = t[(n + i) - Len(h)]
        BY <1>1, <2>2, <4>1
      <4> QED BY <3>4, <4>1, <4>2
    <3>7. b = d
      <4>1. b \in Seq(Spoken) /\ d \in Seq(Spoken)
        BY <2>2, <3>4
      <4> QED BY <3>5, <3>6, <4>1
    <3>8. Sound(t)
      BY SoundWhole
    <3> QED BY <1>2, <2>1, <3>2, <3>3, <3>7, <3>8 DEF Sound
  <2> QED BY <2>3, <2>4
<1> QED BY <1>1, <1>2 DEF Sound
Mixed(c, a, b) ==
  /\ \A k \in DOMAIN a : \E i \in DOMAIN c : c[i] = a[k]
  /\ \A k \in DOMAIN b : \E i \in DOMAIN c : c[i] = b[k]
  /\ \A i \in DOMAIN c : (\E k \in DOMAIN a : c[i] = a[k]) \/ (\E k \in DOMAIN b : c[i] = b[k])

(* The messages of two histories put together. *)
LEMMA Together ==
  ASSUME NEW S, NEW a \in Seq(S), NEW b \in Seq(S), NEW c, Spliced(c, a, b)
  PROVE  c \in Seq(S) /\ Mixed(c, a, b)
<1>1. /\ c \in Seq(S) /\ Len(c) = Len(a) + Len(b) /\ Len(a) \in Nat /\ Len(b) \in Nat
      /\ \A i \in 1 .. Len(a) + Len(b) : c[i] = IF i <= Len(a) THEN a[i] ELSE b[i - Len(a)]
  BY ConcatProperties DEF Spliced
<1>2. DOMAIN a = 1 .. Len(a) /\ DOMAIN b = 1 .. Len(b) /\ DOMAIN c = 1 .. Len(a) + Len(b)
  BY <1>1
<1>3. ASSUME NEW k \in DOMAIN a PROVE \E i \in DOMAIN c : c[i] = a[k]
  <2>1. k \in 1 .. Len(a) + Len(b) /\ k <= Len(a)
    BY <1>1, <1>2
  <2> QED BY <1>1, <1>2, <2>1
<1>4. ASSUME NEW k \in DOMAIN b PROVE \E i \in DOMAIN c : c[i] = b[k]
  <2>1. PICK i : i = Len(a) + k
    OBVIOUS
  <2>2. i \in 1 .. Len(a) + Len(b) /\ ~(i <= Len(a)) /\ i - Len(a) = k
    BY <1>1, <1>2, <2>1
  <2> QED BY <1>1, <1>2, <2>2
<1>5. ASSUME NEW i \in DOMAIN c PROVE (\E k \in DOMAIN a : c[i] = a[k]) \/ (\E k \in DOMAIN b : c[i] = b[k])
  <2>1. CASE i <= Len(a)
    <3>1. i \in 1 .. Len(a)
      BY <1>1, <1>2, <2>1
    <3> QED BY <1>1, <1>2, <2>1, <3>1
  <2>2. CASE ~(i <= Len(a))
    <3>1. PICK k : k = i - Len(a)
      OBVIOUS
    <3>2. k \in 1 .. Len(b)
      BY <1>1, <1>2, <2>2, <3>1
    <3> QED BY <1>1, <1>2, <2>2, <3>1, <3>2
  <2> QED BY <2>1, <2>2
<1> QED BY <1>1, <1>3, <1>4, <1>5 DEF Mixed

CalledBy(m) == {d.id : d \in ToSet(CallsOf(m.content))}

Pooled(c, a, b) ==
  /\ Odd(c) <=> Odd(a) \/ Odd(b)
  /\ Hollow(c) <=> Hollow(a) \/ Hollow(b)
  /\ CallIds(c) = CallIds(a) \cup CallIds(b)

(* What two histories put together hold. *)
LEMMA HeldTogether ==
  ASSUME NEW S, NEW a \in Seq(S), NEW b \in Seq(S), NEW c, Spliced(c, a, b)
  PROVE  Pooled(c, a, b)
<1>0. Mixed(c, a, b)
  BY Zenon, Together
<1>1. /\ \A k \in DOMAIN a : \E i \in DOMAIN c : c[i] = a[k]
      /\ \A k \in DOMAIN b : \E i \in DOMAIN c : c[i] = b[k]
      /\ \A i \in DOMAIN c : (\E k \in DOMAIN a : c[i] = a[k]) \/ (\E k \in DOMAIN b : c[i] = b[k])
  BY Zenon, <1>0 DEF Mixed
<1>2. Odd(c) <=> Odd(a) \/ Odd(b)
  <2>1. (Odd(a) => Odd(c)) /\ (Odd(b) => Odd(c)) /\ (Odd(c) => Odd(a) \/ Odd(b))
    BY Zenon, <1>1 DEF Odd
  <2> QED BY <2>1
<1>3. Hollow(c) <=> Hollow(a) \/ Hollow(b)
  <2>1. (Hollow(a) => Hollow(c)) /\ (Hollow(b) => Hollow(c)) /\ (Hollow(c) => Hollow(a) \/ Hollow(b))
    BY Zenon, <1>1 DEF Hollow
  <2> QED BY <2>1
<1>4. \A h, x : x \in CallIds(h) <=> \E k \in DOMAIN h : x \in CalledBy(h[k])
  BY DEF CallIds, CalledBy
<1>5. \A x : x \in CallIds(c) <=> x \in CallIds(a) \/ x \in CallIds(b)
  <2>1. ASSUME NEW x, x \in CallIds(a) PROVE x \in CallIds(c)
    <3>1. PICK k \in DOMAIN a : x \in CalledBy(a[k])
      BY Zenon, <1>4, <2>1
    <3>2. PICK i \in DOMAIN c : c[i] = a[k]
      BY Zenon, <1>1
    <3> QED BY <1>4, <3>1, <3>2
  <2>2. ASSUME NEW x, x \in CallIds(b) PROVE x \in CallIds(c)
    <3>1. PICK k \in DOMAIN b : x \in CalledBy(b[k])
      BY Zenon, <1>4, <2>2
    <3>2. PICK i \in DOMAIN c : c[i] = b[k]
      BY Zenon, <1>1
    <3> QED BY <1>4, <3>1, <3>2
  <2>3. ASSUME NEW x, x \in CallIds(c) PROVE x \in CallIds(a) \/ x \in CallIds(b)
    <3>1. PICK i \in DOMAIN c : x \in CalledBy(c[i])
      BY Zenon, <1>4, <2>3
    <3>2. CASE \E k \in DOMAIN a : c[i] = a[k]
      BY <1>4, <3>1, <3>2
    <3>3. CASE \E k \in DOMAIN b : c[i] = b[k]
      BY <1>4, <3>1, <3>3
    <3> QED BY Zenon, <1>1, <3>2, <3>3
  <2> QED BY Zenon, <2>1, <2>2, <2>3
<1> QED BY <1>2, <1>3, <1>5 DEF Pooled

(* One message, and none. *)
LEMMA HeldByOne ==
  ASSUME NEW m
  PROVE  /\ Odd(<<m>>) <=> Unsendable(m)
         /\ Hollow(<<m>>) <=> \E p : Carried(m, p) /\ ~p.bytes
         /\ CallIds(<<m>>) = CalledBy(m)
         /\ CallIds(<<>>) = {} /\ ~Odd(<<>>) /\ ~Hollow(<<>>)
<1>1. PICK s : s = <<m>>
  OBVIOUS
<1>2. DOMAIN s = {1} /\ s[1] = m
  BY <1>1
<1>3. DOMAIN <<>> = {}
  OBVIOUS
<1>4. Odd(s) <=> Unsendable(m)
  BY <1>2 DEF Odd
<1>5. Hollow(s) <=> \E p : Carried(m, p) /\ ~p.bytes
  BY <1>2 DEF Hollow
<1>6. CallIds(s) = CalledBy(m)
  BY <1>2 DEF CallIds, CalledBy
<1>7. CallIds(<<>>) = {} /\ ~Odd(<<>>) /\ ~Hollow(<<>>)
  BY <1>3 DEF CallIds, Odd, Hollow
<1> QED BY Zenon, <1>1, <1>4, <1>5, <1>6, <1>7

(* What a run does carries no media of a user's. *)
LEMMA DoingsHold ==
  ASSUME NEW o \in Seq(Doings)
  PROVE  o \in Seq(Spoken) /\ o \in Seq(Posted) /\ ~Hollow(o)
<1>1. Doings \subseteq Spoken /\ Spoken \subseteq Posted
  BY DEF Doings, Spoken, Posted
<1>2. o \in Seq(Spoken) /\ o \in Seq(Posted) /\ \A k \in DOMAIN o : o[k] \in Doings /\ o[k] \in Posted
  BY <1>1
<1>3. \A k \in DOMAIN o : o[k] \notin UserMessages
  BY Zenon, <1>2, RolesDiffer DEF Doings
<1> QED BY Zenon, <1>2, <1>3 DEF Hollow, Carried

(* The media of a user's message. *)
LEMMA UserMedia ==
  ASSUME NEW c \in UserContents, NEW p \in MediaOf(c)
  PROVE  p.kind \in STRING \cup {"audio"} /\ p.kind # "none"
<1>1. p \in Pieces /\ p.type = "multi_modal"
  <2>1. CASE c \in Pieces
    <3>1. c.type # "composite"
      BY <2>1 DEF Pieces, Texts, Medias
    <3> QED BY <2>1, <3>1 DEF MediaOf
  <2>2. CASE c \in [type : {"composite"}, parts : Seq(Pieces)]
    <3>1. p \in ToSet(c.parts) /\ c.parts \in Seq(Pieces) /\ p.type = "multi_modal"
      BY <2>2 DEF MediaOf
    <3> QED BY <3>1 DEF ToSet
  <2> QED BY <2>1, <2>2 DEF UserContents
<1>2. p \in Medias
  BY <1>1 DEF Pieces, Texts
<1> QED BY <1>2 DEF Medias

(* Whether a request is taken. *)
LEMMA AcceptableIs ==
  ASSUME run.input \in Seq(Posted)
  PROVE  /\ Verdict(Request) = "no" <=> Acceptable(run.input, run.kind)
         /\ Verdict(Request) = "unsupported" => Odd(run.input)
         /\ Verdict(Request) = "orphan" => ~Coherent(run.input)
         /\ Verdict(Request) = "blind" => \E k \in DOMAIN run.input : \E p : Carried(run.input[k], p) /\ p.kind \notin Seen
         /\ Verdict(Request) = "hollow" => Hollow(run.input)
         /\ Verdict(Request) \in {"unsupported", "orphan", "blind", "hollow", "no"}
<1>1. PICK ms, w : ms = run.input /\ w = ConvertMessages(ms)
  OBVIOUS
<1>2. Request = w /\ (Coherent(ms) <=> Paired(w)) /\ ms \in Seq(Posted)
  BY <1>1 DEF Request, Coherent
<1>3. Accepts = (IF run.kind \in Multimodal THEN Seen \cup {run.kind} ELSE Seen) /\ Seen \subseteq Accepts
  BY DEF Accepts
<1>4. Verdict(w) = "no" <=> Acceptable(ms, run.kind)
  <2>1. Verdict(w) = "no" <=> /\ \A k \in DOMAIN ms : ~Unsendable(ms[k])
                              /\ Paired(w)
                              /\ \A k \in DOMAIN ms : \A p : Carried(ms[k], p) => p.kind \in Accepts /\ p.bytes
    BY Zenon, <1>1, <1>2, VerdictIs
  <2>2. ~Odd(ms) <=> \A k \in DOMAIN ms : ~Unsendable(ms[k])
    BY Zenon DEF Odd
  <2>3. (\A k \in DOMAIN ms : \A p : Carried(ms[k], p) => p.kind \in Accepts /\ p.bytes)
          <=> (~Hollow(ms) /\ \A k \in DOMAIN ms : \A p : Carried(ms[k], p) => p.kind \in Accepts)
    BY Zenon DEF Hollow
  <2> QED BY Zenon, <1>2, <1>3, <2>1, <2>2, <2>3 DEF Acceptable
<1>5. Verdict(w) = "unsupported" => Odd(ms)
  BY Zenon, <1>1, <1>2, VerdictIs DEF Odd
<1>6. Verdict(w) = "orphan" => ~Coherent(ms)
  BY Zenon, <1>1, <1>2, VerdictIs
<1>7. Verdict(w) = "blind" => \E k \in DOMAIN ms : \E p : Carried(ms[k], p) /\ p.kind \notin Seen
  <2>1. Verdict(w) = "blind" => \E k \in DOMAIN ms : \E p : Carried(ms[k], p) /\ p.kind \notin Accepts
    BY Zenon, <1>1, <1>2, VerdictIs
  <2> QED BY Zenon, <1>3, <2>1
<1>8. Verdict(w) = "hollow" => Hollow(ms)
  BY Zenon, <1>1, <1>2, VerdictIs DEF Hollow
<1>9. Verdict(w) \in {"unsupported", "orphan", "blind", "hollow", "no"}
  BY Zenon, <1>1, <1>2, VerdictIs
<1> QED BY Zenon, <1>1, <1>2, <1>4, <1>5, <1>6, <1>7, <1>8, <1>9

(* Calls and their results can be added to a request. *)
LEMMA AcceptableMore ==
  ASSUME NEW ms \in Seq(Posted), NEW kind, Acceptable(ms, kind), NEW a \in AgentMessages, CallsOf(a.content) # <<>>,
         NEW m, m = Message("tool", Results(IdsOf(CallsOf(a.content)))), NEW t, t = <<a, m>>
  PROVE  ms \o t \in Seq(Posted) /\ Acceptable(ms \o t, kind)
<1>1. /\ ~Unsendable(a) /\ ~Unsendable(m) /\ \A p : ~Carried(a, p) /\ ~Carried(m, p)
      /\ t \in Seq(Spoken) /\ Coherent(t)
  BY Zenon, WholeExchange
<1>2. PICK u : u = ms \o t
  OBVIOUS
<1>3. t \in Seq(Posted) /\ u \in Seq(Posted)
  <2>1. t \in Seq(Posted)
    BY Zenon, <1>1, SpokenSent
  <2> QED BY <1>2, <2>1, ConcatProperties
<1>4. \A k \in DOMAIN t : t[k] \in {a, m}
  <2>1. t \in Seq({a, m})
    OBVIOUS
  <2> QED BY <2>1
<1>5. ~Odd(t) /\ ~Hollow(t) /\ \A k \in DOMAIN t : \A p : ~Carried(t[k], p)
  <2>1. ASSUME NEW k \in DOMAIN t PROVE ~Unsendable(t[k]) /\ \A p : ~Carried(t[k], p)
    <3>1. t[k] = a \/ t[k] = m
      BY <1>4
    <3> QED BY Zenon, <1>1, <3>1
  <2> QED BY Zenon, <2>1 DEF Odd, Hollow
<1>6. ~Odd(u) /\ ~Hollow(u)
  BY <1>2, <1>3, <1>5, HeldTogether DEF Acceptable, Spliced, Pooled
<1>7. Coherent(u)
  <2>1. PICK wa, wb : wa = ConvertMessages(ms) /\ wb = ConvertMessages(t)
    OBVIOUS
  <2>2. wa \in Seq(Wires) /\ wb \in Seq(Wires)
    BY <1>3, <2>1, ConvertHolds
  <2>3. Paired(wa) /\ Paired(wb)
    BY <1>1, <2>1 DEF Coherent, Acceptable
  <2>4. Paired(wa \o wb)
    BY Zenon, <2>2, <2>3, PairedConcat
  <2>5. ConvertMessages(u) = wa \o wb
    BY <1>2, <1>3, <2>1, ConvertConcat
  <2> QED BY <2>4, <2>5 DEF Coherent
<1>8. PICK Kinds : Kinds = (IF kind \in Multimodal THEN Seen \cup {kind} ELSE Seen)
  OBVIOUS
<1>9. ASSUME NEW i \in DOMAIN u, NEW p, Carried(u[i], p) PROVE p.kind \in Kinds
  <2>1. (\E k \in DOMAIN ms : u[i] = ms[k]) \/ (\E k \in DOMAIN t : u[i] = t[k])
    BY <1>2, <1>3, Together DEF Spliced, Mixed
  <2>2. PICK k \in DOMAIN ms : u[i] = ms[k]
    BY Zenon, <1>5, <1>9, <2>1
  <2>3. \A j \in DOMAIN ms : \A q : Carried(ms[j], q) => q.kind \in Kinds
    BY Zenon, <1>8 DEF Acceptable
  <2> QED BY Zenon, <1>9, <2>2, <2>3
<1>10. Acceptable(u, kind)
  BY Zenon, <1>6, <1>7, <1>8, <1>9 DEF Acceptable
<1> QED BY <1>2, <1>3, <1>10

-----------------------------------------------------------------------------
(* The steps of the conversation. *)

(* A run that waits, and what nothing says. *)
LEMMA WaitingIs ==
  /\ Waiting \in RunTypes /\ Waiting.at = "idle" /\ Waiting.out = <<>> /\ Coherent(<<>>) /\ CallIds(<<>>) = {}
  /\ <<>> \in Seq(Spoken) /\ <<>> \in Seq(Doings)
<1>1. Waiting.at = "idle" /\ Waiting.out = <<>>
  BY DEF Waiting
<1>2. Waiting \in RunTypes
  <2>1. <<>> \in Seq(Posted) /\ <<>> \in Seq(Doings)
    OBVIOUS
  <2>2. "none" \in STRING \cup {"audio", "none"} /\ "idle" \in {"idle", "heard", "request", "tools"} /\ 0 \in Nat
    OBVIOUS
  <2> QED BY <2>1, <2>2 DEF Waiting, RunTypes
<1>3. Coherent(<<>>)
  <2>1. ConvertMessages(<<>>) = <<>>
    <3>1. PICK s : s = Conversions(<<>>)
      OBVIOUS
    <3>2. s = <<>>
      BY <3>1 DEF Conversions
    <3> QED BY <3>1, <3>2, FlattenNone DEF ConvertMessages, Conversions
  <2>2. Paired(<<>>)
    BY PairedQuiet
  <2> QED BY <2>1, <2>2 DEF Coherent
<1>4. CallIds(<<>>) = {}
  BY DEF CallIds
<1>5. <<>> \in Seq(Spoken) /\ <<>> \in Seq(Doings)
  OBVIOUS
<1> QED BY Zenon, <1>1, <1>2, <1>3, <1>4, <1>5

(* A message more is a sequence of one, put behind. *)
LEMMA AppendIs ==
  ASSUME NEW S, NEW s \in Seq(S), NEW x \in S, NEW u, u = Append(s, x)
  PROVE  u \in Seq(S) /\ Spliced(u, s, <<x>>)
BY AppendProperties, AppendIsConcat DEF Spliced

(* A history that goes on with what a run did, or with a user's message. *)
LEMMA Extended ==
  ASSUME NEW h \in Seq(Spoken), Sound(h), NEW t \in Seq(Spoken), Coherent(t), NEW c, Spliced(c, h, t)
  PROVE  /\ c \in Seq(Spoken) /\ Sound(c) /\ (Orphaned(h) => Orphaned(c))
         /\ (Hollow(c) <=> Hollow(h) \/ Hollow(t)) /\ CallIds(c) = CallIds(h) \cup CallIds(t)
<1>1. c \in Seq(Spoken) /\ Sound(c)
  BY Zenon, SoundMore
<1>2. ASSUME Orphaned(h) PROVE Orphaned(c)
  <2>1. /\ Len(c) = Len(h) + Len(t) /\ Len(h) \in Nat /\ Len(t) \in Nat
        /\ \A i \in 1 .. Len(h) + Len(t) : c[i] = IF i <= Len(h) THEN h[i] ELSE t[i - Len(h)]
    BY ConcatProperties DEF Spliced
  <2>2. h # <<>> /\ h[1].role = "tool"
    BY <1>2 DEF Orphaned
  <2>3. 1 \in 1 .. Len(h) + Len(t) /\ 1 <= Len(h) /\ Len(c) # 0
    BY <2>1, <2>2
  <2>4. c[1] = h[1] /\ c # <<>>
    BY <1>1, <2>1, <2>3
  <2> QED BY <2>2, <2>4 DEF Orphaned
<1>3. (Hollow(c) <=> Hollow(h) \/ Hollow(t)) /\ CallIds(c) = CallIds(h) \cup CallIds(t)
  BY Zenon, HeldTogether DEF Pooled
<1> QED BY Zenon, <1>1, <1>2, <1>3

(* What a compression leaves, and what the summary then has. *)
LEMMA CutKeeps ==
  ASSUME history \in Seq(Spoken), Sound(history), NEW n \in 0 .. Len(history),
         NEW b, b = Rest(history, n), NEW g, g = summed \cup CallIds(SubSeq(history, 1, n))
  PROVE  /\ b \in Seq(Spoken) /\ Sound(b) /\ (Hollow(b) => Hollow(history)) /\ Len(b) = Len(history) - n
         /\ CallIds(history) \subseteq g \cup CallIds(b) /\ summed \subseteq g
<1>1. PICK a : a = SubSeq(history, 1, n)
  OBVIOUS
<1>2. b \in Seq(Spoken) /\ a \in Seq(Spoken) /\ Left(history, n, b) /\ Spliced(history, a, b)
  BY Zenon, <1>1, RestIs
<1>3. Sound(b)
  BY Zenon, SoundRest
<1>4. (Hollow(b) => Hollow(history)) /\ CallIds(history) = CallIds(a) \cup CallIds(b)
  <2>1. Pooled(history, a, b)
    BY Zenon, <1>2, HeldTogether
  <2> QED BY Zenon, <2>1 DEF Pooled
<1> QED BY <1>1, <1>2, <1>3, <1>4 DEF Left

(* A compression of a run leaves out a beginning, if any. *)
LEMMA Compressed ==
  ASSUME history \in Seq(Spoken), summary \in BOOLEAN, NEW c \in Compressions
  PROVE  \E n \in 0 .. Len(history) :
           /\ c.history = Rest(history, n) /\ c.summary \in BOOLEAN
           /\ c.summed = summed \cup CallIds(SubSeq(history, 1, n))
<1>1. CASE c = [history |-> history, summary |-> summary, summed |-> summed]
  <2>1. Rest(history, 0) = history /\ 0 \in 0 .. Len(history)
    BY Zenon, RestOfRest
  <2>2. SubSeq(history, 1, 0) = <<>>
    OBVIOUS
  <2>3. CallIds(SubSeq(history, 1, 0)) = {}
    BY Zenon, <2>2, WaitingIs
  <2> QED BY <1>1, <2>1, <2>3
<1>2. CASE c # [history |-> history, summary |-> summary, summed |-> summed]
  <2>1. PICK n \in {SplitAt(history)} \cap (1 .. Len(history)) :
          c = [history |-> SubSeq(history, n + 1, Len(history)), summary |-> TRUE, summed |-> summed \cup CallIds(SubSeq(history, 1, n))]
    BY <1>2 DEF Compressions
  <2>2. n \in 0 .. Len(history)
    BY <2>1
  <2> QED BY <2>1, <2>2 DEF Rest
<1> QED BY <1>1, <1>2

Prompts == [role : {"system"}, content : {Text(<<"prompt">>), Text(<<"summary">>)}]

(* What a run is given begins with a tool message when the history does. *)
LEMMA ComposedBegins ==
  ASSUME NEW h \in Seq(Spoken), NEW s \in BOOLEAN, NEW ms, ms = Composed(h, s)
  PROVE  OrphanedInput(ms) <=> Orphaned(h)
<1>1. PICK sys \in Seq(Prompts) : ms = sys \o h /\ Len(sys) \in 1 .. 2
  <2>1. PICK p, q : p = Message("system", Text(<<"prompt">>)) /\ q = Message("system", Text(<<"summary">>))
    OBVIOUS
  <2>2. p \in Prompts /\ q \in Prompts
    BY <2>1 DEF Message, Prompts
  <2>3. ms = <<p>> \o (IF s THEN <<q>> ELSE <<>>) \o h
    BY Zenon, <2>1 DEF Composed
  <2>4. CASE s
    <3>1. PICK sys : sys = <<p>> \o <<q>>
      OBVIOUS
    <3>2. sys \in Seq(Prompts) /\ Len(sys) \in 1 .. 2
      BY <2>2, <3>1
    <3>3. ms = sys \o h
      BY <2>3, <2>4, <3>1
    <3> QED BY Zenon, <3>2, <3>3
  <2>5. CASE ~s
    <3>1. PICK sys : sys = <<p>> \o <<>>
      OBVIOUS
    <3>2. sys \in Seq(Prompts) /\ Len(sys) \in 1 .. 2
      BY <2>2, <3>1
    <3>3. ms = sys \o h
      BY <2>3, <2>5, <3>1
    <3> QED BY Zenon, <3>2, <3>3
  <2> QED BY <2>4, <2>5
<1>2. PICK n : n = Len(sys) /\ n \in 1 .. 2
  BY <1>1
<1>3. Len(h) \in Nat /\ \A k \in 1 .. Len(h) : h[k] \in Spoken /\ h[k].role # "system"
  <2>1. ASSUME NEW k \in 1 .. Len(h) PROVE h[k] \in Spoken /\ h[k].role # "system"
    <3>1. h[k] \in Spoken
      OBVIOUS
    <3> QED BY <3>1 DEF Spoken, UserMessages, AgentMessages, ToolMessages
  <2> QED BY <2>1
<1>4. PICK T : T = Spoken \cup Prompts
  OBVIOUS
<1>5. /\ ms \in Seq(T) /\ Len(ms) = n + Len(h)
      /\ \A i \in 1 .. n + Len(h) : ms[i] = IF i <= n THEN sys[i] ELSE h[i - n]
  <2>1. Spoken \subseteq T /\ Prompts \subseteq T
    BY <1>4
  <2>2. sys \in Seq(T) /\ h \in Seq(T)
    BY Zenon, <2>1, SeqMonotonic
  <2> QED BY <1>1, <1>2, <2>2, ConcatProperties
<1>6. DOMAIN ms = 1 .. n + Len(h) /\ \A i \in 1 .. n : ms[i].role = "system"
  <2>1. ASSUME NEW i \in 1 .. n PROVE sys[i].role = "system" /\ i \in 1 .. n + Len(h) /\ i <= n
    <3>1. sys[i] \in Prompts
      BY <1>1, <1>2
    <3>2. sys[i].role = "system"
      BY <3>1 DEF Prompts
    <3> QED BY <1>2, <1>3, <3>2
  <2> QED BY <1>5, <2>1
<1>7. ASSUME Orphaned(h) PROVE OrphanedInput(ms)
  <2>1. Len(h) >= 1 /\ h[1].role = "tool"
    BY <1>3, <1>7 DEF Orphaned
  <2>2. PICK k : k = n + 1
    OBVIOUS
  <2>3. k \in 1 .. n + Len(h) /\ ~(k <= n) /\ k - n = 1 /\ k - 1 = n
    BY <1>2, <1>3, <2>1, <2>2
  <2>4. ms[k].role = "tool"
    BY <1>5, <2>1, <2>3
  <2>5. \A j \in 1 .. (k - 1) : ms[j].role = "system"
    BY <1>6, <2>3
  <2> QED BY <1>6, <2>3, <2>4, <2>5 DEF OrphanedInput
<1>8. ASSUME OrphanedInput(ms) PROVE Orphaned(h)
  <2>1. PICK k \in 1 .. n + Len(h) : ms[k].role = "tool" /\ \A j \in 1 .. (k - 1) : ms[j].role = "system"
    BY <1>6, <1>8 DEF OrphanedInput
  <2>2. ~(k <= n)
    <3>1. ASSUME k <= n PROVE FALSE
      <4>1. k \in 1 .. n
        BY <1>2, <2>1, <3>1
      <4> QED BY <1>6, <2>1, <4>1
    <3> QED BY <3>1
  <2>3. Len(h) >= 1
    BY <1>2, <1>3, <2>1, <2>2
  <2>4. CASE k = n + 1
    <3>1. k - n = 1 /\ ms[k] = h[k - n]
      BY <1>2, <1>5, <2>1, <2>2, <2>4
    <3>2. h # <<>>
      BY <2>3
    <3> QED BY <2>1, <3>1, <3>2 DEF Orphaned
  <2>5. CASE k # n + 1
    <3>1. n + 1 \in 1 .. (k - 1) /\ n + 1 \in 1 .. n + Len(h) /\ ~(n + 1 <= n) /\ (n + 1) - n = 1 /\ 1 \in 1 .. Len(h)
      BY <1>2, <1>3, <2>1, <2>2, <2>3, <2>5
    <3>2. ms[n + 1] = h[1]
      BY <1>5, <3>1
    <3> QED BY <1>3, <2>1, <3>1, <3>2
  <2> QED BY <2>4, <2>5
<1> QED BY <1>7, <1>8

(* So what a run is given is in order unless it begins with an orphan. *)
LEMMA GivenHistory ==
  ASSUME NEW h \in Seq(Spoken), NEW s \in BOOLEAN, Sound(h), NEW n, n = 0 => ~Hollow(h), NEW ms, ms = Composed(h, s)
  PROVE  ms \in Seq(Posted) /\ Given(ms, n)
<1>1. /\ ms \in Seq(Posted)
      /\ ~Orphaned(h) /\ Coherent(h) => Coherent(ms)
      /\ Orphaned(h) => ~Coherent(ms)
      /\ \A p : (\E k \in DOMAIN ms : Carried(ms[k], p)) <=> \E k \in DOMAIN h : Carried(h[k], p)
  BY Zenon, ComposedHolds
<1>2. OrphanedInput(ms) <=> Orphaned(h)
  BY Zenon, ComposedBegins
<1>3. ~Orphaned(h) => Coherent(h)
  BY Zenon, SoundUncut
<1>4. ASSUME Hollow(ms) PROVE Hollow(h)
  <2>1. PICK k \in DOMAIN ms : \E p : Carried(ms[k], p) /\ ~p.bytes
    BY Zenon, <1>4 DEF Hollow
  <2>2. PICK p : Carried(ms[k], p) /\ ~p.bytes
    BY Zenon, <2>1
  <2>3. \E i \in DOMAIN h : Carried(h[i], p)
    BY Zenon, <1>1, <2>2
  <2> QED BY Zenon, <2>2, <2>3 DEF Hollow
<1> QED BY Zenon, <1>1, <1>2, <1>3, <1>4 DEF Given

(* Calls and their results do not make an orphan of what a run has. *)
LEMMA GivenMore ==
  ASSUME NEW ms \in Seq(Posted), ~OrphanedInput(ms), NEW a \in Posted, NEW m \in Posted, a.role # "system", a.role # "tool",
         NEW t, t = <<a, m>>
  PROVE  ~OrphanedInput(ms \o t)
<1>1. PICK u : u = ms \o t
  OBVIOUS
<1>2. t \in Seq(Posted) /\ Len(t) = 2 /\ t[1] = a
  OBVIOUS
<1>3. /\ u \in Seq(Posted) /\ Len(u) = Len(ms) + 2 /\ Len(ms) \in Nat /\ DOMAIN ms = 1 .. Len(ms) /\ DOMAIN u = 1 .. Len(ms) + 2
      /\ \A i \in 1 .. Len(ms) + 2 : u[i] = IF i <= Len(ms) THEN ms[i] ELSE t[i - Len(ms)]
  BY <1>1, <1>2, ConcatProperties
<1>4. ASSUME NEW k \in 1 .. Len(ms) + 2, u[k].role = "tool", \A j \in 1 .. (k - 1) : u[j].role = "system" PROVE FALSE
  <2>1. CASE k <= Len(ms)
    <3>1. k \in 1 .. Len(ms) /\ \A j \in 1 .. (k - 1) : j \in 1 .. Len(ms) + 2 /\ j <= Len(ms)
      BY <1>3, <2>1
    <3>2. ms[k].role = "tool" /\ \A j \in 1 .. (k - 1) : ms[j].role = "system"
      BY <1>3, <1>4, <2>1, <3>1
    <3> QED BY <1>3, <3>1, <3>2 DEF OrphanedInput
  <2>2. CASE ~(k <= Len(ms))
    <3>1. PICK n : n = Len(ms) + 1
      OBVIOUS
    <3>2. n \in 1 .. Len(ms) + 2 /\ ~(n <= Len(ms)) /\ n - Len(ms) = 1
      BY <1>3, <3>1
    <3>3. u[n] = a
      BY <1>2, <1>3, <3>2
    <3>4. k = n \/ n \in 1 .. (k - 1)
      BY <1>3, <2>2, <3>1
    <3> QED BY <1>4, <3>3, <3>4
  <2> QED BY <2>1, <2>2
<1> QED BY <1>1, <1>3, <1>4 DEF OrphanedInput
(* What every step keeps besides the invariant. *)
ConvKept ==
  /\ Stuck => Stuck' \/ (Len(history') < Len(history) /\ UNCHANGED run)
  /\ convCount'.restarts # convCount.restarts =>
        /\ Len(history') = Len(history)
        /\ \A k \in DOMAIN history :
             /\ CallsOf(history'[k].content) = CallsOf(history[k].content)
             /\ TextIn(history'[k].content) = TextIn(history[k].content)
             /\ history'[k].content.type = history[k].content.type
             /\ MediaKinds(history'[k].content) = MediaKinds(history[k].content)

(* What the invariant says of the history. *)
LEMMA AtRest ==
  ASSUME ConvInv
  PROVE  /\ history \in Seq(Spoken) /\ summary \in BOOLEAN /\ run \in RunTypes /\ convCount \in Counts
         /\ Sound(history) /\ WorkRemembered /\ (convCount.restarts = 0 => ~Hollow(history))
         /\ run.at \in {"idle", "heard"} => run.out = <<>>
BY DEF ConvInv, ConvTypes, ConvRun

(* What it says of a run at a request. *)
LEMMA AtRequest ==
  ASSUME ConvInv, run.at = "request"
  PROVE  /\ run.input \in Seq(Posted) /\ run.out \in Seq(Doings) /\ run.out \in Seq(Spoken) /\ ~Hollow(run.out)
         /\ Coherent(run.out) /\ Given(run.input, convCount.restarts)
         /\ Verdict(Request) = "no" => Acceptable(run.input, run.kind) /\ ~OrphanedInput(run.input) /\ ~Stuck
<1>1. run \in RunTypes /\ Coherent(run.out) /\ Given(run.input, convCount.restarts)
  BY DEF ConvInv, ConvTypes, ConvRun
<1>2. run.input \in Seq(Posted) /\ run.out \in Seq(Doings)
  BY <1>1 DEF RunTypes
<1>3. run.out \in Seq(Spoken) /\ ~Hollow(run.out)
  BY Zenon, <1>2, DoingsHold
<1>4. Verdict(Request) = "no" => Acceptable(run.input, run.kind)
  BY Zenon, <1>2, AcceptableIs
<1>5. Acceptable(run.input, run.kind) => ~OrphanedInput(run.input)
  BY Zenon, <1>1 DEF Acceptable, Given
<1>6. ~OrphanedInput(run.input) => ~Stuck
  BY Zenon DEF Stuck
<1> QED BY Zenon, <1>1, <1>2, <1>3, <1>4, <1>5, <1>6

(* A run ends: its messages enter the history, or they do not. *)
LEMMA RunEnds ==
  ASSUME history' \in Seq(Spoken), summary' \in BOOLEAN, convCount' \in Counts, run' = Waiting
  PROVE  ConvTypes' /\ ConvRun' /\ run'.out = <<>> /\ (Orphaned(history') => Stuck')
BY WaitingIs DEF ConvTypes, ConvRun, Stuck

(* The user's message enters the history, and a run starts. *)
LEMMA StepUserSpeaks ==
  ASSUME ConvInv, UserSpeaks
  PROVE  ConvInv' /\ ConvKept
<1>0. PICK c \in Inputs :
        /\ history' = Append(history, Message("user", c))
        /\ run' = [Waiting EXCEPT !.at = "heard",
                     !.kind = IF MediaKinds(c) = {} THEN "none" ELSE CHOOSE k \in MediaKinds(c) : TRUE]
  BY DEF UserSpeaks
<1>1. PICK m, v :
        /\ m = Message("user", c) /\ v = (IF MediaKinds(c) = {} THEN "none" ELSE CHOOSE k \in MediaKinds(c) : TRUE)
        /\ history' = Append(history, m) /\ run' = [Waiting EXCEPT !.at = "heard", !.kind = v]
  BY Zenon, <1>0
<1>2. /\ run.at = "idle" /\ convCount' = [convCount EXCEPT !.runs = @ + 1]
      /\ summary' = summary /\ summed' = summed /\ executed' = executed /\ mishaps' = mishaps
  BY DEF UserSpeaks
<1>3. /\ history \in Seq(Spoken) /\ summary \in BOOLEAN /\ convCount \in Counts
      /\ Sound(history) /\ run.out = <<>> /\ WorkRemembered /\ (convCount.restarts = 0 => ~Hollow(history))
  BY <1>2, AtRest
<1>4. m \in UserMessages /\ m.content = c /\ (\A p \in MediaOf(c) : p.bytes /\ p.kind # "none") /\ m \in Spoken /\ c \in UserContents
  <2>1. m \in UserMessages /\ m.content = c /\ \A p \in MediaOf(c) : p.bytes /\ p.kind # "none"
    BY Zenon, <1>1, InputSpoken
  <2>2. c \in UserContents
    BY <2>1 DEF UserMessages
  <2> QED BY <2>1, <2>2 DEF Spoken
<1>5. PICK t : t = <<m>>
  OBVIOUS
<1>6. t \in Seq(Spoken) /\ Coherent(t)
  BY Zenon, <1>4, <1>5, WholeOne
<1>7. Spliced(history', history, t)
  BY Zenon, <1>1, <1>3, <1>4, <1>5, AppendIs
<1>8. ~Hollow(t)
  <2>1. ~ \E p : Carried(m, p) /\ ~p.bytes
    BY Zenon, <1>4 DEF Carried
  <2> QED BY Zenon, <1>5, <2>1, HeldByOne
<1>9. /\ history' \in Seq(Spoken) /\ Sound(history') /\ (Orphaned(history) => Orphaned(history'))
      /\ (Hollow(history') <=> Hollow(history) \/ Hollow(t)) /\ CallIds(history') = CallIds(history) \cup CallIds(t)
  BY Zenon, <1>3, <1>6, <1>7, Extended
<1>10. run' = [at |-> "heard", input |-> <<>>, out |-> <<>>, steps |-> 0, attempts |-> 0, kind |-> v]
  BY <1>1 DEF Waiting
<1>11. v \in STRING \cup {"audio", "none"}
  <2>1. v = "none" \/ v \in MediaKinds(c)
    <3>1. MediaKinds(c) # {} => (CHOOSE k \in MediaKinds(c) : TRUE) \in MediaKinds(c)
      BY Zenon
    <3> QED BY <1>1, <3>1
  <2>2. \A p \in MediaOf(c) : p.kind \in STRING \cup {"audio"}
    BY Zenon, <1>4, UserMedia
  <2>3. MediaKinds(c) = {p.kind : p \in MediaOf(c)}
    BY Zenon DEF MediaKinds, MediaOf
  <2> QED BY <2>1, <2>2, <2>3
<1>12. convCount' \in Counts /\ convCount'.restarts = convCount.restarts
  BY <1>2, <1>3 DEF Counts
<1>13. ConvTypes'
  <2>1. run' \in RunTypes
    <3>1. "heard" \in {"idle", "heard", "request", "tools"} /\ <<>> \in Seq(Doings) /\ <<>> \in Seq(Posted)
      OBVIOUS
    <3>2. PICK K : K = STRING \cup {"audio", "none"}
      OBVIOUS
    <3> QED BY <1>10, <1>11, <3>1, <3>2 DEF RunTypes
  <2> QED BY <1>2, <1>3, <1>9, <1>12, <2>1 DEF ConvTypes
<1>14. run'.at = "heard" /\ run'.out = <<>>
  BY <1>10
<1>15. ConvRun'
  BY <1>14 DEF ConvRun
<1>16. WorkRemembered'
  BY <1>2, <1>3, <1>9, <1>14, WaitingIs DEF WorkRemembered
<1>17. Stuck => Stuck'
  BY <1>9, <1>14 DEF Stuck
<1> QED BY <1>3, <1>8, <1>9, <1>12, <1>13, <1>15, <1>16, <1>17 DEF ConvInv, ConvKept

(* The run is given the history as it is by then. *)
LEMMA StepCompose ==
  ASSUME ConvInv, Compose
  PROVE  ConvInv' /\ ConvKept
<1>1. PICK ms : /\ ms = Composed(history, summary) /\ run.at = "heard" /\ run' = [run EXCEPT !.at = "request", !.input = ms]
                /\ history' = history /\ summary' = summary /\ summed' = summed /\ executed' = executed
                /\ mishaps' = mishaps /\ convCount' = convCount
  BY DEF Compose
<1>2. /\ history \in Seq(Spoken) /\ summary \in BOOLEAN /\ run \in RunTypes /\ convCount \in Counts
      /\ Sound(history) /\ run.out = <<>> /\ WorkRemembered /\ (convCount.restarts = 0 => ~Hollow(history))
  BY <1>1, AtRest
<1>3. ms \in Seq(Posted) /\ Given(ms, convCount.restarts)
  BY Zenon, <1>1, <1>2, GivenHistory
<1>4. OrphanedInput(ms) <=> Orphaned(history)
  BY Zenon, <1>1, <1>2, ComposedBegins
<1>5. run' \in RunTypes /\ run'.at = "request" /\ run'.input = ms /\ run'.out = <<>>
  <2>1. "request" \in {"idle", "heard", "request", "tools"}
    OBVIOUS
  <2> QED BY <1>1, <1>2, <1>3, <2>1 DEF RunTypes
<1>6. ConvTypes'
  BY <1>1, <1>2, <1>5 DEF ConvTypes
<1>7. ConvRun'
  BY <1>1, <1>3, <1>5, WaitingIs DEF ConvRun
<1>8. WorkRemembered'
  BY <1>1, <1>2, <1>5 DEF WorkRemembered
<1>9. Stuck => Stuck'
  BY <1>1, <1>4, <1>5 DEF Stuck
<1> QED BY <1>1, <1>2, <1>6, <1>7, <1>8, <1>9 DEF ConvInv, ConvKept

(* The run is aborted at the head of the loop. *)
LEMMA StepAborted ==
  ASSUME ConvInv, Aborted
  PROVE  ConvInv' /\ ConvKept
<1>1. /\ run.at = "request" /\ history' = history \o run.out /\ run' = Waiting
      /\ summary' = summary /\ summed' = summed /\ executed' = executed /\ mishaps' = mishaps /\ convCount' = convCount
  BY DEF Aborted
<1>2. /\ history \in Seq(Spoken) /\ summary \in BOOLEAN /\ convCount \in Counts
      /\ Sound(history) /\ WorkRemembered /\ (convCount.restarts = 0 => ~Hollow(history))
      /\ run.out \in Seq(Spoken) /\ ~Hollow(run.out) /\ Coherent(run.out)
  BY Zenon, <1>1, AtRest, AtRequest
<1>3. Spliced(history', history, run.out)
  BY <1>1 DEF Spliced
<1>4. /\ history' \in Seq(Spoken) /\ Sound(history') /\ (Orphaned(history) => Orphaned(history'))
      /\ (Hollow(history') <=> Hollow(history) \/ Hollow(run.out))
      /\ CallIds(history') = CallIds(history) \cup CallIds(run.out)
  BY Zenon, <1>2, <1>3, Extended
<1>5. ConvTypes' /\ ConvRun' /\ run'.out = <<>> /\ (Orphaned(history') => Stuck')
  BY Zenon, <1>1, <1>2, <1>4, RunEnds
<1>6. WorkRemembered'
  BY <1>1, <1>2, <1>4, <1>5 DEF WorkRemembered
<1>7. Stuck => Stuck'
  BY <1>4, <1>5 DEF Stuck
<1> QED BY <1>1, <1>2, <1>4, <1>5, <1>6, <1>7 DEF ConvInv, ConvKept

(* A request is refused, or fails. *)
LEMMA StepRefused ==
  ASSUME ConvInv, RequestRefused \/ RequestFails
  PROVE  ConvInv' /\ ConvKept
<1>1. history' = history /\ run' = Waiting /\ mishaps' # {} /\ summary' = summary /\ convCount' = convCount
  BY DEF RequestRefused, RequestFails, FailRun
<1>2. /\ history \in Seq(Spoken) /\ summary \in BOOLEAN /\ convCount \in Counts
      /\ Sound(history) /\ (convCount.restarts = 0 => ~Hollow(history))
  BY Zenon, AtRest
<1>3. ConvTypes' /\ ConvRun' /\ (Orphaned(history') => Stuck')
  BY Zenon, <1>1, <1>2, RunEnds
<1>4. WorkRemembered'
  BY <1>1 DEF WorkRemembered
<1>5. Stuck => Stuck'
  BY <1>1, <1>3 DEF Stuck
<1> QED BY <1>1, <1>2, <1>3, <1>4, <1>5 DEF ConvInv, ConvKept
(* The model replies. *)
LEMMA StepReplied ==
  ASSUME ConvInv, Replied
  PROVE  ConvInv' /\ ConvKept
<1>0. PICK kind \in Answered :
        LET m == Message("assistant", Reply(kind)) IN
        /\ convCount' = [convCount EXCEPT !.calls = @ + Len(CallsOf(Reply(kind)))]
        /\ IF CallsOf(Reply(kind)) = <<>>
           THEN history' = history \o Append(run.out, m) /\ run' = Waiting
           ELSE /\ run' = [run EXCEPT !.at = "tools", !.out = Append(@, m), !.steps = @ + 1]
                /\ UNCHANGED history
  BY DEF Replied
<1>1. PICK m :
        /\ m = Message("assistant", Reply(kind))
        /\ convCount' = [convCount EXCEPT !.calls = @ + Len(CallsOf(Reply(kind)))]
        /\ IF CallsOf(Reply(kind)) = <<>>
           THEN history' = history \o Append(run.out, m) /\ run' = Waiting
           ELSE /\ run' = [run EXCEPT !.at = "tools", !.out = Append(@, m), !.steps = @ + 1]
                /\ UNCHANGED history
  BY <1>0
<1>2. /\ run.at = "request" /\ Verdict(Request) = "no"
      /\ summary' = summary /\ summed' = summed /\ executed' = executed /\ mishaps' = mishaps
  BY DEF Replied
<1>3. /\ history \in Seq(Spoken) /\ summary \in BOOLEAN /\ run \in RunTypes /\ convCount \in Counts
      /\ Sound(history) /\ WorkRemembered /\ (convCount.restarts = 0 => ~Hollow(history))
  BY AtRest
<1>4. /\ run.input \in Seq(Posted) /\ run.out \in Seq(Doings) /\ run.out \in Seq(Spoken) /\ ~Hollow(run.out)
      /\ Coherent(run.out) /\ Acceptable(run.input, run.kind) /\ ~OrphanedInput(run.input) /\ ~Stuck
  BY Zenon, <1>2, AtRequest
<1>5. m \in AgentMessages /\ m.content = Reply(kind) /\ CallsOf(m.content) \in Seq(Details)
  <2>1. kind \in {"text", "reasoning", "media", "call", "calls"} /\ convCount.calls \in Nat
    BY <1>3, ConversationAssumption DEF Counts
  <2>2. /\ Message("assistant", Reply(kind)) \in AgentMessages /\ Message("assistant", Reply(kind)).content = Reply(kind)
        /\ CallsOf(Reply(kind)) \in Seq(Details)
    BY Zenon, <2>1, ReplySpoken
  <2> QED BY <1>1, <2>2
<1>6. m \in Doings /\ m \in Spoken
  BY <1>5 DEF Doings, Spoken
<1>7. PICK n \in Nat : n = Len(CallsOf(m.content))
  BY <1>5
<1>8. convCount' \in Counts /\ convCount'.restarts = convCount.restarts
  <2>1. Len(CallsOf(Reply(kind))) = n
    BY <1>5, <1>7
  <2>2. convCount' = [convCount EXCEPT !.calls = convCount.calls + n]
    BY <1>1, <2>1
  <2> QED BY <1>3, <2>2 DEF Counts
<1>9. PICK u : u = Append(run.out, m)
  OBVIOUS
<1>10. u \in Seq(Doings) /\ u \in Seq(Spoken) /\ ~Hollow(u) /\ Spliced(u, run.out, <<m>>)
  <2>1. u \in Seq(Doings) /\ Spliced(u, run.out, <<m>>)
    BY Zenon, <1>4, <1>6, <1>9, AppendIs
  <2> QED BY <2>1, DoingsHold
<1>11. CallIds(u) = CallIds(run.out) \cup CallIds(<<m>>)
  <2>1. <<m>> \in Seq(Spoken)
    BY <1>6
  <2>2. Pooled(u, run.out, <<m>>)
    BY Zenon, <1>4, <1>10, <2>1, HeldTogether
  <2> QED BY Zenon, <2>2 DEF Pooled
<1>12. CASE CallsOf(m.content) = <<>>
  <2>1. history' = history \o u /\ run' = Waiting
    BY <1>1, <1>5, <1>9, <1>12
  <2>2. Coherent(u)
    <3>1. <<m>> \in Seq(Spoken) /\ Coherent(<<m>>)
      BY Zenon, <1>5, <1>6, <1>12, WholeOne
    <3>2. Coherent(run.out \o <<m>>)
      BY <1>4, <3>1, WholeConcat
    <3> QED BY <1>10, <3>2 DEF Spliced
  <2>3. Spliced(history', history, u)
    BY <2>1 DEF Spliced
  <2>4. /\ history' \in Seq(Spoken) /\ Sound(history') /\ (Hollow(history') <=> Hollow(history) \/ Hollow(u))
        /\ CallIds(history') = CallIds(history) \cup CallIds(u)
    BY Zenon, <1>3, <1>10, <2>2, <2>3, Extended
  <2>5. ConvTypes' /\ ConvRun' /\ run'.out = <<>>
    <3>1. summary' \in BOOLEAN
      BY <1>2, <1>3
    <3> QED BY Zenon, <1>8, <2>1, <2>4, <3>1, RunEnds
  <2>6. WorkRemembered'
    BY <1>2, <1>3, <1>11, <2>4 DEF WorkRemembered
  <2> QED BY <1>3, <1>4, <1>8, <1>10, <2>4, <2>5, <2>6 DEF ConvInv, ConvKept
<1>13. CASE CallsOf(m.content) # <<>>
  <2>1. run' = [run EXCEPT !.at = "tools", !.out = Append(@, m), !.steps = @ + 1] /\ history' = history
    BY <1>1, <1>5, <1>13
  <2>2. /\ run'.at = "tools" /\ run'.out = u /\ run'.input = run.input /\ run'.kind = run.kind /\ run' \in RunTypes
    <3>1. "tools" \in {"idle", "heard", "request", "tools"} /\ run.steps + 1 \in Nat
      BY <1>3 DEF RunTypes
    <3> QED BY <1>3, <1>9, <1>10, <2>1, <3>1 DEF RunTypes
  <2>3. ConvTypes'
    BY <1>2, <1>3, <1>8, <2>1, <2>2 DEF ConvTypes
  <2>4. \E o \in Seq(Doings), a \in AgentMessages : run'.out = Append(o, a) /\ CallsOf(a.content) # <<>> /\ Coherent(o)
    BY <1>4, <1>5, <1>9, <1>13, <2>2
  <2>5. ConvRun'
    <3>1. /\ run'.at # "idle" /\ run'.at # "heard" /\ run'.at # "request" /\ run'.at = "tools"
          /\ Acceptable(run'.input, run'.kind) /\ ~OrphanedInput(run'.input)
      BY <1>4, <2>2
    <3> QED BY <2>4, <3>1 DEF ConvRun
  <2>6. WorkRemembered'
    BY <1>2, <1>3, <1>11, <2>1, <2>2 DEF WorkRemembered
  <2> QED BY <1>3, <1>4, <1>8, <2>1, <2>3, <2>5, <2>6 DEF ConvInv, ConvKept
<1> QED BY <1>12, <1>13

(* The tools run: every call of the reply is answered. *)
LEMMA StepRunTools ==
  ASSUME ConvInv, RunTools
  PROVE  ConvInv' /\ ConvKept
<1>1. run.at = "tools" /\ mishaps' = mishaps /\ convCount' = convCount
  BY DEF RunTools
<1>2. /\ history \in Seq(Spoken) /\ summary \in BOOLEAN /\ run \in RunTypes /\ convCount \in Counts
      /\ Sound(history) /\ WorkRemembered /\ (convCount.restarts = 0 => ~Hollow(history))
  BY AtRest
<1>3. /\ Acceptable(run.input, run.kind) /\ ~OrphanedInput(run.input) /\ run.input \in Seq(Posted) /\ ~Stuck
      /\ \E o \in Seq(Doings), a \in AgentMessages : run.out = Append(o, a) /\ CallsOf(a.content) # <<>> /\ Coherent(o)
  BY <1>1 DEF ConvInv, ConvTypes, ConvRun, RunTypes, Stuck
<1>4. PICK o \in Seq(Doings), a \in AgentMessages : run.out = Append(o, a) /\ CallsOf(a.content) # <<>> /\ Coherent(o)
  BY <1>3
<1>5. a \in Doings /\ Last(run.out) = a
  <2>1. a \in Doings
    BY <1>4 DEF Doings
  <2>2. Len(run.out) = Len(o) + 1 /\ run.out[Len(run.out)] = a
    BY <1>4, <2>1
  <2> QED BY <2>1, <2>2 DEF Last
<1>6. PICK ids, m, u : ids = IdsOf(CallsOf(a.content)) /\ m = Message("tool", Results(ids)) /\ u = Append(run.out, m)
  OBVIOUS
<1>7. PICK c \in Compressions :
        /\ executed' = executed \cup ToSet(ids)
        /\ summary' = c.summary /\ summed' = c.summed
        /\ \/ run' = Waiting /\ history' = c.history \o u
           \/ /\ run' = [run EXCEPT !.at = "request", !.out = u, !.input = @ \o <<a, m>>]
              /\ history' = c.history
  BY <1>5, <1>6 DEF RunTools, IdsOf
<1>8. PICK n \in 0 .. Len(history) :
        /\ c.history = Rest(history, n) /\ c.summary \in BOOLEAN /\ c.summed = summed \cup CallIds(SubSeq(history, 1, n))
  BY Zenon, <1>2, Compressed
<1>9. PICK b : /\ b = c.history /\ b \in Seq(Spoken) /\ Sound(b) /\ (Hollow(b) => Hollow(history))
               /\ CallIds(history) \subseteq c.summed \cup CallIds(b) /\ summed \subseteq c.summed
  BY Zenon, <1>2, <1>8, CutKeeps
<1>10. PICK t : t = <<a, m>>
  OBVIOUS
<1>11. /\ a \in Spoken /\ m \in Spoken /\ a \in Posted /\ m \in Posted /\ m \in ToolMessages /\ t \in Seq(Spoken)
       /\ Coherent(t)
  BY Zenon, <1>4, <1>6, <1>10, WholeExchange
<1>12. m \in Doings /\ a.role # "system" /\ a.role # "tool"
  BY <1>11 DEF Doings, AgentMessages
<1>13. u \in Seq(Doings) /\ u \in Seq(Spoken) /\ ~Hollow(u) /\ run.out \in Seq(Doings) /\ run.out \in Seq(Spoken)
       /\ Spliced(u, run.out, <<m>>)
  <2>1. run.out \in Seq(Doings)
    BY <1>4, <1>5
  <2>2. u \in Seq(Doings) /\ Spliced(u, run.out, <<m>>)
    BY Zenon, <1>6, <1>12, <2>1, AppendIs
  <2> QED BY <2>1, <2>2, DoingsHold
<1>14. Coherent(u)
  <2>1. o \in Seq(Spoken)
    BY <1>4, DoingsHold
  <2>2. Coherent(o \o t)
    BY <1>4, <1>11, <2>1, WholeConcat
  <2>3. u = o \o t
    <3>0. PICK p, q : p = <<a>> /\ q = <<m>>
      OBVIOUS
    <3>1. p \in Seq(Doings) /\ q \in Seq(Doings)
      BY <1>5, <1>12, <3>0
    <3>2. Spliced(run.out, o, p)
      BY Zenon, <1>4, <1>5, <3>0, AppendIs
    <3>3. Spliced(t, p, q)
      BY <1>5, <1>10, <1>12, <3>0, TwoOf DEF Spliced
    <3>4. Spliced(u, run.out, q)
      BY Zenon, <1>13, <3>0
    <3>5. Spliced(u, o, t)
      BY <1>4, <3>1, <3>2, <3>3, <3>4, PieceAdded
    <3> QED BY <3>5 DEF Spliced
  <2> QED BY <2>2, <2>3
<1>15. CallIds(u) = CallIds(run.out) \cup CallIds(<<m>>) /\ ToSet(ids) \subseteq CallIds(run.out)
  <2>1. <<m>> \in Seq(Spoken) /\ <<a>> \in Seq(Spoken) /\ o \in Seq(Spoken)
    BY <1>4, <1>11, DoingsHold
  <2>2. Pooled(u, run.out, <<m>>)
    BY Zenon, <1>13, <2>1, HeldTogether
  <2>3. Spliced(run.out, o, <<a>>)
    BY Zenon, <1>4, <1>5, AppendIs
  <2>4. Pooled(run.out, o, <<a>>)
    BY Zenon, <2>1, <2>3, HeldTogether
  <2>5. CallIds(<<a>>) = CalledBy(a)
    BY Zenon, HeldByOne
  <2>6. ToSet(ids) \subseteq CalledBy(a)
    BY <1>6 DEF IdsOf, CalledBy, ToSet
  <2> QED BY <2>2, <2>4, <2>5, <2>6 DEF Pooled
<1>16. summary' \in BOOLEAN /\ convCount' \in Counts
  BY <1>1, <1>2, <1>7, <1>8
<1>17. CASE run' = Waiting /\ history' = c.history \o u
  <2>1. Spliced(history', b, u)
    BY <1>9, <1>17 DEF Spliced
  <2>2. /\ history' \in Seq(Spoken) /\ Sound(history') /\ (Hollow(history') <=> Hollow(b) \/ Hollow(u))
        /\ CallIds(history') = CallIds(b) \cup CallIds(u)
    BY Zenon, <1>9, <1>13, <1>14, <2>1, Extended
  <2>3. ConvTypes' /\ ConvRun' /\ run'.out = <<>>
    BY Zenon, <1>16, <1>17, <2>2, RunEnds
  <2>4. WorkRemembered'
    BY <1>1, <1>2, <1>7, <1>9, <1>15, <2>2 DEF WorkRemembered
  <2> QED BY <1>1, <1>2, <1>3, <1>9, <1>13, <2>2, <2>3, <2>4 DEF ConvInv, ConvKept
<1>18. CASE run' = [run EXCEPT !.at = "request", !.out = u, !.input = @ \o <<a, m>>] /\ history' = c.history
  <2>1. run.input \o t \in Seq(Posted) /\ Acceptable(run.input \o t, run.kind)
    BY Zenon, <1>3, <1>4, <1>6, <1>10, AcceptableMore
  <2>2. ~OrphanedInput(run.input \o t)
    BY Zenon, <1>3, <1>10, <1>11, <1>12, GivenMore
  <2>3. /\ run'.at = "request" /\ run'.out = u /\ run'.input = run.input \o t /\ run' \in RunTypes
    <3>1. "request" \in {"idle", "heard", "request", "tools"}
      OBVIOUS
    <3> QED BY <1>2, <1>10, <1>13, <1>18, <2>1, <3>1 DEF RunTypes
  <2>4. history' = b
    BY <1>9, <1>18
  <2>5. ConvTypes'
    BY <1>9, <1>16, <2>3, <2>4 DEF ConvTypes
  <2>6. Given(run'.input, convCount'.restarts)
    BY <2>1, <2>2, <2>3 DEF Given, Acceptable
  <2>7. ConvRun'
    <3>1. run'.at # "idle" /\ run'.at # "heard" /\ run'.at = "request" /\ run'.at # "tools" /\ Coherent(run'.out)
      BY <1>14, <2>3
    <3> QED BY <2>6, <3>1 DEF ConvRun
  <2>8. WorkRemembered'
    BY <1>1, <1>2, <1>7, <1>9, <1>15, <2>3, <2>4 DEF WorkRemembered
  <2> QED BY <1>1, <1>2, <1>3, <1>9, <2>4, <2>5, <2>7, <2>8 DEF ConvInv, ConvKept
<1> QED BY <1>7, <1>17, <1>18

(* The context is exceeded: the loop starts again, or gives up. *)
LEMMA StepContextExceeded ==
  ASSUME ConvInv, ContextExceeded
  PROVE  ConvInv' /\ ConvKept
<1>1. /\ run.at = "request" /\ Verdict(Request) = "no" /\ executed' = executed
      /\ convCount' = [convCount EXCEPT !.full = @ + 1]
  BY DEF ContextExceeded, IsContextError
<1>2. /\ history \in Seq(Spoken) /\ summary \in BOOLEAN /\ run \in RunTypes /\ convCount \in Counts
      /\ Sound(history) /\ WorkRemembered /\ (convCount.restarts = 0 => ~Hollow(history)) /\ ~Stuck
  BY Zenon, <1>1, AtRest, AtRequest
<1>3. convCount' \in Counts /\ convCount'.restarts = convCount.restarts
  BY <1>1, <1>2 DEF Counts
<1>4. CASE FailRun /\ summary' = summary /\ summed' = summed
  <2>1. history' = history /\ run' = Waiting /\ mishaps' # {}
    BY <1>4 DEF FailRun
  <2>2. ConvTypes' /\ ConvRun'
    <3>1. history' \in Seq(Spoken) /\ summary' \in BOOLEAN
      BY <1>2, <1>4, <2>1
    <3> QED BY Zenon, <1>3, <2>1, <3>1, RunEnds
  <2>3. WorkRemembered'
    BY <2>1 DEF WorkRemembered
  <2> QED BY <1>2, <1>3, <2>1, <2>2, <2>3 DEF ConvInv, ConvKept
<1>5. CASE /\ \E c \in Compressions : history' = c.history /\ summary' = c.summary /\ summed' = c.summed
           /\ run' = [run EXCEPT !.input = Composed(history', summary'), !.out = <<>>, !.steps = 0, !.attempts = @ + 1]
           /\ mishaps' = mishaps \cup {"retry" : k \in {k \in {1} : run.out # <<>>}}
  <2>1. PICK c \in Compressions : history' = c.history /\ summary' = c.summary /\ summed' = c.summed
    BY <1>5
  <2>2. PICK n \in 0 .. Len(history) :
          /\ c.history = Rest(history, n) /\ c.summary \in BOOLEAN /\ c.summed = summed \cup CallIds(SubSeq(history, 1, n))
    BY Zenon, <1>2, Compressed
  <2>3. PICK b : /\ b = c.history /\ b \in Seq(Spoken) /\ Sound(b) /\ (Hollow(b) => Hollow(history))
                 /\ CallIds(history) \subseteq c.summed \cup CallIds(b) /\ summed \subseteq c.summed
    BY Zenon, <1>2, <2>2, CutKeeps
  <2>4. history' = b /\ summary' \in BOOLEAN
    BY <2>1, <2>2, <2>3
  <2>5. convCount'.restarts = 0 => ~Hollow(b)
    BY <1>2, <1>3, <2>3
  <2>6. PICK ms : ms = Composed(b, summary')
    OBVIOUS
  <2>7. ms \in Seq(Posted) /\ Given(ms, convCount'.restarts)
    BY Zenon, <2>3, <2>4, <2>5, <2>6, GivenHistory
  <2>8. run'.at = "request" /\ run'.out = <<>> /\ run'.input = ms /\ run' \in RunTypes
    <3>1. <<>> \in Seq(Doings) /\ run.attempts + 1 \in Nat /\ 0 \in Nat
      BY <1>2 DEF RunTypes
    <3>2. run' = [run EXCEPT !.input = ms, !.out = <<>>, !.steps = 0, !.attempts = @ + 1]
      BY <1>5, <2>4, <2>6
    <3> QED BY <1>1, <1>2, <2>7, <3>1, <3>2 DEF RunTypes
  <2>9. ConvTypes'
    BY <1>3, <2>3, <2>4, <2>8 DEF ConvTypes
  <2>10. ConvRun'
    <3>1. run'.at # "idle" /\ run'.at # "heard" /\ run'.at = "request" /\ run'.at # "tools" /\ Coherent(run'.out)
      BY <2>8, WaitingIs
    <3> QED BY <2>7, <2>8, <3>1 DEF ConvRun
  <2>11. WorkRemembered'
    <3>1. ASSUME mishaps' = {} PROVE executed' \subseteq summed' \cup CallIds(history')
      <4>1. mishaps = {} /\ run.out = <<>>
        BY <1>5, <3>1
      <4>2. executed \subseteq summed \cup CallIds(history)
        BY <1>2, <4>1, WaitingIs DEF WorkRemembered
      <4> QED BY <1>1, <2>1, <2>3, <2>4, <4>2
    <3> QED BY <3>1 DEF WorkRemembered
  <2> QED BY <1>2, <1>3, <2>3, <2>4, <2>5, <2>9, <2>10, <2>11 DEF ConvInv, ConvKept
<1> QED BY <1>4, <1>5 DEF ContextExceeded

(* The history is compressed from outside the session's runs. *)
LEMMA StepCompressedByOthers ==
  ASSUME ConvInv, CompressedByOthers
  PROVE  ConvInv' /\ ConvKept
<1>1. run' = run /\ executed' = executed /\ mishaps' = mishaps /\ convCount' = convCount
  BY DEF CompressedByOthers
<1>2. /\ history \in Seq(Spoken) /\ summary \in BOOLEAN /\ run \in RunTypes /\ convCount \in Counts
      /\ Sound(history) /\ WorkRemembered /\ (convCount.restarts = 0 => ~Hollow(history)) /\ ConvRun
  BY DEF ConvInv, ConvTypes
<1>3. PICK n \in 1 .. SplitAt(history) :
        /\ history' = SubSeq(history, n + 1, Len(history))
        /\ summary' = TRUE /\ summed' = summed \cup CallIds(SubSeq(history, 1, n))
  BY DEF CompressedByOthers
<1>4. n \in 0 .. Len(history) /\ n \in Nat /\ n > 0 /\ Len(history) \in Nat
  <2>1. Len(history) \in Nat /\ KeepLastN \in Nat
    BY <1>2, ConversationAssumption
  <2> QED BY <2>1 DEF SplitAt
<1>5. PICK b : b = Rest(history, n) /\ history' = b
  BY <1>3 DEF Rest
<1>6. /\ b \in Seq(Spoken) /\ Sound(b) /\ (Hollow(b) => Hollow(history)) /\ Len(b) = Len(history) - n
      /\ CallIds(history) \subseteq summed' \cup CallIds(b) /\ summed \subseteq summed'
  BY Zenon, <1>2, <1>3, <1>4, <1>5, CutKeeps
<1>7. ConvTypes' /\ ConvRun'
  BY <1>1, <1>2, <1>3, <1>5, <1>6 DEF ConvTypes, ConvRun
<1>8. WorkRemembered'
  BY <1>1, <1>2, <1>5, <1>6 DEF WorkRemembered
<1>9. Len(history') < Len(history)
  BY <1>4, <1>5, <1>6
<1> QED BY <1>1, <1>2, <1>5, <1>6, <1>7, <1>8, <1>9 DEF ConvInv, ConvKept

(* A reload leaves calls and results together. *)
LEMMA ReloadCoherent ==
  ASSUME NEW h \in Seq(Spoken), NEW g \in Seq(Spoken), Len(g) = Len(h), Coherent(h),
         \A k \in 1 .. Len(h) : Alike(ConvertMessage(h[k]), ConvertMessage(g[k]))
  PROVE  Coherent(g)
<1>1. PICK ch, cg : ch = Conversions(h) /\ cg = Conversions(g)
  OBVIOUS
<1>2. h \in Seq(Posted) /\ g \in Seq(Posted)
  BY SpokenSent
<1>3. /\ ch \in Seq(Seq(Wires)) /\ Len(ch) = Len(h) /\ (\A k \in 1 .. Len(h) : ch[k] = ConvertMessage(h[k]))
      /\ cg \in Seq(Seq(Wires)) /\ Len(cg) = Len(g) /\ \A k \in 1 .. Len(g) : cg[k] = ConvertMessage(g[k])
  BY Zenon, <1>1, <1>2, ConversionsTypes
<1>4. \A k \in 1 .. Len(ch) : Alike(ch[k], cg[k])
  BY <1>3
<1>5. Alike(FlattenSeq(ch), FlattenSeq(cg))
  BY <1>3, <1>4, FlattenAlike
<1>6. FlattenSeq(ch) = ConvertMessages(h) /\ FlattenSeq(cg) = ConvertMessages(g)
  BY Zenon, <1>1 DEF ConvertMessages, Conversions
<1>7. ConvertMessages(h) \in Seq(Wires) /\ ConvertMessages(g) \in Seq(Wires)
  BY Zenon, <1>2, ConvertHolds
<1> QED BY Zenon, <1>5, <1>6, <1>7, PairedAlike DEF Coherent

(* The process restarts between runs. *)
LEMMA StepConvRestart ==
  ASSUME ConvInv, ConvRestart
  PROVE  ConvInv' /\ ConvKept
<1>1. /\ run.at = "idle" /\ history' = [k \in DOMAIN history |-> [history[k] EXCEPT !.content = Stored(@)]]
      /\ convCount' = [convCount EXCEPT !.restarts = @ + 1]
      /\ summary' = summary /\ summed' = summed /\ run' = run /\ executed' = executed /\ mishaps' = mishaps
  BY DEF ConvRestart
<1>2. /\ history \in Seq(Spoken) /\ summary \in BOOLEAN /\ run \in RunTypes /\ convCount \in Counts
      /\ Sound(history) /\ WorkRemembered /\ run.out = <<>>
  BY Zenon, <1>1, AtRest
<1>3. PICK g : g = history'
  OBVIOUS
<1>4. DOMAIN g = DOMAIN history /\ \A k \in DOMAIN history : g[k] = [history[k] EXCEPT !.content = Stored(@)]
  BY <1>1, <1>3
<1>5. ASSUME NEW k \in DOMAIN history
      PROVE  /\ g[k] \in Spoken /\ g[k].role = history[k].role /\ KeptContent(history[k].content, g[k].content)
             /\ Alike(ConvertMessage(history[k]), ConvertMessage(g[k]))
             /\ Unsendable(g[k]) <=> Unsendable(history[k])
             /\ (\E p : Carried(history[k], p)) => \E p : Carried(g[k], p) /\ ~p.bytes
  <2>1. history[k] \in Spoken
    BY <1>2
  <2>2. PICK m, n : m = history[k] /\ n = g[k] /\ n = [m EXCEPT !.content = Stored(@)]
    BY <1>4
  <2>3. /\ n \in Spoken /\ n.role = m.role /\ KeptContent(m.content, n.content)
        /\ n \in UserMessages <=> m \in UserMessages
        /\ n \in AgentMessages <=> m \in AgentMessages
        /\ Alike(ConvertMessage(m), ConvertMessage(n))
        /\ Unsendable(n) <=> Unsendable(m)
        /\ (\E p : Carried(m, p)) => \E p : Carried(n, p) /\ ~p.bytes
    BY <2>1, <2>2, MessageKept
  <2> QED BY Zenon, <2>2, <2>3
<1>6. g \in Seq(Spoken) /\ Len(g) = Len(history) /\ DOMAIN history = 1 .. Len(history)
  <2>1. Len(history) \in Nat /\ DOMAIN history = 1 .. Len(history)
    BY <1>2
  <2>2. g = [k \in 1 .. Len(history) |-> g[k]]
    BY <1>1, <1>3, <2>1
  <2>3. \A k \in 1 .. Len(history) : g[k] \in Spoken
    BY <1>5, <2>1
  <2> QED BY <2>1, <2>2, <2>3
<1>7. Orphaned(g) <=> Orphaned(history)
  <2>1. g = <<>> <=> history = <<>>
    BY <1>2, <1>6
  <2>2. ASSUME history # <<>> PROVE g[1].role = history[1].role
    <3>1. 1 \in DOMAIN history
      BY <1>2, <2>2
    <3> QED BY <1>5, <3>1
  <2> QED BY Zenon, <2>1, <2>2 DEF Orphaned
<1>8. Sound(g)
  <2>1. ASSUME NEW n \in 0 .. Len(g), ~Orphaned(Rest(g, n)) PROVE Coherent(Rest(g, n))
    <3>1. PICK x, y : x = Rest(history, n) /\ y = Rest(g, n)
      OBVIOUS
    <3>2. x \in Seq(Spoken) /\ Left(history, n, x) /\ y \in Seq(Spoken) /\ Left(g, n, y)
      <4>1. n \in 0 .. Len(history)
        BY <1>6
      <4> QED BY Zenon, <1>2, <1>6, <3>1, <4>1, RestIs
    <3>3. Len(x) = Len(y) /\ Len(history) \in Nat /\ n \in Nat /\ Len(x) = Len(history) - n /\ n <= Len(history)
      BY <1>6, <3>2 DEF Left
    <3>4. ASSUME NEW k \in 1 .. Len(x)
          PROVE  n + k \in DOMAIN history /\ x[k] = history[n + k] /\ y[k] = g[n + k]
      <4>1. k \in 1 .. Len(history) - n /\ k \in 1 .. Len(g) - n /\ n + k \in DOMAIN history
        BY <1>6, <3>3
      <4> QED BY <3>2, <4>1 DEF Left
    <3>5. \A k \in 1 .. Len(x) : Alike(ConvertMessage(x[k]), ConvertMessage(y[k])) /\ y[k].role = x[k].role
      BY <1>5, <3>4
    <3>6. ~Orphaned(x)
      <4>1. ASSUME x # <<>> PROVE 1 \in 1 .. Len(x) /\ y # <<>>
        <5>1. Len(x) \in Nat /\ Len(x) # 0
          BY <3>2, <4>1
        <5>2. 1 \in 1 .. Len(x) /\ Len(y) # 0
          BY <3>3, <5>1
        <5>3. Len(<<>>) = 0
          OBVIOUS
        <5> QED BY Zenon, <5>2, <5>3
      <4> QED BY <2>1, <3>1, <3>5, <4>1 DEF Orphaned
    <3>7. Coherent(x)
      BY <1>2, <1>6, <3>1, <3>6 DEF Sound
    <3> QED BY Zenon, <3>1, <3>2, <3>3, <3>5, <3>7, ReloadCoherent
  <2> QED BY <2>1 DEF Sound
<1>9. CallIds(g) = CallIds(history)
  <2>1. \A k \in DOMAIN history : CallsOf(g[k].content) = CallsOf(history[k].content)
    BY <1>5 DEF KeptContent
  <2> QED BY <1>4, <2>1 DEF CallIds
<1>10. convCount' \in Counts /\ convCount'.restarts # 0
  BY <1>1, <1>2 DEF Counts
<1>11. ConvTypes' /\ ConvRun'
  BY <1>1, <1>2, <1>3, <1>6, <1>10 DEF ConvTypes, ConvRun
<1>12. WorkRemembered'
  BY <1>1, <1>2, <1>3, <1>9 DEF WorkRemembered
<1>13. Stuck => Stuck'
  BY <1>1, <1>3, <1>7 DEF Stuck
<1>14. /\ Len(history') = Len(history)
       /\ \A k \in DOMAIN history :
             /\ CallsOf(history'[k].content) = CallsOf(history[k].content)
             /\ TextIn(history'[k].content) = TextIn(history[k].content)
             /\ history'[k].content.type = history[k].content.type
             /\ MediaKinds(history'[k].content) = MediaKinds(history[k].content)
  BY <1>3, <1>5, <1>6 DEF KeptContent
<1> QED BY Zenon, <1>3, <1>8, <1>10, <1>11, <1>12, <1>13, <1>14 DEF ConvInv, ConvKept

(* The invariant holds at the beginning. *)
LEMMA ConvStarts ==
  ASSUME ConvInit
  PROVE  ConvInv
<1>1. /\ history = <<>> /\ summary = FALSE /\ summed = {} /\ run = Waiting /\ executed = {} /\ mishaps = {}
      /\ convCount = [runs |-> 0, calls |-> 0, full |-> 0, restarts |-> 0]
  BY DEF ConvInit
<1>2. ConvTypes
  BY <1>1, WaitingIs DEF ConvTypes, Counts
<1>3. ConvRun
  BY <1>1, WaitingIs DEF ConvRun
<1>4. WorkRemembered
  BY <1>1 DEF WorkRemembered
<1>5. Sound(history) /\ ~Hollow(history)
  <2>1. Sound(history)
    BY <1>1, WaitingIs, SoundWhole
  <2> QED BY <1>1, <2>1, HeldByOne
<1> QED BY <1>2, <1>3, <1>4, <1>5 DEF ConvInv

(* Every step keeps it. *)
LEMMA ConvSteps ==
  ASSUME ConvInv, [ConvNext]_convVars
  PROVE  ConvInv' /\ ConvKept
<1>1. CASE UNCHANGED convVars
  BY <1>1 DEF convVars, ConvInv, ConvTypes, ConvRun, WorkRemembered, ConvKept, Stuck
<1>2. CASE ConvNext
  BY Zenon, <1>2, StepUserSpeaks, StepCompose, StepAborted, StepRefused, StepReplied, StepRunTools, StepContextExceeded,
     StepCompressedByOthers, StepConvRestart DEF ConvNext
<1> QED BY <1>1, <1>2

(* Why a request is refused. *)
LEMMA Explained ==
  ASSUME ConvInv
  PROVE  RefusalsExplained
<1> SUFFICES ASSUME run.at = "request"
             PROVE  /\ Verdict(Request) = "orphan" => OrphanedInput(run.input)
                    /\ Verdict(Request) = "blind" => ~(MediaIn(run.input) \subseteq Seen)
                    /\ Verdict(Request) = "hollow" => convCount.restarts > 0 /\ MediaIn(run.input) # {}
                    /\ Verdict(Request) = "unsupported" =>
                         \/ ~(MediaIn(run.input) \subseteq {"image", "audio", "video"})
                         \/ \E k \in DOMAIN run.input :
                               run.input[k].role = "assistant" /\ run.input[k].content.type = "multi_modal"
  BY Zenon DEF RefusalsExplained
<1>1. PICK ms : ms = run.input
  OBVIOUS
<1>2. ms \in Seq(Posted) /\ Given(ms, convCount.restarts) /\ convCount \in Counts
  BY Zenon, <1>1, AtRequest, AtRest
<1>3. /\ Verdict(Request) = "unsupported" => Odd(ms)
      /\ Verdict(Request) = "orphan" => ~Coherent(ms)
      /\ Verdict(Request) = "blind" => \E k \in DOMAIN ms : \E p : Carried(ms[k], p) /\ p.kind \notin Seen
      /\ Verdict(Request) = "hollow" => Hollow(ms)
  BY Zenon, <1>1, <1>2, AcceptableIs
<1>4. \A k \in DOMAIN ms : \A p : p \in MediaOf(ms[k].content) => p.kind \in MediaIn(ms)
  <2>1. \A c, p : p \in MediaOf(c) => p.kind \in MediaKinds(c)
    BY DEF MediaKinds, MediaOf
  <2>2. \A k \in DOMAIN ms : MediaKinds(ms[k].content) \subseteq MediaIn(ms)
    BY DEF MediaIn
  <2> QED BY <2>1, <2>2
<1>5. \A k \in DOMAIN ms : \A p : Carried(ms[k], p) => p.kind \in MediaIn(ms)
  BY Zenon, <1>4 DEF Carried
<1>6. Verdict(Request) = "blind" => ~(MediaIn(ms) \subseteq Seen)
  BY <1>3, <1>5
<1>7. Verdict(Request) = "hollow" => convCount.restarts > 0 /\ MediaIn(ms) # {}
  <2>1. Hollow(ms) => MediaIn(ms) # {}
    <3>1. Hollow(ms) => \E x : x \in MediaIn(ms)
      BY Zenon, <1>5 DEF Hollow
    <3> QED BY <3>1
  <2>2. Hollow(ms) => convCount.restarts # 0
    BY Zenon, <1>2 DEF Given
  <2> QED BY <1>2, <1>3, <2>1, <2>2 DEF Counts
<1>8. Odd(ms) => \/ ~(MediaIn(ms) \subseteq {"image", "audio", "video"})
                 \/ \E k \in DOMAIN ms : ms[k].role = "assistant" /\ ms[k].content.type = "multi_modal"
  <2>1. ASSUME NEW k \in DOMAIN ms, Unsendable(ms[k])
        PROVE  \/ ~(MediaIn(ms) \subseteq {"image", "audio", "video"})
               \/ ms[k].role = "assistant" /\ ms[k].content.type = "multi_modal"
    <3>1. CASE ms[k] \in UserMessages /\ \E p \in MediaOf(ms[k].content) : p.kind \notin {"image", "audio", "video"}
      BY <1>4, <3>1
    <3>2. CASE ms[k] \in AgentMessages /\ ms[k].content.type = "multi_modal"
      BY <3>2 DEF AgentMessages
    <3> QED BY Zenon, <2>1, <3>1, <3>2 DEF Unsendable
  <2> QED BY Zenon, <2>1 DEF Odd
<1> QED BY Zenon, <1>1, <1>2, <1>3, <1>6, <1>7, <1>8 DEF Given

(* What the runs check of a state follows from the invariant. *)
LEMMA ConvSafe ==
  ASSUME ConvInv
  PROVE  RefusalsExplained /\ WorkRemembered /\ ExchangesWhole
<1>1. WorkRemembered /\ history \in Seq(Spoken) /\ Sound(history)
  BY Zenon, AtRest
<1>2. ~Orphaned(history) => Coherent(history)
  BY Zenon, <1>1, SoundUncut
<1>3. ExchangesWhole
  BY Zenon, <1>2 DEF ExchangesWhole, Coherent
<1> QED BY Zenon, <1>1, <1>3, Explained

(* The conversation stays usable: a request is refused for one of four     *)
(* reasons only, of what the run was given; no record of what was done is  *)
(* lost; calls and results stay together; a session whose history begins   *)
(* with an orphan gets out of it by a compression from outside its runs    *)
(* only; and a restart brings back what was stored (react.go,              *)
(* session_memory.go, converter.go, message.go).                           *)
THEOREM StaysUsable ==
  ConvInit /\ [][ConvNext]_convVars => ConversationUsable
<1>1. ConvInit => ConvInv
  BY ConvStarts
<1>2. ConvInv /\ [ConvNext]_convVars => ConvInv'
  BY ConvSteps
<1>3. ConvInv => RefusalsExplained /\ WorkRemembered /\ ExchangesWhole
  BY ConvSafe
<1>4. ConvInv /\ [ConvNext]_convVars => [Stuck => Stuck' \/ (Len(history') < Len(history) /\ UNCHANGED run)]_convVars
  BY ConvSteps DEF ConvKept
<1>5. ConvInv /\ [ConvNext]_convVars =>
        [convCount'.restarts # convCount.restarts =>
          /\ Len(history') = Len(history)
          /\ \A k \in DOMAIN history :
               /\ CallsOf(history'[k].content) = CallsOf(history[k].content)
               /\ TextIn(history'[k].content) = TextIn(history[k].content)
               /\ history'[k].content.type = history[k].content.type
               /\ MediaKinds(history'[k].content) = MediaKinds(history[k].content)]_convVars
  BY ConvSteps DEF ConvKept
<1> QED BY <1>1, <1>2, <1>3, <1>4, <1>5, PTL DEF ConversationUsable, OrphanStays, ReloadFaithful
=============================================================================
