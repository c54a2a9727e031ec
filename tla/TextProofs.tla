----------------------------- MODULE TextProofs -----------------------------
(***************************************************************************)
(* Proofs about the texts of the page: what escapeLabel writes, a          *)
(* character at a time, and that Prometheus reads from it what was meant.  *)
(***************************************************************************)
EXTENDS Scrape, SequenceLemmas

\* The texts over an alphabet.
Text(T) == Seq(T)

\* What becomes of a character.
Put(c, old, new) == IF c = old THEN new ELSE <<c>>

\* strings.ReplaceAll of an empty text is empty.
LEMMA SubstituteEmpty == \A old, new : Substitute(<<>>, old, new) = <<>>
<1>1. ASSUME NEW old, NEW new
      PROVE  [i \in DOMAIN <<>> |-> IF <<>>[i] = old THEN new ELSE <<<<>>[i]>>] = <<>>
  OBVIOUS
<1> QED
  BY <1>1, FlattenEmpty DEF Substitute

\* strings.ReplaceAll works piece by piece: what it does to a text does not depend on
\* what follows.
LEMMA SubstituteAppend ==
  ASSUME NEW T, NEW text \in Text(T), NEW c \in T, NEW old, NEW new \in Text(T)
  PROVE  /\ Substitute(text, old, new) \in Text(T)
         /\ Substitute(Append(text, c), old, new) = Substitute(text, old, new) \o Put(c, old, new)
<1> USE DEF Text
<1> DEFINE n     == Len(text)
           longer == Append(text, c)
           parts == [i \in DOMAIN text |-> Put(text[i], old, new)]
           more  == [i \in DOMAIN longer |-> Put(longer[i], old, new)]
<1>1. /\ n \in Nat /\ DOMAIN text = 1..n /\ \A i \in 1..n : text[i] \in T
      /\ longer \in Seq(T) /\ Len(longer) = n + 1 /\ DOMAIN longer = 1..n + 1
      /\ \A i \in 1..n : longer[i] = text[i]
      /\ longer[n + 1] = c
  BY LenProperties, ElementOfSeq, AppendProperties
<1>2. \A d \in T : Put(d, old, new) \in Seq(T)
  BY DEF Put
<1> HIDE DEF longer, n
<1>3. parts \in Seq(Seq(T)) /\ Len(parts) = n /\ more \in Seq(Seq(T)) /\ Len(more) = n + 1
  BY <1>1, <1>2
<1>4. /\ \A i \in 1..n : parts[i] = Put(text[i], old, new)
      /\ \A i \in 1..n + 1 : more[i] = Put(longer[i], old, new)
  BY <1>1
<1>5. Substitute(text, old, new) = FlattenSeq(parts) /\ Substitute(longer, old, new) = FlattenSeq(more)
  BY DEF Substitute, Put
<1> HIDE DEF parts, more
<1>6. more = Append(parts, Put(c, old, new))
  <2>1. Put(c, old, new) \in Seq(T)
    BY <1>2
  <2>2. /\ Append(parts, Put(c, old, new)) \in Seq(Seq(T))
        /\ Len(Append(parts, Put(c, old, new))) = n + 1
        /\ \A i \in 1..n : Append(parts, Put(c, old, new))[i] = parts[i]
        /\ Append(parts, Put(c, old, new))[n + 1] = Put(c, old, new)
    BY <1>3, <2>1, AppendProperties
  <2>3. \A i \in 1..n + 1 : more[i] = Append(parts, Put(c, old, new))[i]
    BY <1>1, <1>4, <2>2
  <2> QED
    BY <1>3, <2>2, <2>3, SeqEqual
<1>7. FlattenSeq(more) = FlattenSeq(parts) \o Put(c, old, new) /\ FlattenSeq(parts) \in Seq(T)
  BY <1>2, <1>3, <1>6, FlattenAppend, FlattenType
<1> QED
  BY <1>5, <1>7 DEF longer

\* The pieces that escaping is about are different ones.
LEMMA Different ==
  /\ Backslash # Newline /\ Backslash # Quote /\ Newline # Quote
  /\ "n" # Backslash /\ "n" # Newline /\ "n" # Quote
BY DEF Backslash, Newline, Quote

\* Append, with what the provers know of it out of sight.
Plus(text, c) == Append(text, c)

\* A character replaced by two.
Replace(text, old, a, b) == Substitute(text, old, <<a, b>>)

\* A text with a piece more is a text.
LEMMA PlusText ==
  ASSUME NEW T, NEW text \in Text(T), NEW c \in T
  PROVE  Plus(text, c) \in Text(T)
BY DEF Text, Plus

\* The same for the three replacements of Escape, which put two pieces for one.
LEMMA ReplaceAppend ==
  ASSUME NEW T, NEW text \in Text(T), NEW c \in T, NEW old, NEW a \in T, NEW b \in T
  PROVE  /\ Replace(text, old, a, b) \in Text(T)
         /\ c # old => Replace(Plus(text, c), old, a, b) = Plus(Replace(text, old, a, b), c)
         /\ c = old => Replace(Plus(text, c), old, a, b)
                         = Plus(Plus(Replace(text, old, a, b), a), b)
<1> DEFINE new == <<a, b>>
           s   == Substitute(text, old, new)
<1>1. new \in Text(T)
  BY DEF Text
<1> HIDE DEF new
<1>2. s \in Text(T) /\ Substitute(Plus(text, c), old, new) = s \o Put(c, old, new)
  BY <1>1, SubstituteAppend DEF Plus
<1> HIDE DEF s
<1>3. s \in Seq(T)
  BY <1>2 DEF Text
<1>4. s \o <<c>> = Plus(s, c) /\ s \o <<a, b>> = Plus(Plus(s, a), b)
  BY <1>3 DEF Plus
<1>5. c # old => Put(c, old, new) = <<c>>
  BY DEF Put
<1>6. c = old => Put(c, old, new) = <<a, b>>
  BY DEF Put, new
<1> QED
  BY <1>2, <1>4, <1>5, <1>6 DEF Replace, s, new

\* An empty label value is written as it is.
LEMMA EscapeEmpty == Escape(<<>>) = <<>>
BY SubstituteEmpty DEF Escape

\* The pieces that a reader of the text format treats in a way of their own.
Escapes == {Backslash, Newline, Quote, "n"}

\* escapeLabel, a character at a time.
LEMMA EscapeAppend ==
  ASSUME NEW T, Escapes \subseteq T, NEW text \in Text(T), NEW c \in T
  PROVE  /\ Escape(text) \in Text(T)
         /\ c = Backslash => Escape(Plus(text, c)) = Plus(Plus(Escape(text), Backslash), Backslash)
         /\ c = Newline   => Escape(Plus(text, c)) = Plus(Plus(Escape(text), Backslash), "n")
         /\ c = Quote     => Escape(Plus(text, c)) = Plus(Plus(Escape(text), Backslash), Quote)
         /\ c \notin {Backslash, Newline, Quote} => Escape(Plus(text, c)) = Plus(Escape(text), c)
<1> DEFINE B(t) == Replace(t, Backslash, Backslash, Backslash)
           N(t) == Replace(t, Newline, Backslash, "n")
           Q(t) == Replace(t, Quote, Backslash, Quote)
<1>1. Backslash \in T /\ Newline \in T /\ Quote \in T /\ "n" \in T
  BY DEF Escapes
<1>2. \A t : Escape(t) = Q(N(B(t)))
  BY DEF Escape, Replace
<1>3. \A t \in Text(T) : B(t) \in Text(T) /\ N(t) \in Text(T) /\ Q(t) \in Text(T)
  BY <1>1, ReplaceAppend
<1>4. \A t \in Text(T), d \in T :
        /\ d # Backslash => B(Plus(t, d)) = Plus(B(t), d)
        /\ d # Newline => N(Plus(t, d)) = Plus(N(t), d)
        /\ d # Quote => Q(Plus(t, d)) = Plus(Q(t), d)
        /\ d = Backslash => B(Plus(t, d)) = Plus(Plus(B(t), Backslash), Backslash)
        /\ d = Newline => N(Plus(t, d)) = Plus(Plus(N(t), Backslash), "n")
        /\ d = Quote => Q(Plus(t, d)) = Plus(Plus(Q(t), Backslash), Quote)
  <2> SUFFICES ASSUME NEW t \in Text(T), NEW d \in T
               PROVE  /\ d # Backslash => B(Plus(t, d)) = Plus(B(t), d)
                      /\ d # Newline => N(Plus(t, d)) = Plus(N(t), d)
                      /\ d # Quote => Q(Plus(t, d)) = Plus(Q(t), d)
                      /\ d = Backslash => B(Plus(t, d)) = Plus(Plus(B(t), Backslash), Backslash)
                      /\ d = Newline => N(Plus(t, d)) = Plus(Plus(N(t), Backslash), "n")
                      /\ d = Quote => Q(Plus(t, d)) = Plus(Plus(Q(t), Backslash), Quote)
    OBVIOUS
  <2>1. /\ d # Backslash => B(Plus(t, d)) = Plus(B(t), d)
        /\ d = Backslash => B(Plus(t, d)) = Plus(Plus(B(t), Backslash), Backslash)
    BY <1>1, ReplaceAppend
  <2>2. /\ d # Newline => N(Plus(t, d)) = Plus(N(t), d)
        /\ d = Newline => N(Plus(t, d)) = Plus(Plus(N(t), Backslash), "n")
    BY <1>1, ReplaceAppend
  <2>3. /\ d # Quote => Q(Plus(t, d)) = Plus(Q(t), d)
        /\ d = Quote => Q(Plus(t, d)) = Plus(Plus(Q(t), Backslash), Quote)
    BY <1>1, ReplaceAppend
  <2> QED
    BY <2>1, <2>2, <2>3
<1> HIDE DEF B, N, Q
<1> DEFINE b == B(text)
           n == N(b)
<1>5. b \in Text(T) /\ n \in Text(T) /\ Q(n) \in Text(T) /\ Escape(text) = Q(n)
  BY <1>2, <1>3
<1>6. /\ Plus(b, Backslash) \in Text(T) /\ Plus(n, Backslash) \in Text(T)
      /\ \A d \in T : Plus(b, d) \in Text(T) /\ Plus(n, d) \in Text(T)
  BY <1>1, <1>5, PlusText
<1>7. Escape(Plus(text, c)) = Q(N(B(Plus(text, c))))
  BY <1>2
<1>8. B(text) = b /\ N(b) = n
  OBVIOUS
<1> HIDE DEF b, n
<1>9. CASE c = Backslash
  <2>1. B(Plus(text, c)) = Plus(Plus(b, Backslash), Backslash)
    BY <1>4, <1>8, <1>9
  <2>2. N(Plus(Plus(b, Backslash), Backslash)) = Plus(Plus(n, Backslash), Backslash)
    <3>1. N(Plus(b, Backslash)) = Plus(n, Backslash)
      BY <1>1, <1>4, <1>5, <1>8, Different
    <3> QED
      BY <1>1, <1>4, <1>6, <3>1, Different
  <2>3. Q(Plus(Plus(n, Backslash), Backslash)) = Plus(Plus(Q(n), Backslash), Backslash)
    <3>1. Q(Plus(n, Backslash)) = Plus(Q(n), Backslash)
      BY <1>1, <1>4, <1>5, Different
    <3> QED
      BY <1>1, <1>4, <1>6, <3>1, Different
  <2> QED
    BY <1>5, <1>7, <1>9, <2>1, <2>2, <2>3, Different
<1>10. CASE c = Newline
  <2>1. B(Plus(text, c)) = Plus(b, Newline)
    BY <1>4, <1>8, <1>10, Different
  <2>2. N(Plus(b, Newline)) = Plus(Plus(n, Backslash), "n")
    BY <1>1, <1>4, <1>5, <1>8
  <2>3. Q(Plus(Plus(n, Backslash), "n")) = Plus(Plus(Q(n), Backslash), "n")
    <3>1. Q(Plus(n, Backslash)) = Plus(Q(n), Backslash)
      BY <1>1, <1>4, <1>5, Different
    <3> QED
      BY <1>1, <1>4, <1>6, <3>1, Different
  <2> QED
    BY <1>5, <1>7, <1>10, <2>1, <2>2, <2>3, Different
<1>11. CASE c = Quote
  <2>1. B(Plus(text, c)) = Plus(b, Quote)
    BY <1>4, <1>8, <1>11, Different
  <2>2. N(Plus(b, Quote)) = Plus(n, Quote)
    BY <1>1, <1>4, <1>5, <1>8, Different
  <2>3. Q(Plus(n, Quote)) = Plus(Plus(Q(n), Backslash), Quote)
    BY <1>1, <1>4, <1>5
  <2> QED
    BY <1>5, <1>7, <1>11, <2>1, <2>2, <2>3, Different
<1>12. CASE c \notin {Backslash, Newline, Quote}
  <2>1. B(Plus(text, c)) = Plus(b, c)
    BY <1>4, <1>8, <1>12
  <2>2. N(Plus(b, c)) = Plus(n, c)
    BY <1>4, <1>5, <1>8, <1>12
  <2>3. Q(Plus(n, c)) = Plus(Q(n), c)
    BY <1>4, <1>5, <1>12
  <2> QED
    BY <1>5, <1>7, <1>12, <2>1, <2>2, <2>3
<1> QED
  BY <1>5, <1>9, <1>10, <1>11, <1>12

-----------------------------------------------------------------------------
\* Where a reader of a label begins.
Start == [text |-> <<>>, escaped |-> FALSE, closed |-> FALSE, ok |-> TRUE]

\* Where it is after these characters.
After(seq) == FoldLeft(ReadPiece, Start, seq)

\* What the reader of a label value keeps.
Readers(T) == [text : Text(T), escaped : BOOLEAN, closed : BOOLEAN, ok : BOOLEAN]

\* Reading a piece keeps the reader's type.
LEMMA ReadPieceType ==
  ASSUME NEW T, Newline \in T, NEW r \in Readers(T), NEW c \in T
  PROVE  ReadPiece(r, c) \in Readers(T)
<1>1. /\ r.text \in Seq(T) /\ r.escaped \in BOOLEAN /\ r.closed \in BOOLEAN /\ r.ok \in BOOLEAN
      /\ r = [text |-> r.text, escaped |-> r.escaped, closed |-> r.closed, ok |-> r.ok]
  BY DEF Readers, Text
<1>2. Append(r.text, c) \in Seq(T) /\ Append(r.text, IF c = "n" THEN Newline ELSE c) \in Seq(T)
  BY <1>1, AppendProperties
<1>3. CASE r.closed \/ ~r.ok
  BY <1>1, <1>3 DEF ReadPiece, Readers, Text
<1>4. CASE ~r.closed /\ r.ok /\ r.escaped
  <2> DEFINE more == Append(r.text, IF c = "n" THEN Newline ELSE c)
             known == c \in {"n", Backslash, Quote}
  <2>1. ReadPiece(r, c) = [text |-> more, escaped |-> FALSE, closed |-> r.closed, ok |-> known]
    BY <1>1, <1>4 DEF ReadPiece
  <2>2. more \in Seq(T) /\ known \in BOOLEAN
    BY <1>2
  <2> HIDE DEF more, known
  <2> QED
    BY <1>1, <2>1, <2>2 DEF Readers, Text
<1>5. CASE ~r.closed /\ r.ok /\ ~r.escaped
  <2>1. ReadPiece(r, c) = IF c = Backslash THEN [r EXCEPT !.escaped = TRUE]
                          ELSE IF c = Quote THEN [r EXCEPT !.closed = TRUE]
                          ELSE [r EXCEPT !.text = Append(@, c), !.ok = c # Newline]
    BY <1>5 DEF ReadPiece
  <2> QED
    BY <1>1, <1>2, <2>1 DEF Readers, Text
<1> QED
  BY <1>1, <1>3, <1>4, <1>5

\* g reads the characters at these places.
Reads(g, seq) ==
  g = [s \in SUBSET DOMAIN seq |->
         IF s = {} THEN Start ELSE ReadPiece(g[s \ {Max(s)}], seq[Max(s)])]

\* A set of numbers up to n that is not empty has a greatest one.
LEMMA MaxOfSubset ==
  ASSUME NEW n \in Nat, NEW s \in SUBSET (1..n), s # {}
  PROVE  Max(s) \in s
<1> DEFINE A == {n - i : i \in s}
<1>1. A \in SUBSET Nat /\ A # {}
  <2>1. \A i \in s : n - i \in Nat
    OBVIOUS
  <2>2. PICK i \in s : TRUE
    OBVIOUS
  <2>3. n - i \in A
    OBVIOUS
  <2>4. \A a \in A : a \in Nat
    BY <2>1
  <2> HIDE DEF A
  <2> QED
    BY <2>3, <2>4
<1>2. PICK a \in A : \A b \in A : a <= b
  <2> HIDE DEF A
  <2> QED
    BY <1>1, Least
<1>3. PICK m \in s : a = n - m
  OBVIOUS
<1>4. ASSUME NEW i \in s PROVE m >= i
  <2>1. n - m <= n - i /\ i \in Nat /\ m \in Nat
    BY <1>2, <1>3
  <2> QED
    BY <2>1
<1>5. \E x \in s : \A y \in s : x >= y
  BY <1>4
<1> QED
  BY <1>5 DEF Max

\* The greatest of 1 to n is n.
LEMMA MaxOfInterval ==
  ASSUME NEW n \in Nat \ {0}
  PROVE  Max(1..n) = n /\ (1..n) \ {n} = 1..n - 1
<1>1. \A m \in 1..n : (\A y \in 1..n : m >= y) => m = n
  OBVIOUS
<1>2. n \in 1..n /\ \A y \in 1..n : n >= y
  OBVIOUS
<1> QED
  BY <1>1, <1>2 DEF Max

\* Reading a text is what the fold comes to at its last index.
LEMMA AfterBy ==
  ASSUME NEW T, Newline \in T, NEW seq \in Text(T)
  PROVE  \E g : Reads(g, seq) /\ After(seq) = g[DOMAIN seq]
<1> DEFINE S      == DOMAIN seq
           step   == [x \in S \X Readers(T) |-> ReadPiece(x[2], seq[x[1]])]
           choice == [s \in SUBSET S |-> Max(s)]
<1>1. /\ Len(seq) \in Nat /\ S = 1..Len(seq) /\ \A i \in S : seq[i] \in T
  BY DEF Text
<1>2. IsFiniteSet(S)
  BY <1>1, FS_Interval
<1>3. \A s \in SUBSET S : s # {} => choice[s] \in s
  BY <1>1, MaxOfSubset
<1>4. IsStep(step, S, Readers(T))
  BY <1>1, ReadPieceType DEF IsStep
<1>5. Start \in Readers(T)
  BY DEF Start, Readers, Text
<1>6. /\ \A i \in S, r \in Readers(T) : step[<<i, r>>] = ReadPiece(r, seq[i])
      /\ \A s \in SUBSET S : choice[s] = Max(s)
  OBVIOUS
<1> HIDE DEF S, step, choice
<1>7. PICK f : f \in [SUBSET S -> Readers(T)] /\ Folds(f, S, Start, step, choice)
  BY <1>2, <1>3, <1>4, <1>5, SetRecursion
<1>8. ASSUME NEW s \in SUBSET S
      PROVE  f[s] = IF s = {} THEN Start ELSE ReadPiece(f[s \ {Max(s)}], seq[Max(s)])
  <2>1. CASE s = {}
    BY <1>7, <2>1 DEF Folds
  <2>2. CASE s # {}
    <3>1. f[s] = step[<<Max(s), f[s \ {Max(s)}]>>] /\ Max(s) \in S
      BY <1>3, <1>6, <1>7, <2>2 DEF Folds
    <3>2. f[s \ {Max(s)}] \in Readers(T)
      BY <1>7
    <3> QED
      BY <1>6, <2>2, <3>1, <3>2
  <2> QED
    BY <2>1, <2>2
<1>9. Reads(f, seq)
  <2>1. f = [s \in SUBSET S |-> f[s]]
    BY <1>7
  <2> QED
    BY <1>8, <2>1 DEF Reads, S
<1>10. After(seq) = (CHOOSE g : Reads(g, seq))[S]
  BY DEF After, FoldLeft, MapThenFoldSet, Reads, S
<1>11. Reads(CHOOSE g : Reads(g, seq), seq)
  BY <1>9
<1> QED
  BY <1>10, <1>11 DEF S

\* A reader that has read nothing is where it started.
LEMMA AfterEmpty == After(<<>>) = Start
<1>1. <<>> \in Text({Newline}) /\ DOMAIN <<>> = {}
  BY DEF Text
<1>2. PICK g : Reads(g, <<>>) /\ After(<<>>) = g[{}]
  BY <1>1, AfterBy
<1>3. {} \in SUBSET DOMAIN <<>>
  OBVIOUS
<1> QED
  BY <1>2, <1>3 DEF Reads

\* One piece more is read from where the text before it has left the reader.
LEMMA AfterPlus ==
  ASSUME NEW T, Newline \in T, NEW seq \in Text(T), NEW c \in T
  PROVE  After(Plus(seq, c)) = ReadPiece(After(seq), c)
<1> DEFINE n == Len(seq)
           longer == Append(seq, c)
<1>1. /\ n \in Nat /\ DOMAIN seq = 1..n
      /\ longer \in Text(T) /\ DOMAIN longer = 1..n + 1
      /\ \A i \in 1..n : longer[i] = seq[i]
      /\ longer[n + 1] = c
  BY LenProperties, AppendProperties DEF Text
<1> HIDE DEF n, longer
<1>2. PICK g : Reads(g, seq) /\ After(seq) = g[1..n]
  BY <1>1, AfterBy
<1>3. PICK h : Reads(h, longer) /\ After(longer) = h[1..n + 1]
  BY <1>1, AfterBy
<1>4. ASSUME NEW i \in 1..n
      PROVE  g[1..i] = ReadPiece(g[1..i - 1], seq[i])
  <2>1. i \in Nat \ {0} /\ 1 \in 1..i /\ \A k \in 1..i : k \in 1..n
    BY <1>1
  <2>2. Max(1..i) = i /\ (1..i) \ {i} = 1..i - 1
    BY <2>1, MaxOfInterval
  <2> QED
    BY <1>1, <1>2, <2>1, <2>2 DEF Reads
<1>5. ASSUME NEW i \in 1..n + 1
      PROVE  h[1..i] = ReadPiece(h[1..i - 1], longer[i])
  <2>1. i \in Nat \ {0} /\ 1 \in 1..i /\ \A k \in 1..i : k \in 1..n + 1
    BY <1>1
  <2>2. Max(1..i) = i /\ (1..i) \ {i} = 1..i - 1
    BY <2>1, MaxOfInterval
  <2> QED
    BY <1>1, <1>3, <2>1, <2>2 DEF Reads
<1>6. g[{}] = h[{}]
  BY <1>1, <1>2, <1>3 DEF Reads
<1> DEFINE A == {i \in Nat : i <= n => g[1..i] = h[1..i]}
<1>7. 0 \in A
  <2>1. 1..0 = {}
    OBVIOUS
  <2> QED
    BY <1>6, <2>1
<1>8. ASSUME NEW i \in Nat, i \in A PROVE i + 1 \in A
  <2> SUFFICES ASSUME i + 1 <= n PROVE g[1..i + 1] = h[1..i + 1]
    OBVIOUS
  <2>1. g[1..i] = h[1..i] /\ i + 1 \in 1..n /\ i + 1 \in 1..n + 1 /\ i + 1 - 1 = i
    BY <1>1, <1>8
  <2>2. g[1..i + 1] = ReadPiece(g[1..i], seq[i + 1])
    BY <1>4, <2>1
  <2>3. h[1..i + 1] = ReadPiece(h[1..i], longer[i + 1])
    BY <1>5, <2>1
  <2> QED
    BY <1>1, <2>1, <2>2, <2>3
<1>9. n \in A
  <2> HIDE DEF A
  <2> QED
    BY <1>1, <1>7, <1>8, Induction
<1>10. g[1..n] = h[1..n]
  BY <1>9
<1>11. h[1..n + 1] = ReadPiece(h[1..n], c)
  <2>1. n + 1 \in 1..n + 1 /\ n + 1 - 1 = n
    BY <1>1
  <2> QED
    BY <1>1, <1>5, <2>1
<1> QED
  BY <1>2, <1>3, <1>10, <1>11 DEF longer, Plus

\* Induction on texts.
LEMMA TextInduction ==
  ASSUME NEW T, NEW P, <<>> \in P, \A s \in Text(T), c \in T : s \in P => Plus(s, c) \in P
  PROVE  Text(T) \subseteq P
<1> DEFINE A == {n \in Nat : \A s \in Seq(T) : Len(s) = n => s \in P}
<1>1. 0 \in A
  <2>1. \A s \in Seq(T) : Len(s) = 0 => s = <<>>
    OBVIOUS
  <2> QED
    BY <2>1
<1>2. ASSUME NEW n \in Nat, n \in A PROVE n + 1 \in A
  <2> SUFFICES ASSUME NEW s \in Seq(T), Len(s) = n + 1 PROVE s \in P
    OBVIOUS
  <2>1. s # <<>>
    BY EmptySeq
  <2>2. PICK t \in Seq(T), c \in T : s = Append(t, c)
    BY <2>1, SequenceEmptyOrAppend
  <2>3. Len(t) = n
    BY <2>2, AppendProperties, LenProperties
  <2>4. t \in P
    BY <1>2, <2>3
  <2> QED
    BY <2>2, <2>4 DEF Text, Plus
<1>3. Nat \subseteq A
  <2> HIDE DEF A
  <2> QED
    BY <1>1, <1>2, Induction
<1>4. ASSUME NEW s \in Text(T) PROVE s \in P
  <2>1. Len(s) \in A /\ s \in Seq(T)
    BY <1>3 DEF Text
  <2> QED
    BY <2>1
<1> QED
  BY <1>4

\* Nothing is left to read of what it has read so far.
Reading(text) == [text |-> text, escaped |-> FALSE, closed |-> FALSE, ok |-> TRUE]

\* What the reader makes of each escape, of any other piece and of the closing quote.
LEMMA ReadOne ==
  ASSUME NEW text, NEW c
  PROVE  /\ ReadPiece(ReadPiece(Reading(text), Backslash), Backslash) = Reading(Plus(text, Backslash))
         /\ ReadPiece(ReadPiece(Reading(text), Backslash), "n") = Reading(Plus(text, Newline))
         /\ ReadPiece(ReadPiece(Reading(text), Backslash), Quote) = Reading(Plus(text, Quote))
         /\ c \notin {Backslash, Newline, Quote} =>
              ReadPiece(Reading(text), c) = Reading(Plus(text, c))
         /\ ReadPiece(Reading(text), Quote) = [Reading(text) EXCEPT !.closed = TRUE]
<1> DEFINE esc == [text |-> text, escaped |-> TRUE, closed |-> FALSE, ok |-> TRUE]
<1>1. ReadPiece(Reading(text), Backslash) = esc
  BY DEF ReadPiece, Reading
<1>2. ReadPiece(esc, Backslash) = Reading(Append(text, Backslash))
  BY Different DEF ReadPiece, Reading
<1>3. ReadPiece(esc, "n") = Reading(Append(text, Newline))
  BY Different DEF ReadPiece, Reading
<1>4. ReadPiece(esc, Quote) = Reading(Append(text, Quote))
  BY Different DEF ReadPiece, Reading
<1>5. c \notin {Backslash, Newline, Quote} => ReadPiece(Reading(text), c) = Reading(Append(text, c))
  BY DEF ReadPiece, Reading
<1>6. ReadPiece(Reading(text), Quote) = [Reading(text) EXCEPT !.closed = TRUE]
  BY Different DEF ReadPiece, Reading
<1> QED
  BY <1>1, <1>2, <1>3, <1>4, <1>5, <1>6 DEF Plus

\* The reader of an escaped text has the text, and is not in the middle of an escape.
LEMMA ReadsEscape ==
  ASSUME NEW T, Escapes \subseteq T, NEW text \in Text(T)
  PROVE  After(Escape(text)) = Reading(text)
<1> DEFINE P == {t \in Text(T) : After(Escape(t)) = Reading(t)}
<1>1. <<>> \in P
  BY AfterEmpty, EscapeEmpty DEF Start, Reading, Text
<1>2. ASSUME NEW t \in Text(T), NEW c \in T, t \in P PROVE Plus(t, c) \in P
  <2> DEFINE e == Escape(t)
  <2>1. Backslash \in T /\ Newline \in T /\ Quote \in T /\ "n" \in T
    BY DEF Escapes
  <2>2. /\ e \in Text(T)
        /\ c = Backslash => Escape(Plus(t, c)) = Plus(Plus(e, Backslash), Backslash)
        /\ c = Newline   => Escape(Plus(t, c)) = Plus(Plus(e, Backslash), "n")
        /\ c = Quote     => Escape(Plus(t, c)) = Plus(Plus(e, Backslash), Quote)
        /\ c \notin {Backslash, Newline, Quote} => Escape(Plus(t, c)) = Plus(e, c)
    BY EscapeAppend
  <2>3. After(e) = Reading(t)
    BY <1>2
  <2> HIDE DEF e
  <2>4. Plus(e, Backslash) \in Text(T) /\ Plus(t, c) \in Text(T)
    BY <2>1, <2>2, PlusText
  <2>5. After(Plus(e, Backslash)) = ReadPiece(Reading(t), Backslash) /\ After(Plus(e, c)) = ReadPiece(Reading(t), c)
    BY <2>1, <2>2, <2>3, AfterPlus
  <2>6. \A d \in T : After(Plus(Plus(e, Backslash), d)) = ReadPiece(ReadPiece(Reading(t), Backslash), d)
    BY <2>1, <2>4, <2>5, AfterPlus
  <2>7. After(Escape(Plus(t, c))) = Reading(Plus(t, c))
    BY <2>1, <2>2, <2>5, <2>6, ReadOne
  <2> QED
    BY <2>4, <2>7
<1>3. Text(T) \subseteq P
  <2> HIDE DEF P
  <2> QED
    BY <1>1, <1>2, TextInduction
<1> QED
  BY <1>3

\* Whatever a text is made of, a reader of its label gets it back.
THEOREM EscapeReadsBack ==
  ASSUME NEW T, NEW text \in Seq(T)
  PROVE  ReadsBackAs(Escape(text), text)
<1> DEFINE U == T \cup Escapes
           e == Escape(text)
<1>1. Escapes \subseteq U /\ text \in Text(U) /\ Newline \in U /\ Quote \in U
  BY DEF Text, Escapes
<1> HIDE DEF U
<1>2. e \in Text(U)
  BY <1>1, EscapeAppend
<1>3. After(e) = Reading(text)
  BY <1>1, ReadsEscape
<1> HIDE DEF e
<1>4. After(Plus(e, Quote)) = [Reading(text) EXCEPT !.closed = TRUE]
  BY <1>1, <1>2, <1>3, AfterPlus, ReadOne
<1>5. e \o <<Quote>> = Plus(e, Quote)
  BY <1>1, <1>2 DEF Text, Plus
<1>6. ReadLabel(e) = [Reading(text) EXCEPT !.closed = TRUE]
  BY <1>4, <1>5 DEF ReadLabel, After, Start
<1> QED
  BY <1>6 DEF ReadsBackAs, Reading, e

\* No two texts have the same label.
THEOREM EscapeInjective ==
  ASSUME NEW T, NEW s \in Seq(T), NEW t \in Seq(T), Escape(s) = Escape(t)
  PROVE  s = t
<1>1. ReadsBackAs(Escape(s), s) /\ ReadsBackAs(Escape(t), t)
  BY EscapeReadsBack
<1> QED
  BY <1>1 DEF ReadsBackAs

-----------------------------------------------------------------------------
\* Concatenation, out of the provers' sight, and what they need of it.
Join(s, t) == s \o t

\* A text is another one followed by a third.
IsJoin(j, s, t) ==
  /\ Len(s) \in Nat /\ Len(t) \in Nat /\ Len(j) = Len(s) + Len(t)
  /\ \A i \in 1..Len(s) : j[i] = s[i]
  /\ \A i \in 1..Len(t) : j[Len(s) + i] = t[i]

\* Joining two texts gives both, in order.
LEMMA JoinText ==
  ASSUME NEW U, NEW s \in Text(U), NEW t \in Text(U)
  PROVE  Join(s, t) \in Text(U) /\ IsJoin(Join(s, t), s, t)
<1>1. s \in Seq(U) /\ t \in Seq(U) /\ Len(s) \in Nat /\ Len(t) \in Nat
  BY DEF Text
<1>2. /\ s \o t \in Seq(U) /\ Len(s \o t) = Len(s) + Len(t)
      /\ \A i \in 1 .. Len(s) + Len(t) : (s \o t)[i] = IF i <= Len(s) THEN s[i] ELSE t[i - Len(s)]
  BY <1>1, ConcatProperties
<1>3. \A i \in 1..Len(t) : (s \o t)[Len(s) + i] = t[i]
  BY <1>1, <1>2
<1> QED
  BY <1>1, <1>2, <1>3 DEF Join, IsJoin, Text

\* What is written around the names of hosts.
Marks(hosts) == {Comma, Times} \cup {Numeral(n) : n \in DOMAIN hosts}

\* A list LSF may give, with the hosts and the blanks in it.
HostList(hosts) ==
  /\ hosts \in Seq(ToSet(hosts))
  /\ \A h \in ToSet(hosts) \ {NoText} : \E name : h = <<name>> /\ name \notin Marks(hosts)

Slots(hosts, h)  == Cardinality({k \in DOMAIN hosts : hosts[k] = h})
\* The hosts named before place i, and the separator its item begins with.
Before(hosts, i) == {hosts[k] : k \in 1..i - 1} \ {NoText}
Sep(hosts, i)    == IF Before(hosts, i) = {} THEN <<>> ELSE <<Comma>>

\* What formatExecutionHosts writes for the host at this place.
HostItem(hosts, i) ==
  IF hosts[i] \in Before(hosts, i) \cup {NoText} THEN <<>>
  ELSE Sep(hosts, i) \o HostText(hosts[i], Slots(hosts, hosts[i]))

\* The items of the hosts, in order.
HostItems(hosts) == [i \in DOMAIN hosts |-> HostItem(hosts, i)]

\* formatExecutionHosts writes its items one behind the other.
LEMMA FormatByItems == \A hosts : FormatExecutionHosts(hosts) = FlattenSeq(HostItems(hosts))
BY DEF FormatExecutionHosts, HostItems, HostItem, Slots, Before, Sep

\* A host has a slot at least.
LEMMA SlotsType ==
  ASSUME NEW hosts, HostList(hosts), NEW i \in DOMAIN hosts
  PROVE  Slots(hosts, hosts[i]) \in DOMAIN hosts /\ Slots(hosts, hosts[i]) \in Nat \ {0}
<1> DEFINE S == {k \in DOMAIN hosts : hosts[k] = hosts[i]}
           n == Len(hosts)
<1>1. n \in Nat /\ DOMAIN hosts = 1..n
  BY DEF HostList
<1> HIDE DEF n
<1>2. IsFiniteSet(1..n) /\ Cardinality(1..n) = n
  BY <1>1, FS_Interval
<1>3. S \subseteq 1..n /\ i \in S
  BY <1>1
<1> HIDE DEF S
<1>4. IsFiniteSet(S) /\ Cardinality(S) <= n /\ Cardinality(S) \in Nat
  <2>1. IsFiniteSet(S) /\ Cardinality(S) <= Cardinality(1..n)
    BY <1>2, <1>3, FS_Subset
  <2> QED
    BY <1>2, <2>1, FS_CardinalityType
<1>5. Cardinality(S) # 0
  BY <1>3, <1>4, FS_EmptySet
<1> QED
  BY <1>1, <1>4, <1>5 DEF Slots, S

\* An item ends in the name of its host; before it come its slots, if they are
\* more than one, and a comma, if it is not the first.
Item(item, hosts, name, slots, first) ==
  /\ Len(item) \in 1..4 /\ item[Len(item)] = name
  /\ \A q \in 1..Len(item) - 1 : item[q] \in Marks(hosts)
  /\ IF slots = 1 THEN IF first THEN Len(item) = 1 ELSE Len(item) = 2 /\ item[1] = Comma
     ELSE /\ Len(item) > 2 /\ item[Len(item) - 1] = Times
          /\ item[Len(item) - 2] = Numeral(slots)

\* The item of a host that was not named yet: a separator but for the first, the number
\* of slots where it is more than one, and the name.
LEMMA HostItemForm ==
  ASSUME NEW hosts, HostList(hosts), NEW i \in DOMAIN hosts,
         hosts[i] \notin Before(hosts, i) \cup {NoText},
         NEW U, Marks(hosts) \subseteq U, \A h \in ToSet(hosts) : h \in Text(U)
  PROVE  \E name \in U : /\ hosts[i] = <<name>>
                         /\ HostItem(hosts, i) \in Text(U)
                         /\ Item(HostItem(hosts, i), hosts, name, Slots(hosts, hosts[i]),
                                 Before(hosts, i) = {})
<1> DEFINE slots == Slots(hosts, hosts[i])
           first == Before(hosts, i) = {}
           num   == Numeral(slots)
<1>1. slots \in DOMAIN hosts /\ slots \in Nat \ {0}
  BY SlotsType
<1>2. hosts[i] \in ToSet(hosts) \ {NoText} /\ hosts[i] \in Text(U)
  BY DEF ToSet
<1>3. PICK name : hosts[i] = <<name>> /\ name \notin Marks(hosts)
  BY <1>2 DEF HostList
<1>4. name \in U
  BY <1>2, <1>3 DEF Text
<1>5. num \in Marks(hosts) /\ Comma \in Marks(hosts) /\ Times \in Marks(hosts)
  BY <1>1 DEF Marks
<1>6. num \in U /\ Comma \in U /\ Times \in U
  BY <1>5
<1> DEFINE host  == <<name>>
           count == <<num, Times>>
           comma == <<Comma>>
<1>7. HostItem(hosts, i) = Join(Sep(hosts, i), HostText(host, slots))
  BY <1>3 DEF HostItem, Join
<1>8. /\ host \in Text(U) /\ Len(host) = 1 /\ host[1] = name
      /\ count \in Text(U) /\ Len(count) = 2 /\ count[1] = num /\ count[2] = Times
      /\ comma \in Text(U) /\ Len(comma) = 1 /\ comma[1] = Comma
  <2> HIDE DEF num
  <2>1. host \in Seq(U) /\ Len(host) = 1 /\ host[1] = name
    BY <1>4
  <2>2. count \in Seq(U) /\ Len(count) = 2 /\ count[1] = num /\ count[2] = Times
    BY <1>6
  <2>3. comma \in Seq(U) /\ Len(comma) = 1 /\ comma[1] = Comma
    BY <1>6
  <2> QED
    BY <2>1, <2>2, <2>3 DEF Text
<1>9. /\ Sep(hosts, i) = IF first THEN <<>> ELSE comma
      /\ HostText(host, slots) = IF slots > 1 THEN Join(count, host) ELSE host
  BY DEF Sep, HostText, Join
<1> DEFINE text == HostText(host, slots)
           item == HostItem(hosts, i)
<1> HIDE DEF slots, first, num, host, count, comma
<1>10. /\ text \in Text(U)
       /\ slots = 1 => Len(text) = 1 /\ text[1] = name
       /\ slots # 1 => Len(text) = 3 /\ text[1] = num /\ text[2] = Times /\ text[3] = name
  <2> HIDE DEF text
  <2>0. text = IF slots > 1 THEN Join(count, host) ELSE host
    BY <1>9 DEF text
  <2>1. CASE slots = 1
    BY <1>8, <2>0, <2>1
  <2>2. CASE slots # 1
    <3>1. text = Join(count, host)
      BY <1>1, <2>0, <2>2
    <3>2. text \in Text(U) /\ IsJoin(text, count, host)
      BY <1>8, <3>1, JoinText
    <3>3. Len(text) = 3 /\ text[1] = num /\ text[2] = Times
      BY <1>8, <3>2 DEF IsJoin
    <3>4. text[3] = name
      BY <1>8, <3>2 DEF IsJoin
    <3> QED
      BY <2>2, <3>2, <3>3, <3>4
  <2> QED
    BY <2>1, <2>2
<1> HIDE DEF text
<1>11. /\ item \in Text(U)
       /\ first => item = text
       /\ ~first => /\ Len(item) = Len(text) + 1 /\ item[1] = Comma
                    /\ \A k \in 1..Len(text) : item[1 + k] = text[k]
  <2>0. item = Join(Sep(hosts, i), text)
    BY <1>7 DEF text
  <2> HIDE DEF item
  <2>1. CASE first
    <3>1. item = <<>> \o text /\ text \in Seq(U)
      BY <1>9, <1>10, <2>0, <2>1 DEF Join, Text
    <3> QED
      BY <1>10, <2>1, <3>1, ConcatEmptySeq
  <2>2. CASE ~first
    <3>1. item = Join(comma, text)
      BY <1>9, <2>0, <2>2
    <3>2. item \in Text(U) /\ IsJoin(item, comma, text)
      BY <1>8, <1>10, <3>1, JoinText
    <3> QED
      BY <1>8, <2>2, <3>2 DEF IsJoin
  <2> QED
    BY <2>1, <2>2
<1> HIDE DEF item
<1>12. Item(item, hosts, name, slots, first)
  <2>1. CASE slots = 1 /\ first
    <3>1. Len(item) = 1 /\ item[1] = name
      BY <1>10, <1>11, <2>1
    <3> QED
      BY <2>1, <3>1 DEF Item
  <2>2. CASE slots = 1 /\ ~first
    <3>1. Len(item) = 2 /\ item[1] = Comma /\ item[2] = name
      <4>1. Len(text) = 1 /\ text[1] = name /\ Len(item) = 2 /\ item[1] = Comma
        <5>1. Len(text) = 1 /\ text[1] = name
          BY <1>10, <2>2
        <5>2. Len(item) = Len(text) + 1 /\ item[1] = Comma
          BY <1>11, <2>2
        <5> QED
          BY <5>1, <5>2
      <4>2. item[1 + 1] = text[1]
        BY <1>11, <2>2, <4>1
      <4> QED
        BY <4>1, <4>2
    <3> QED
      BY <1>5, <2>2, <3>1 DEF Item
  <2>3. CASE slots # 1 /\ first
    <3>1. Len(item) = 3 /\ item[1] = num /\ item[2] = Times /\ item[3] = name
      BY <1>10, <1>11, <2>3
    <3> QED
      BY <1>5, <2>3, <3>1 DEF Item, num
  <2>4. CASE slots # 1 /\ ~first
    <3>1. Len(item) = 4 /\ item[1] = Comma /\ item[2] = num /\ item[3] = Times /\ item[4] = name
      <4>1. /\ Len(text) = 3 /\ text[1] = num /\ text[2] = Times /\ text[3] = name
            /\ Len(item) = 4 /\ item[1] = Comma
        <5>1. Len(text) = 3 /\ text[1] = num /\ text[2] = Times /\ text[3] = name
          BY <1>10, <2>4
        <5>2. Len(item) = Len(text) + 1 /\ item[1] = Comma
          BY <1>11, <2>4
        <5> QED
          BY <5>1, <5>2
      <4>2. item[1 + 1] = text[1] /\ item[1 + 2] = text[2] /\ item[1 + 3] = text[3]
        BY <1>11, <2>4, <4>1
      <4> QED
        BY <4>1, <4>2
    <3> QED
      BY <1>5, <2>4, <3>1 DEF Item, num
  <2> QED
    BY <2>1, <2>2, <2>3, <2>4
<1> QED
  BY <1>3, <1>4, <1>11, <1>12 DEF slots, first, item

\* A name that is not in a text, and one that is there once, with its slots.
Absent(text, name) == \A q \in 1..Len(text) : text[q] # name

\* A text has a name at one place only, and the right number of slots before it.
NamedOnce(text, name, slots) ==
  \E p \in 1..Len(text) :
    /\ text[p] = name
    /\ \A q \in 1..Len(text) : text[q] = name => q = p
    /\ IF slots = 1 THEN p = 1 \/ (p > 1 /\ text[p - 1] = Comma)
       ELSE p > 2 /\ text[p - 1] = Times /\ text[p - 2] = Numeral(slots)

\* A place of a joined text is a place of either part.
LEMMA Places ==
  ASSUME NEW j, NEW s, NEW t, IsJoin(j, s, t), NEW q \in 1..Len(j)
  PROVE  \/ q \in 1..Len(s) /\ j[q] = s[q]
         \/ \E k \in 1..Len(t) : q = Len(s) + k /\ j[q] = t[k]
<1>1. Len(s) \in Nat /\ Len(t) \in Nat /\ Len(j) = Len(s) + Len(t)
  BY DEF IsJoin
<1>2. CASE q <= Len(s)
  BY <1>1, <1>2 DEF IsJoin
<1>3. CASE q > Len(s)
  <2>1. q - Len(s) \in 1..Len(t) /\ q = Len(s) + (q - Len(s))
    BY <1>1, <1>3
  <2> QED
    BY <2>1 DEF IsJoin
<1> QED
  BY <1>1, <1>2, <1>3

\* What neither part names, the joined text does not name.
LEMMA JoinAbsent ==
  ASSUME NEW j, NEW s, NEW t, IsJoin(j, s, t), NEW name, Absent(s, name), Absent(t, name)
  PROVE  Absent(j, name)
BY Places DEF Absent

\* An item names its own host only.
LEMMA ItemAbsent ==
  ASSUME NEW item, NEW hosts, NEW name, NEW slots, NEW first, Item(item, hosts, name, slots, first),
         NEW other, other # name, other \notin Marks(hosts)
  PROVE  Absent(item, other)
BY DEF Item, Absent

\* What the first part names once and the second does not, the joined text names once.
LEMMA JoinNamed ==
  ASSUME NEW j, NEW s, NEW t, IsJoin(j, s, t), NEW name, NEW slots,
         NamedOnce(s, name, slots), Absent(t, name)
  PROVE  NamedOnce(j, name, slots)
<1>1. PICK p \in 1..Len(s) :
        /\ s[p] = name
        /\ \A q \in 1..Len(s) : s[q] = name => q = p
        /\ IF slots = 1 THEN p = 1 \/ (p > 1 /\ s[p - 1] = Comma)
           ELSE p > 2 /\ s[p - 1] = Times /\ s[p - 2] = Numeral(slots)
  BY DEF NamedOnce
<1>2. Len(s) \in Nat /\ Len(t) \in Nat /\ p \in 1..Len(j) /\ j[p] = name
  BY <1>1 DEF IsJoin
<1>3. ASSUME NEW q \in 1..Len(j), j[q] = name PROVE q = p
  <2>1. \/ q \in 1..Len(s) /\ j[q] = s[q]
        \/ \E k \in 1..Len(t) : q = Len(s) + k /\ j[q] = t[k]
    BY Places
  <2>2. ~ \E k \in 1..Len(t) : q = Len(s) + k /\ j[q] = t[k]
    BY <1>3 DEF Absent
  <2> QED
    BY <1>1, <1>3, <2>1, <2>2
<1>4. /\ p > 1 => j[p - 1] = s[p - 1]
      /\ p > 2 => j[p - 2] = s[p - 2]
  <2>1. p > 1 => p - 1 \in 1..Len(s)
    BY <1>2
  <2>2. p > 2 => p - 2 \in 1..Len(s)
    BY <1>2
  <2> QED
    BY <2>1, <2>2 DEF IsJoin
<1>5. IF slots = 1 THEN p = 1 \/ (p > 1 /\ j[p - 1] = Comma)
      ELSE p > 2 /\ j[p - 1] = Times /\ j[p - 2] = Numeral(slots)
  BY <1>1, <1>4
<1> QED
  BY <1>2, <1>3, <1>5 DEF NamedOnce

\* A host that was not named yet is named once when its item is added.
LEMMA JoinNames ==
  ASSUME NEW j, NEW s, NEW t, IsJoin(j, s, t), NEW hosts, NEW name, NEW slots, NEW first,
         Absent(s, name), Item(t, hosts, name, slots, first), name \notin Marks(hosts),
         first => Len(s) = 0
  PROVE  NamedOnce(j, name, slots)
<1> DEFINE p == Len(s) + Len(t)
<1>1. Len(s) \in Nat /\ Len(t) \in 1..4 /\ Len(j) = p /\ p \in 1..Len(j)
  BY DEF IsJoin, Item
<1>2. j[p] = name
  BY <1>1 DEF IsJoin, Item
<1>3. ASSUME NEW q \in 1..Len(j), j[q] = name PROVE q = p
  <2>1. PICK k \in 1..Len(t) : q = Len(s) + k /\ j[q] = t[k]
    BY <1>3, Places DEF Absent
  <2>2. k = Len(t)
    BY <1>1, <1>3, <2>1 DEF Item
  <2> QED
    BY <2>1, <2>2
<1>4. /\ Len(t) > 1 => p > 1 /\ j[p - 1] = t[Len(t) - 1]
      /\ Len(t) > 2 => p > 2 /\ j[p - 2] = t[Len(t) - 2]
  <2>1. ASSUME Len(t) > 1 PROVE p > 1 /\ j[p - 1] = t[Len(t) - 1]
    <3>1. Len(t) - 1 \in 1..Len(t) /\ p - 1 = Len(s) + (Len(t) - 1) /\ p > 1
      BY <1>1, <2>1
    <3> QED
      BY <3>1 DEF IsJoin
  <2>2. ASSUME Len(t) > 2 PROVE p > 2 /\ j[p - 2] = t[Len(t) - 2]
    <3>1. Len(t) - 2 \in 1..Len(t) /\ p - 2 = Len(s) + (Len(t) - 2) /\ p > 2
      BY <1>1, <2>2
    <3> QED
      BY <3>1 DEF IsJoin
  <2> QED
    BY <2>1, <2>2
<1>5. CASE slots = 1 /\ first
  <2>1. p = 1
    BY <1>1, <1>5 DEF Item
  <2> QED
    BY <1>1, <1>2, <1>3, <1>5, <2>1 DEF NamedOnce
<1>6. CASE slots = 1 /\ ~first
  <2>1. p > 1 /\ j[p - 1] = Comma
    <3>1. Len(t) = 2 /\ t[1] = Comma
      BY <1>6 DEF Item
    <3> QED
      BY <1>4, <3>1
  <2> HIDE DEF p
  <2> QED
    BY <1>1, <1>2, <1>3, <1>6, <2>1 DEF NamedOnce
<1>7. CASE slots # 1
  <2>1. p > 2 /\ j[p - 1] = Times /\ j[p - 2] = Numeral(slots)
    <3>1. Len(t) > 2 /\ t[Len(t) - 1] = Times /\ t[Len(t) - 2] = Numeral(slots)
      BY <1>7 DEF Item
    <3> QED
      BY <1>1, <1>4, <3>1
  <2> HIDE DEF p
  <2> QED
    BY <1>1, <1>2, <1>3, <1>7, <2>1 DEF NamedOnce
<1> QED
  BY <1>5, <1>6, <1>7

\* What stands in execution_host when the first i of the hosts are written.
Written(text, hosts, i, U) ==
  /\ text \in Text(U)
  /\ Before(hosts, i + 1) = {} => Len(text) = 0
  /\ \A name \in U : <<name>> \in ToSet(hosts) =>
       IF <<name>> \in Before(hosts, i + 1)
       THEN NamedOnce(text, name, Slots(hosts, <<name>>)) ELSE Absent(text, name)

\* U has every piece that may be written.
Pieces(U, hosts) == Marks(hosts) \subseteq U /\ \A h \in ToSet(hosts) : h \in Text(U)

\* The next host has one host more before it.
LEMMA BeforeNext ==
  ASSUME NEW hosts, HostList(hosts), NEW i \in DOMAIN hosts
  PROVE  Before(hosts, i + 1) = (Before(hosts, i) \cup {hosts[i]}) \ {NoText}
<1>1. i \in Nat /\ i >= 1
  BY DEF HostList
<1>2. 1..(i + 1) - 1 = (1..i - 1) \cup {i}
  BY <1>1
<1> QED
  BY <1>2 DEF Before

\* No host is called as the marks between the names are.
LEMMA NameOfHost ==
  ASSUME NEW hosts, HostList(hosts), NEW name, <<name>> \in ToSet(hosts)
  PROVE  name \notin Marks(hosts) /\ <<name>> # NoText
<1>1. <<name>> # NoText
  BY DEF NoText
<1>2. PICK other : <<name>> = <<other>> /\ other \notin Marks(hosts)
  BY <1>1 DEF HostList
<1>3. name = other
  BY <1>2
<1> QED
  BY <1>1, <1>2, <1>3

\* Adding an item keeps every host so far named once.
LEMMA WriteNext ==
  ASSUME NEW hosts, HostList(hosts), NEW i \in DOMAIN hosts, NEW U, Pieces(U, hosts),
         NEW text, Written(text, hosts, i - 1, U)
  PROVE  Written(Join(text, HostItem(hosts, i)), hosts, i, U)
<1> DEFINE item == HostItem(hosts, i)
           j    == Join(text, item)
<1>1. i \in Nat /\ (i - 1) + 1 = i /\ hosts[i] \in ToSet(hosts)
  BY DEF HostList, ToSet
<1>2. Before(hosts, i + 1) = (Before(hosts, i) \cup {hosts[i]}) \ {NoText}
  BY BeforeNext
<1>3. /\ text \in Text(U)
      /\ Before(hosts, i) = {} => Len(text) = 0
      /\ \A name \in U : <<name>> \in ToSet(hosts) =>
           IF <<name>> \in Before(hosts, i)
           THEN NamedOnce(text, name, Slots(hosts, <<name>>)) ELSE Absent(text, name)
  BY <1>1 DEF Written
<1>4. NoText \notin Before(hosts, i)
  BY DEF Before
<1>5. CASE hosts[i] \in Before(hosts, i) \cup {NoText}
  <2>1. Before(hosts, i + 1) = Before(hosts, i)
    BY <1>2, <1>4, <1>5
  <2>2. j = text
    <3>1. text \in Seq(U) /\ item = <<>>
      BY <1>3, <1>5 DEF Text, HostItem
    <3> QED
      BY <3>1, ConcatEmptySeq DEF Join
  <2> HIDE DEF item, j
  <2>3. Written(j, hosts, i, U)
    BY <1>3, <2>1, <2>2 DEF Written
  <2> QED
    BY <2>3 DEF item, j
<1>6. CASE hosts[i] \notin Before(hosts, i) \cup {NoText}
  <2>1. PICK host \in U :
          /\ hosts[i] = <<host>> /\ item \in Text(U)
          /\ Item(item, hosts, host, Slots(hosts, hosts[i]), Before(hosts, i) = {})
    BY <1>6, HostItemForm DEF Pieces
  <2> HIDE DEF item
  <2>2. j \in Text(U) /\ IsJoin(j, text, item)
    BY <1>3, <2>1, JoinText
  <2>3. Before(hosts, i + 1) = Before(hosts, i) \cup {hosts[i]}
    BY <1>2, <1>4, <1>6
  <2> HIDE DEF j
  <2>4. ASSUME NEW name \in U, <<name>> \in ToSet(hosts)
        PROVE  IF <<name>> \in Before(hosts, i + 1)
               THEN NamedOnce(j, name, Slots(hosts, <<name>>)) ELSE Absent(j, name)
    <3>1. name \notin Marks(hosts)
      BY <2>4, NameOfHost
    <3>2. CASE name = host
      <4>1. Absent(text, name) /\ <<name>> \in Before(hosts, i + 1)
        BY <1>3, <1>6, <2>1, <2>3, <2>4, <3>2
      <4>2. NamedOnce(j, name, Slots(hosts, hosts[i]))
        BY <1>3, <2>1, <2>2, <3>1, <3>2, <4>1, JoinNames
      <4> QED
        BY <2>1, <3>2, <4>1, <4>2
    <3>3. CASE name # host
      <4>1. Absent(item, name)
        BY <2>1, <3>1, <3>3, ItemAbsent
      <4>2. <<name>> # hosts[i]
        BY <2>1, <3>3
      <4>3. CASE <<name>> \in Before(hosts, i)
        <5>1. NamedOnce(j, name, Slots(hosts, <<name>>))
          BY <1>3, <2>2, <2>4, <4>1, <4>3, JoinNamed
        <5> QED
          BY <2>3, <4>3, <5>1
      <4>4. CASE <<name>> \notin Before(hosts, i)
        <5>1. Absent(j, name)
          BY <1>3, <2>2, <2>4, <4>1, <4>4, JoinAbsent
        <5> QED
          BY <2>3, <4>2, <4>4, <5>1
      <4> QED
        BY <4>3, <4>4
    <3> QED
      BY <3>2, <3>3
  <2>5. Written(j, hosts, i, U)
    BY <2>2, <2>3, <2>4 DEF Written
  <2> QED
    BY <2>5 DEF item, j
<1> QED
  BY <1>5, <1>6

\* There is a set of the pieces a list of hosts is written with.
LEMMA PiecesExist ==
  ASSUME NEW hosts, HostList(hosts)
  PROVE  \E U : Pieces(U, hosts)
<1> DEFINE U == Marks(hosts) \cup UNION {ToSet(h) : h \in ToSet(hosts)}
<1>1. ASSUME NEW h \in ToSet(hosts) PROVE h \in Text(U)
  <2>1. CASE h = NoText
    BY <2>1 DEF NoText, Text
  <2>2. CASE h # NoText
    <3>1. PICK name : h = <<name>>
      BY <2>2 DEF HostList
    <3>2. h[1] = name /\ 1 \in DOMAIN h
      BY <3>1
    <3>3. name \in ToSet(h)
      BY <3>2 DEF ToSet
    <3>4. name \in U
      BY <3>3
    <3> HIDE DEF U
    <3> QED
      BY <3>1, <3>4 DEF Text
  <2> QED
    BY <2>1, <2>2
<1>2. Marks(hosts) \subseteq U
  OBVIOUS
<1> HIDE DEF U
<1> QED
  BY <1>1, <1>2 DEF Pieces

\* An item is a text of them.
LEMMA HostItemType ==
  ASSUME NEW hosts, HostList(hosts), NEW i \in DOMAIN hosts, NEW U, Pieces(U, hosts)
  PROVE  HostItem(hosts, i) \in Text(U)
<1>1. CASE hosts[i] \in Before(hosts, i) \cup {NoText}
  BY <1>1 DEF HostItem, Text
<1>2. CASE hosts[i] \notin Before(hosts, i) \cup {NoText}
  BY <1>2, HostItemForm DEF Pieces
<1> QED
  BY <1>1, <1>2

\* Before the first host nothing is named.
LEMMA NothingWritten ==
  ASSUME NEW hosts, NEW U
  PROVE  Written(<<>>, hosts, 0, U)
<1>1. Before(hosts, 0 + 1) = {}
  BY DEF Before
<1>2. <<>> \in Text(U) /\ Len(<<>>) = 0
  BY DEF Text
<1> QED
  BY <1>1, <1>2 DEF Written, Absent

\* What formatExecutionHosts writes, a host at a time.
LEMMA FormatWritten ==
  ASSUME NEW hosts, HostList(hosts), NEW U, Pieces(U, hosts)
  PROVE  Written(FormatExecutionHosts(hosts), hosts, Len(hosts), U)
<1> DEFINE n     == Len(hosts)
           items == HostItems(hosts)
<1>1. n \in Nat /\ DOMAIN hosts = 1..n
  BY DEF HostList
<1>2. \A i \in 1..n : items[i] = HostItem(hosts, i) /\ items[i] \in Seq(U)
  BY <1>1, HostItemType DEF HostItems, Text
<1>3. items \in Seq(Seq(U)) /\ Len(items) = n
  <2>1. items = [i \in 1..n |-> items[i]]
    BY <1>1 DEF HostItems
  <2> HIDE DEF items, n
  <2> QED
    BY <1>1, <1>2, <2>1
<1>4. FormatExecutionHosts(hosts) = FlattenSeq(items)
  BY FormatByItems
<1> HIDE DEF items, n
<1>5. CASE items = <<>>
  <2>1. n = 0 /\ FormatExecutionHosts(hosts) = <<>>
    BY <1>3, <1>4, <1>5, FlattenEmpty
  <2> QED
    BY <2>1, NothingWritten DEF n
<1>6. CASE items # <<>>
  <2>1. PICK g : Flattens(g, items) /\ FlattenSeq(items) = g[n]
    BY <1>3, <1>6, FlattenBy
  <2>2. n # 0
    BY <1>3, <1>6, EmptySeq
  <2>3. \A i \in 1..n : (i = 1 => g[i] = items[i]) /\ (i # 1 => g[i] = Join(g[i - 1], items[i]))
    BY <1>3, <2>1 DEF Flattens, Join
  <2> DEFINE A == {m \in Nat : m \in 1..n => Written(g[m], hosts, m, U)}
  <2>4. 0 \in A
    OBVIOUS
  <2>5. ASSUME NEW m \in Nat, m \in A PROVE m + 1 \in A
    <3> SUFFICES ASSUME NEW i \in 1..n, i = m + 1 PROVE Written(g[i], hosts, i, U)
      OBVIOUS
    <3>1. items[i] = HostItem(hosts, i) /\ i \in DOMAIN hosts
      BY <1>1, <1>2
    <3>2. CASE i = 1
      <4>1. g[i] = Join(<<>>, HostItem(hosts, i))
        <5>1. g[i] = items[i] /\ items[i] \in Seq(U)
          BY <1>2, <2>3, <3>2
        <5>2. <<>> \o items[i] = items[i]
          BY <5>1, ConcatEmptySeq
        <5> QED
          BY <3>1, <5>1, <5>2 DEF Join
      <4>2. Written(<<>>, hosts, i - 1, U)
        BY <3>2, NothingWritten
      <4> QED
        BY <3>1, <4>1, <4>2, WriteNext
    <3>3. CASE i # 1
      <4>1. i - 1 = m /\ m \in 1..n
        BY <1>1, <3>3
      <4>2. Written(g[i - 1], hosts, i - 1, U)
        BY <2>5, <4>1
      <4>3. g[i] = Join(g[i - 1], HostItem(hosts, i))
        BY <2>3, <3>1, <3>3
      <4> QED
        BY <3>1, <4>2, <4>3, WriteNext
    <3> QED
      BY <3>2, <3>3
  <2>6. Nat \subseteq A
    <3> HIDE DEF A
    <3> QED
      BY <2>4, <2>5, Induction
  <2>7. Written(g[n], hosts, n, U)
    BY <1>1, <2>2, <2>6
  <2> QED
    BY <1>4, <2>1, <2>7 DEF n
<1> QED
  BY <1>5, <1>6

\* However LSF lists the hosts of a job, with blanks among them: each is named
\* once in what formatExecutionHosts writes, and with as many slots as it has.
THEOREM HostsNamedOnce ==
  ASSUME NEW hosts, HostList(hosts), NEW h \in ToSet(hosts) \ {NoText}
  PROVE  LET text  == FormatExecutionHosts(hosts)
             slots == Cardinality({k \in DOMAIN hosts : hosts[k] = h})
             at    == {i \in DOMAIN text : <<text[i]>> = h}
         IN  /\ Cardinality(at) = 1
             /\ \A i \in at :
                  IF slots = 1 THEN i = 1 \/ text[i - 1] = Comma
                  ELSE text[i - 1] = Times /\ text[i - 2] = Numeral(slots)
<1> DEFINE text == FormatExecutionHosts(hosts)
           at   == {i \in DOMAIN text : <<text[i]>> = h}
<1>1. PICK U : Pieces(U, hosts)
  BY PiecesExist
<1>2. Written(text, hosts, Len(hosts), U)
  BY <1>1, FormatWritten
<1>3. PICK name : h = <<name>>
  BY DEF HostList
<1>4. name \in U
  BY <1>1, <1>3 DEF Pieces, Text
<1>5. h \in Before(hosts, Len(hosts) + 1)
  <2>1. DOMAIN hosts = 1..Len(hosts) /\ Len(hosts) \in Nat /\ (Len(hosts) + 1) - 1 = Len(hosts)
    BY DEF HostList
  <2> QED
    BY <2>1 DEF Before, ToSet
<1>6. NamedOnce(text, name, Slots(hosts, h)) /\ text \in Text(U)
  BY <1>2, <1>3, <1>4, <1>5 DEF Written
<1>7. DOMAIN text = 1..Len(text)
  BY <1>6 DEF Text
<1> HIDE DEF text
<1>8. PICK p \in 1..Len(text) :
        /\ text[p] = name
        /\ \A q \in 1..Len(text) : text[q] = name => q = p
        /\ IF Slots(hosts, h) = 1 THEN p = 1 \/ (p > 1 /\ text[p - 1] = Comma)
           ELSE p > 2 /\ text[p - 1] = Times /\ text[p - 2] = Numeral(Slots(hosts, h))
  BY <1>6 DEF NamedOnce
<1>9. \A i \in DOMAIN text : <<text[i]>> = h <=> text[i] = name
  BY <1>3
<1>10. at = {p}
  BY <1>7, <1>8, <1>9
<1>11. Cardinality(at) = 1
  BY <1>10, FS_Singleton
<1>12. \A i \in at :
        IF Slots(hosts, h) = 1 THEN i = 1 \/ text[i - 1] = Comma
        ELSE text[i - 1] = Times /\ text[i - 2] = Numeral(Slots(hosts, h))
  BY <1>8, <1>10
<1> QED
  BY <1>11, <1>12 DEF text, Slots

-----------------------------------------------------------------------------
\* A sequence over some set is a sequence.
LEMMA SequenceOver ==
  ASSUME NEW T, NEW s \in Seq(T)
  PROVE  IsSeq(s)
<1>1. \A i \in 1..Len(s) : s[i] \in ToSet(s)
  BY DEF ToSet
<1>2. s = [i \in 1..Len(s) |-> s[i]] /\ Len(s) \in Nat
  OBVIOUS
<1> QED
  BY <1>1, <1>2 DEF IsSeq

\* The hosts LSF may run a job on make a list that is written as it should.
LEMMA SubmittedHosts ==
  ASSUME NEW j \in Jobs, NEW hosts \in HostLists[j]
  PROVE  HostList(hosts)
BY HostAssumption DEF HostList, IsSeq, Marks

\* A job that runs nowhere has an empty text.
LEMMA NoHosts == HostList(<<>>) /\ FormatExecutionHosts(<<>>) = NoText
<1>1. HostItems(<<>>) = <<>>
  BY DEF HostItems
<1>2. HostList(<<>>)
  BY DEF HostList, ToSet
<1> QED
  BY <1>1, <1>2, FormatByItems, FlattenEmpty DEF NoText

\* What formatExecutionHosts writes is a text.
LEMMA FormatType ==
  ASSUME NEW hosts, HostList(hosts)
  PROVE  IsSeq(FormatExecutionHosts(hosts))
<1>1. PICK U : Pieces(U, hosts)
  BY PiecesExist
<1>2. FormatExecutionHosts(hosts) \in Text(U)
  BY <1>1, FormatWritten DEF Written
<1> QED
  BY <1>2, SequenceOver DEF Text

-----------------------------------------------------------------------------
(* What is read of a job's record.                                          *)

\* A set of numbers up to n that is not empty has a least one.
LEMMA MinOfSubset ==
  ASSUME NEW n \in Nat, NEW I \in SUBSET (1..n), I # {}
  PROVE  Min(I) \in I /\ \A i \in I : Min(I) <= i
<1>1. I \in SUBSET Nat
  OBVIOUS
<1>2. \E m \in I : \A i \in I : m <= i
  BY <1>1, Least
<1> QED
  BY <1>2 DEF Min

\* The first section of a request that asks for memory is this one.
FirstAsking(request, i) ==
  /\ i \in DOMAIN request /\ request[i] # <<>>
  /\ \A k \in 1..i - 1 : request[k] = <<>>

\* The megabytes, in tenths, make so many kilobytes: what is left is less than one.
Kilobytes(kb, tenths) == 10 * kb <= 1024 * tenths /\ 1024 * tenths < 10 * kb + 10

\* The requested memory of a job's row is what its first section with a "mem="
\* asks for last, to the kilobyte below; it is what the processor makes of it only
\* if it is beyond int64, and 0 if nothing is asked for (requestedMemoryKB).
THEOREM RequestedMemoryIsAsked ==
  ASSUME WordLimit \in Nat \ {0}, NEW request \in Seq(Seq(Nat)),
         NEW kb \in RequestedMemoryKB(request)
  PROVE  \/ kb = 0 /\ \A i \in DOMAIN request : request[i] = <<>>
         \/ \E i \in DOMAIN request :
              /\ FirstAsking(request, i)
              /\ LET tenths == request[i][Len(request[i])]
                 IN  \/ kb < WordLimit /\ Kilobytes(kb, tenths)
                     \/ kb \in WordResults /\ 10 * WordLimit <= 1024 * tenths
<1> DEFINE I     == {i \in 1..Len(request) : request[i] # <<>>}
           first == SelectInSeq(request, LAMBDA s : s # <<>>)
<1>1. Len(request) \in Nat /\ DOMAIN request = 1..Len(request)
  OBVIOUS
<1>2. first = IF I # {} THEN Min(I) ELSE 0
  BY DEF SelectInSeq
<1>3. CASE I = {}
  <2>1. first = 0
    BY <1>2, <1>3
  <2>2. RequestedMemoryKB(request) = {0}
    <3> DEFINE value == (Last(request[first]) * 1024) \div 10
    <3>1. first = 0 /\ ~(first # 0 /\ value < WordLimit) /\ ~(first # 0 /\ value >= WordLimit)
      BY <2>1
    <3> HIDE DEF value
    <3> QED
      BY <3>1 DEF RequestedMemoryKB, value
  <2> QED
    BY <1>1, <1>3, <2>2
<1>4. CASE I # {}
  <2>1. first \in I /\ \A i \in I : first <= i
    BY <1>1, <1>2, <1>4, MinOfSubset
  <2> HIDE DEF first
  <2>2. FirstAsking(request, first)
    BY <1>1, <2>1 DEF FirstAsking
  <2> DEFINE tenths == request[first][Len(request[first])]
             whole  == (tenths * 1024) \div 10
  <2>3. tenths \in Nat
    <3>1. request[first] \in Seq(Nat) /\ request[first] # <<>>
      BY <2>1
    <3>2. Len(request[first]) \in 1..Len(request[first])
      BY <3>1, EmptySeq
    <3> QED
      BY <3>1, <3>2
  <2>4. whole \in Nat /\ Kilobytes(whole, tenths)
    <3> HIDE DEF tenths
    <3> QED
      BY <2>3 DEF Kilobytes
  <2>5. RequestedMemoryKB(request) = IF whole < WordLimit THEN {whole} ELSE WordResults
    <3>1. first # 0
      BY <2>1
    <3>2. Last(request[first]) = tenths
      BY DEF Last
    <3>3. whole < WordLimit <=> ~(whole >= WordLimit)
      BY <2>4
    <3> HIDE DEF tenths
    <3> QED
      BY <3>1, <3>2, <3>3 DEF RequestedMemoryKB, first
  <2>6. whole >= WordLimit => 10 * WordLimit <= 1024 * tenths
    BY <2>3, <2>4 DEF Kilobytes
  <2>7. \/ kb < WordLimit /\ Kilobytes(kb, tenths)
        \/ kb \in WordResults /\ 10 * WordLimit <= 1024 * tenths
    BY <2>4, <2>5, <2>6
  <2>8. first \in DOMAIN request
    BY <2>2 DEF FirstAsking
  <2> QED
    BY <2>2, <2>7, <2>8
<1> QED
  BY <1>3, <1>4
=============================================================================
