---------------------------- MODULE ProfileProofs ----------------------------
(***************************************************************************)
(* Proofs about the profiles on disk, for every number of writers, readers *)
(* and settings and all numbers.  A text is read symbol by symbol; the     *)
(* lemmas say what has been read at the end of each word.  From them: a    *)
(* whole text gives back its profile, whatever is behind it is refused     *)
(* unless it is white space, and so is one that was cut before the last    *)
(* setting.                                                                *)
(***************************************************************************)
EXTENDS ProfileStore, Induction

Letters == Digits \cup {"V1"}
WordSet == Seq(Letters) \ {<< >>}
States == [words : Seq(Seq(Letters)), word : Seq(Letters)]
NoState == [words |-> << >>, word |-> << >>]

\* read[n] is what has been read of text after n symbols.
IsReading(read, text) ==
  /\ read \in [0 .. Len(text) -> States]
  /\ read[0] = NoState
  /\ \A n \in 1 .. Len(text) : read[n] = Reads(read[n - 1], text[n])

\* A symbol takes a state to a state.
LEMMA ReadsLemma ==
  ASSUME NEW acc \in States, NEW c \in Symbols
  PROVE  Reads(acc, c) \in States
<1>1. CASE c # "ws"
  <2>1. c \in Letters
    BY <1>1 DEF Symbols, Letters
  <2>2. Append(acc.word, c) \in Seq(Letters)
    BY <2>1 DEF States
  <2> QED BY <1>1, <2>2 DEF Reads, States
<1>2. CASE c = "ws"
  <2>1. Append(acc.words, acc.word) \in Seq(Seq(Letters)) /\ << >> \in Seq(Letters)
    BY DEF States
  <2> QED BY <1>2, <2>1 DEF Reads, States
<1> QED BY <1>1, <1>2

\* Every text has a reading, and it gives the words.
LEMMA ReadingLemma ==
  ASSUME NEW text \in Seq(Symbols)
  PROVE  \E read : IsReading(read, text) /\ Words(text) = AllWords(read[Len(text)])
<1> DEFINE n == Len(text)
           step == [xi \in States \X (1 .. n) |-> Reads(xi[1], text[xi[2]])]
           Is(f) == f = [i \in 0 .. n |->
                           IF i = 0 THEN [words |-> << >>, word |-> << >>]
                           ELSE Reads(f[i - 1], text[i])]
           g == CHOOSE f : Is(f)
<1>1. n \in Nat /\ \A i \in 1 .. n : text[i] \in Symbols
  OBVIOUS
<1>2. NoState \in States
  BY DEF NoState, States
<1>3. step \in [States \X (1 .. n) -> States]
  <2>1. \A xi \in States \X (1 .. n) : Reads(xi[1], text[xi[2]]) \in States
    <3> TAKE xi \in States \X (1 .. n)
    <3>1. xi[1] \in States /\ text[xi[2]] \in Symbols
      BY <1>1
    <3> QED BY <3>1, ReadsLemma
  <2> QED BY <2>1
<1>4. PICK f \in [0 .. n -> States] : Recursion(f, NoState, step, n)
  <2> HIDE DEF n, step
  <2> QED BY <1>1, <1>2, <1>3, RecursiveFunction
<1>5. \A i \in 1 .. n : f[i] = Reads(f[i - 1], text[i])
  <2> TAKE i \in 1 .. n
  <2>1. f[i] = step[<<f[i - 1], i>>]
    BY <1>4 DEF Recursion
  <2>2. i - 1 \in 0 .. n
    BY <1>1
  <2>3. <<f[i - 1], i>> \in States \X (1 .. n)
    BY <1>4, <2>2
  <2> QED BY <2>1, <2>3
<1>6. f = [i \in 0 .. n |-> f[i]] /\ f[0] = NoState /\ \A i \in 0 .. n : i # 0 => i \in 1 .. n
  BY <1>1, <1>4 DEF Recursion
<1>7. Is(f)
  <2> HIDE DEF n, step
  <2> QED BY <1>5, <1>6 DEF NoState
<1>8. Is(g)
  <2> HIDE DEF Is
  <2> QED BY <1>7
<1>9. \A i \in 0 .. n : g[i] = IF i = 0 THEN NoState ELSE Reads(g[i - 1], text[i])
  <2> HIDE DEF n, g
  <2> QED BY <1>8 DEF NoState
<1>10. \A i \in 0 .. n : g[i] = f[i]
  <2> DEFINE H == {i \in 0 .. n : g[i] = f[i]}
  <2>1. 0 \in H
    <3> HIDE DEF n, g
    <3>1. 0 \in 0 .. n
      BY <1>1
    <3>2. g[0] = NoState
      BY <3>1, <1>9
    <3> QED BY <3>1, <3>2, <1>6
  <2>2. ASSUME NEW i \in 0 .. n - 1, i \in H
        PROVE  i + 1 \in H
    <3>1. i + 1 \in 0 .. n /\ i + 1 \in 1 .. n /\ i + 1 # 0 /\ (i + 1) - 1 = i
      BY <1>1, <2>2
    <3>2. g[i] = f[i]
      BY <2>2
    <3>3. g[i + 1] = Reads(g[i], text[i + 1]) /\ f[i + 1] = Reads(f[i], text[i + 1])
      <4> HIDE DEF n, g, H
      <4> QED BY <3>1, <1>5, <1>9
    <3> QED BY <3>1, <3>2, <3>3
  <2> HIDE DEF H, n, g
  <2>3. \A i \in 0 .. n : i \in H
    <3>1. 0 \in Int /\ n \in Int
      BY <1>1
    <3>2. \A i \in 0 .. n - 1 : i \in H => i + 1 \in H
      BY <2>2
    <3> QED BY ONLY <2>1, <3>1, <3>2, IntervalInduction
  <2> QED BY <2>3 DEF H
<1>11. g = f
  <2> HIDE DEF n
  <2>1. g = [i \in 0 .. n |-> g[i]]
    BY <1>8
  <2> HIDE DEF g
  <2> QED BY <2>1, <1>6, <1>10
<1>12. Words(text) = AllWords(g[n])
  BY DEF Words
<1>13. IsReading(f, text)
  BY <1>4, <1>5, <1>6 DEF IsReading
<1> HIDE DEF n, g
<1> QED BY <1>11, <1>12, <1>13 DEF n

\* Texts that begin alike are read alike as far as that goes.
LEMMA SameReading ==
  ASSUME NEW s \in Seq(Symbols), NEW t \in Seq(Symbols), NEW rs, NEW rt,
         IsReading(rs, s), IsReading(rt, t),
         NEW m \in Nat, m <= Len(s), m <= Len(t), \A k \in 1 .. m : s[k] = t[k]
  PROVE  \A i \in 0 .. m : rs[i] = rt[i]
<1> DEFINE H == {i \in 0 .. m : rs[i] = rt[i]}
<1>1. 0 \in H
  BY DEF IsReading
<1>2. \A i \in 0 .. m - 1 : i \in H => i + 1 \in H
  <2> TAKE i \in 0 .. m - 1
  <2> HAVE i \in H
  <2>1. i + 1 \in 1 .. Len(s) /\ i + 1 \in 1 .. Len(t) /\ i + 1 \in 1 .. m /\ (i + 1) - 1 = i
    OBVIOUS
  <2>2. rs[i + 1] = Reads(rs[i], s[i + 1]) /\ rt[i + 1] = Reads(rt[i], t[i + 1])
    BY <2>1 DEF IsReading
  <2> QED BY <2>1, <2>2
<1>3. 0 \in Int /\ m \in Int
  OBVIOUS
<1>4. \A i \in 0 .. m : i \in H
  <2> HIDE DEF H
  <2> QED BY ONLY <1>1, <1>2, <1>3, IntervalInduction
<1> QED BY <1>4

\* One more symbol of a word.
LEMMA PrefixGrows ==
  ASSUME NEW S, NEW v \in Seq(S), NEW j \in Nat, j < Len(v)
  PROVE  SubSeq(v, 1, j + 1) = Append(SubSeq(v, 1, j), v[j + 1])
<1>1. /\ SubSeq(v, 1, j) \in Seq(S) /\ Len(SubSeq(v, 1, j)) = j
      /\ \A k \in 1 .. j : SubSeq(v, 1, j)[k] = v[k]
  OBVIOUS
<1>2. /\ SubSeq(v, 1, j + 1) \in Seq(S) /\ Len(SubSeq(v, 1, j + 1)) = j + 1
      /\ \A k \in 1 .. j + 1 : SubSeq(v, 1, j + 1)[k] = v[k]
  OBVIOUS
<1> DEFINE a == SubSeq(v, 1, j)
           b == SubSeq(v, 1, j + 1)
<1>3. v[j + 1] \in S
  OBVIOUS
<1> HIDE DEF a, b
<1>4. Append(a, v[j + 1]) \in Seq(S) /\ Len(Append(a, v[j + 1])) = j + 1
  BY <1>1, <1>3 DEF a
<1>5. ASSUME NEW k \in 1 .. j + 1
      PROVE  Append(a, v[j + 1])[k] = b[k]
  BY <1>1, <1>2, <1>3 DEF a, b
<1>6. b \in Seq(S) /\ Len(b) = j + 1
  BY <1>2 DEF b
<1>7. b = Append(a, v[j + 1])
  BY <1>4, <1>5, <1>6
<1> QED BY <1>7 DEF a, b

\* The first symbols of a word are read into the word.
LEMMA WordRead ==
  ASSUME NEW text \in Seq(Symbols), NEW read, IsReading(read, text),
         NEW n \in Nat, NEW v \in WordSet, n + Len(v) <= Len(text),
         \A j \in 1 .. Len(v) : text[n + j] = v[j], read[n].word = << >>
  PROVE  \A j \in 0 .. Len(v) :
           read[n + j] = [words |-> read[n].words, word |-> SubSeq(v, 1, j)]
<1> DEFINE H == {j \in 0 .. Len(v) :
                   read[n + j] = [words |-> read[n].words, word |-> SubSeq(v, 1, j)]}
<1>0. v \in Seq(Letters) /\ Len(v) \in Nat /\ Len(text) \in Nat
  BY DEF WordSet
<1>1. 0 \in H
  <2>1. n \in 0 .. Len(text)
    BY <1>0
  <2>2. read[n] \in States
    BY <2>1 DEF IsReading
  <2>3. read[n] = [words |-> read[n].words, word |-> << >>]
    BY <2>2 DEF States
  <2>4. SubSeq(v, 1, 0) = << >> /\ n + 0 = n
    BY <1>0
  <2> QED BY <2>3, <2>4, <1>0
<1>2. \A j \in 0 .. Len(v) - 1 : j \in H => j + 1 \in H
  <2> TAKE j \in 0 .. Len(v) - 1
  <2> HAVE j \in H
  <2>1. /\ n + (j + 1) \in 1 .. Len(text) /\ (n + (j + 1)) - 1 = n + j
        /\ j + 1 \in 1 .. Len(v) /\ j \in Nat /\ j < Len(v)
    BY <1>0
  <2>2. read[n + (j + 1)] = Reads(read[n + j], v[j + 1])
    BY <2>1 DEF IsReading
  <2>3. v[j + 1] # "ws"
    <3>1. v[j + 1] \in Letters
      BY <1>0, <2>1
    <3> QED BY <3>1, ProfilesAssumption DEF Letters
  <2>4. SubSeq(v, 1, j + 1) = Append(SubSeq(v, 1, j), v[j + 1])
    BY <1>0, <2>1, PrefixGrows
  <2>5. read[n + j] = [words |-> read[n].words, word |-> SubSeq(v, 1, j)]
    OBVIOUS
  <2>6. read[n + (j + 1)] = [words |-> read[n].words, word |-> Append(SubSeq(v, 1, j), v[j + 1])]
    <3> DEFINE w == read[n].words
               u == SubSeq(v, 1, j)
               c == v[j + 1]
    <3> HIDE DEF w, u, c
    <3>1. c # "ws"
      BY <2>3 DEF c
    <3>2. Reads([words |-> w, word |-> u], c) = [words |-> w, word |-> Append(u, c)]
      BY <3>1 DEF Reads
    <3>3. read[n + (j + 1)] = Reads([words |-> w, word |-> u], c)
      BY <2>2, <2>5 DEF w, u, c
    <3> QED BY <3>2, <3>3 DEF w, u, c
  <2>7. j + 1 \in 0 .. Len(v)
    BY <1>0, <2>1
  <2> QED BY <2>4, <2>6, <2>7
<1>3. 0 \in Int /\ Len(v) \in Int
  BY <1>0
<1>4. \A j \in 0 .. Len(v) : j \in H
  <2> HIDE DEF H
  <2> QED BY ONLY <1>1, <1>2, <1>3, IntervalInduction
<1> QED BY <1>4

\* White space ends the word.
LEMMA WordEnds ==
  ASSUME NEW text \in Seq(Symbols), NEW read, IsReading(read, text),
         NEW n \in Nat, NEW v \in WordSet, n + Len(v) < Len(text),
         \A j \in 1 .. Len(v) : text[n + j] = v[j], read[n].word = << >>,
         text[n + Len(v) + 1] = "ws"
  PROVE  read[n + Len(v) + 1] = [words |-> Append(read[n].words, v), word |-> << >>]
<1>1. v \in Seq(Letters) /\ v # << >> /\ Len(v) \in Nat /\ Len(text) \in Nat
  BY DEF WordSet
<1>2. \A j \in 0 .. Len(v) :
        read[n + j] = [words |-> read[n].words, word |-> SubSeq(v, 1, j)]
  <2>1. n + Len(v) <= Len(text)
    BY <1>1
  <2> QED BY <2>1, WordRead
<1>3. read[n + Len(v)] = [words |-> read[n].words, word |-> v]
  <2>1. Len(v) \in 0 .. Len(v) /\ SubSeq(v, 1, Len(v)) = v
    BY <1>1
  <2> QED BY <2>1, <1>2
<1>4. n + Len(v) + 1 \in 1 .. Len(text) /\ (n + Len(v) + 1) - 1 = n + Len(v)
  BY <1>1
<1>5. read[n + Len(v) + 1] = Reads(read[n + Len(v)], "ws")
  BY <1>4 DEF IsReading
<1> QED BY <1>1, <1>3, <1>5 DEF Reads

-----------------------------------------------------------------------------
(* The text of a profile.                                                  *)
Writable == [batch : Numbers, values : [1 .. Settings -> Numbers]]

\* T[i] is the text of the first i words.
IsText(T, p) ==
  /\ T \in [0 .. 3 + Settings -> Seq(Symbols)]
  /\ T[0] = << >>
  /\ \A i \in 1 .. 3 + Settings : T[i] = T[i - 1] \o Written(p)[i] \o <<"ws">>

\* Two sequences one behind the other.
LEMMA ConcatLemma ==
  ASSUME NEW S, NEW a \in Seq(S), NEW b \in Seq(S)
  PROVE  /\ a \o b \in Seq(S) /\ Len(a \o b) = Len(a) + Len(b)
         /\ \A i \in 1 .. Len(a) : (a \o b)[i] = a[i]
         /\ \A i \in 1 .. Len(b) : (a \o b)[Len(a) + i] = b[i]
OBVIOUS

\* What benchmarks recommend and other programs left can be written.
LEMMA WritableLemma == Profiles \subseteq Writable /\ Foreign \subseteq Writable
<1>1. Batches \subseteq Numbers /\ Values \subseteq Numbers
  BY ProfilesAssumption
<1>2. Stored \subseteq Writable
  BY <1>1 DEF Stored, Writable
<1> QED BY <1>2, ProfilesAssumption DEF Writable

\* The words that are written, in their order.
LEMMA WrittenLemma ==
  ASSUME NEW p \in Writable
  PROVE  /\ Written(p) \in Seq(Seq(Letters)) /\ Len(Written(p)) = 3 + Settings
         /\ \A i \in 1 .. 3 + Settings : Written(p)[i] \in WordSet
         /\ Written(p)[1] = <<"V1">> /\ Written(p)[2] = p.batch /\ Written(p)[3] = Count
         /\ \A i \in 1 .. Settings : Written(p)[i + 3] = p.values[i]
<1> DEFINE h == <<<<"V1">>, p.batch, Count>>
<1>1. Numbers \subseteq WordSet
  BY DEF Numbers, WordSet, Letters
<1>2. <<"V1">> \in WordSet
  <2>1. "V1" \in Letters
    BY DEF Letters
  <2> QED BY <2>1 DEF WordSet
<1>3. Settings \in Nat /\ Count \in WordSet
  BY <1>1, ProfilesAssumption
<1>4. p.batch \in WordSet /\ p.values \in [1 .. Settings -> WordSet]
  BY <1>1 DEF Writable
<1>5. h \in Seq(WordSet) /\ Len(h) = 3 /\ h[1] = <<"V1">> /\ h[2] = p.batch /\ h[3] = Count
  BY <1>2, <1>3, <1>4
<1>6. p.values \in Seq(WordSet) /\ Len(p.values) = Settings
  BY <1>3, <1>4
<1> HIDE DEF h
<1>7. /\ h \o p.values \in Seq(WordSet) /\ Len(h \o p.values) = 3 + Settings
      /\ \A i \in 1 .. 3 : (h \o p.values)[i] = h[i]
      /\ \A i \in 1 .. Settings : (h \o p.values)[3 + i] = p.values[i]
  <2>1. /\ h \o p.values \in Seq(WordSet) /\ Len(h \o p.values) = Len(h) + Len(p.values)
        /\ \A i \in 1 .. Len(h) : (h \o p.values)[i] = h[i]
        /\ \A i \in 1 .. Len(p.values) : (h \o p.values)[Len(h) + i] = p.values[i]
    <3>1. h \in Seq(WordSet) /\ p.values \in Seq(WordSet)
      BY <1>5, <1>6
    <3> QED BY ONLY <3>1, ConcatLemma
  <2> QED BY <2>1, <1>5, <1>6
<1>8. Written(p) = h \o p.values
  BY DEF Written, h
<1>9. \A i \in 1 .. 3 + Settings : Written(p)[i] \in WordSet
  BY <1>3, <1>7, <1>8
<1>10. Written(p) \in Seq(Seq(Letters))
  <2>1. WordSet \subseteq Seq(Letters)
    BY DEF WordSet
  <2> QED BY <2>1, <1>7, <1>8
<1>11. \A i \in 1 .. Settings : Written(p)[i + 3] = p.values[i]
  <2> TAKE i \in 1 .. Settings
  <2>1. i + 3 = 3 + i
    BY <1>3
  <2> QED BY <2>1, <1>7, <1>8
<1>12. Written(p)[1] = h[1] /\ Written(p)[2] = h[2] /\ Written(p)[3] = h[3]
  BY <1>3, <1>7, <1>8
<1> QED BY <1>5, <1>7, <1>8, <1>9, <1>10, <1>11, <1>12

\* The text grows word by word.
LEMMA TextLemma ==
  ASSUME NEW p \in Writable
  PROVE  \E T : IsText(T, p) /\ ProfileText(p) = T[3 + Settings]
<1> DEFINE n == 3 + Settings
           V == Seq(Symbols)
           empty == << >>
           step == [xi \in V \X (1 .. n) |-> xi[1] \o Written(p)[xi[2]] \o <<"ws">>]
           Is(f) == f = [i \in 0 .. n |->
                           IF i = 0 THEN << >> ELSE f[i - 1] \o Written(p)[i] \o <<"ws">>]
           g == CHOOSE f : Is(f)
<1>1. n \in Nat
  BY ProfilesAssumption
<1>2. \A i \in 1 .. n : Written(p)[i] \in V
  <2>1. WordSet \subseteq V
    BY DEF WordSet, Letters, Symbols
  <2> QED BY <2>1, WrittenLemma
<1>3. empty \in V /\ step \in [V \X (1 .. n) -> V]
  <2>1. \A xi \in V \X (1 .. n) : xi[1] \o Written(p)[xi[2]] \o <<"ws">> \in V
    <3> TAKE xi \in V \X (1 .. n)
    <3>1. xi[1] \in V /\ Written(p)[xi[2]] \in V
      BY <1>2
    <3>2. <<"ws">> \in V
      BY DEF Symbols
    <3> QED BY <3>1, <3>2
  <2> QED BY <2>1
<1>4. PICK f \in [0 .. n -> V] : Recursion(f, empty, step, n)
  <2> HIDE DEF n, V, empty, step
  <2> QED BY <1>1, <1>3, RecursiveFunction
<1>5. \A i \in 1 .. n : f[i] = f[i - 1] \o Written(p)[i] \o <<"ws">>
  <2> TAKE i \in 1 .. n
  <2>1. f[i] = step[<<f[i - 1], i>>]
    BY <1>4 DEF Recursion
  <2>2. i - 1 \in 0 .. n
    BY <1>1
  <2>3. <<f[i - 1], i>> \in V \X (1 .. n)
    BY <1>4, <2>2
  <2> QED BY <2>1, <2>3
<1>6. f = [i \in 0 .. n |-> f[i]] /\ f[0] = << >> /\ \A i \in 0 .. n : i # 0 => i \in 1 .. n
  BY <1>1, <1>4 DEF Recursion
<1>7. Is(f)
  <2> HIDE DEF n, V, step
  <2> QED BY <1>5, <1>6
<1>8. Is(g)
  <2> HIDE DEF Is
  <2> QED BY <1>7
<1>9. g[0] = << >> /\ \A i \in 1 .. n : g[i] = g[i - 1] \o Written(p)[i] \o <<"ws">>
  <2> HIDE DEF n, g
  <2>1. 0 \in 0 .. n /\ \A i \in 1 .. n : i \in 0 .. n /\ i # 0
    BY <1>1
  <2> QED BY <2>1, <1>8
<1>10. \A i \in 0 .. n : g[i] = f[i]
  <2> DEFINE H == {i \in 0 .. n : g[i] = f[i]}
  <2>1. 0 \in H
    <3> HIDE DEF n, g
    <3> QED BY <1>1, <1>6, <1>9
  <2>2. \A i \in 0 .. n - 1 : i \in H => i + 1 \in H
    <3> HIDE DEF n, g
    <3> TAKE i \in 0 .. n - 1
    <3>1. i + 1 \in 0 .. n /\ i + 1 \in 1 .. n /\ (i + 1) - 1 = i
      BY <1>1
    <3>2. /\ g[i + 1] = g[i] \o Written(p)[i + 1] \o <<"ws">>
          /\ f[i + 1] = f[i] \o Written(p)[i + 1] \o <<"ws">>
      BY <3>1, <1>5, <1>9
    <3> QED BY <3>1, <3>2
  <2>3. 0 \in Int /\ n \in Int
    BY <1>1
  <2>4. \A i \in 0 .. n : i \in H
    <3> HIDE DEF H
    <3> QED BY ONLY <2>1, <2>2, <2>3, IntervalInduction
  <2> QED BY <2>4
<1>11. IsText(f, p)
  BY <1>4, <1>5, <1>6 DEF IsText
<1>12. ProfileText(p) = g[n]
  BY DEF ProfileText
<1>13. n \in 0 .. n
  BY <1>1
<1> HIDE DEF g
<1> QED BY <1>10, <1>11, <1>12, <1>13

\* The text b is a with one more word w and its white space.
Grows(a, w, b) ==
  /\ a \in Seq(Symbols) /\ b \in Seq(Symbols) /\ Len(a) \in Nat /\ Len(w) \in Nat
  /\ Len(b) = Len(a) + Len(w) + 1
  /\ \A k \in 1 .. Len(a) : b[k] = a[k]
  /\ \A j \in 1 .. Len(w) : b[Len(a) + j] = w[j]
  /\ b[Len(a) + Len(w) + 1] = "ws"

LEMMA TextGrows ==
  ASSUME NEW p \in Writable, NEW T, IsText(T, p), NEW m \in 0 .. 2 + Settings
  PROVE  Grows(T[m], Written(p)[m + 1], T[m + 1])
<1> DEFINE i == m + 1
           a == T[m]
           w == Written(p)[i]
           b == a \o w
<1>1. Settings \in Nat /\ i \in 1 .. 3 + Settings /\ i - 1 = m
  BY ProfilesAssumption
<1>2. a \in Seq(Symbols)
  <2>1. m \in 0 .. 3 + Settings
    BY <1>1
  <2> QED BY <2>1 DEF IsText
<1>3. w \in Seq(Symbols)
  <2>1. WordSet \subseteq Seq(Symbols)
    BY DEF WordSet, Letters, Symbols
  <2> QED BY <1>1, <2>1, WrittenLemma
<1> HIDE DEF i
<1>4. T[i] = b \o <<"ws">>
  BY <1>1 DEF IsText
<1> HIDE DEF a, w
<1>5. /\ b \in Seq(Symbols) /\ Len(b) = Len(a) + Len(w)
      /\ \A k \in 1 .. Len(a) : b[k] = a[k]
      /\ \A j \in 1 .. Len(w) : b[Len(a) + j] = w[j]
  BY ONLY <1>2, <1>3, ConcatLemma
<1>6. <<"ws">> \in Seq(Symbols) /\ Len(<<"ws">>) = 1 /\ <<"ws">>[1] = "ws" /\ 1 \in 1 .. 1
  BY DEF Symbols
<1> HIDE DEF b
<1>7. /\ T[i] \in Seq(Symbols) /\ Len(T[i]) = Len(b) + 1
      /\ \A k \in 1 .. Len(b) : T[i][k] = b[k]
      /\ T[i][Len(b) + 1] = "ws"
  <2> DEFINE e == <<"ws">>
  <2>1. e \in Seq(Symbols) /\ Len(e) = 1 /\ e[1] = "ws" /\ 1 \in 1 .. 1
    BY <1>6
  <2> HIDE DEF e
  <2>2. /\ b \o e \in Seq(Symbols) /\ Len(b \o e) = Len(b) + Len(e)
        /\ \A k \in 1 .. Len(b) : (b \o e)[k] = b[k]
        /\ \A j \in 1 .. Len(e) : (b \o e)[Len(b) + j] = e[j]
    BY ONLY <1>5, <2>1, ConcatLemma
  <2>3. T[i] = b \o e
    BY <1>4 DEF e
  <2>4. (b \o e)[Len(b) + 1] = e[1]
    BY <2>1, <2>2
  <2> QED BY <2>1, <2>2, <2>3, <2>4
<1>8. Len(a) \in Nat /\ Len(w) \in Nat
  BY <1>2, <1>3
<1>9. \A k \in 1 .. Len(a) : T[i][k] = a[k]
  BY <1>5, <1>7, <1>8
<1>10. \A j \in 1 .. Len(w) : T[i][Len(a) + j] = w[j]
  <2> TAKE j \in 1 .. Len(w)
  <2>1. Len(a) + j \in 1 .. Len(b)
    BY <1>5, <1>8
  <2> QED BY <2>1, <1>5, <1>7
<1>11. Grows(a, w, T[i])
  BY <1>2, <1>5, <1>7, <1>8, <1>9, <1>10 DEF Grows
<1> QED BY <1>11 DEF i, a, w

\* The text of fewer words is the beginning of that of more.
LEMMA TextPrefix ==
  ASSUME NEW p \in Writable, NEW T, IsText(T, p), NEW i \in 0 .. 3 + Settings
  PROVE  \A m \in i .. 3 + Settings :
           /\ Len(T[i]) <= Len(T[m]) /\ Len(T[i]) \in Nat /\ Len(T[m]) \in Nat
           /\ \A k \in 1 .. Len(T[i]) : T[m][k] = T[i][k]
<1> DEFINE P(m) == /\ Len(T[i]) <= Len(T[m]) /\ Len(T[i]) \in Nat /\ Len(T[m]) \in Nat
                   /\ \A k \in 1 .. Len(T[i]) : T[m][k] = T[i][k]
           H == {m \in i .. 3 + Settings : P(m)}
<1>1. Settings \in Nat
  BY ProfilesAssumption
<1>2. \A m \in 0 .. 3 + Settings : T[m] \in Seq(Symbols) /\ Len(T[m]) \in Nat
  BY DEF IsText
<1>3. i \in H
  BY <1>1, <1>2
<1>4. \A m \in i .. (3 + Settings) - 1 : m \in H => m + 1 \in H
  <2> TAKE m \in i .. (3 + Settings) - 1
  <2> HAVE m \in H
  <2>1. m + 1 \in 1 .. 3 + Settings /\ (m + 1) - 1 = m /\ m + 1 \in i .. 3 + Settings
        /\ m \in 0 .. 3 + Settings /\ m + 1 \in 0 .. 3 + Settings
    BY <1>1
  <2> DEFINE w == Written(p)[m + 1]
  <2>2. Len(w) \in Nat
    BY <2>1, WrittenLemma DEF WordSet
  <2>3. /\ Len(T[m + 1]) = Len(T[m]) + Len(w) + 1
        /\ \A k \in 1 .. Len(T[m]) : T[m + 1][k] = T[m][k]
    <3>1. m \in 0 .. 2 + Settings
      BY <1>1, <2>1
    <3>2. Grows(T[m], w, T[m + 1])
      BY <3>1, TextGrows
    <3> HIDE DEF w
    <3> QED BY <3>2 DEF Grows
  <2> HIDE DEF w
  <2>4. P(m)
    OBVIOUS
  <2>5. Len(T[m]) \in Nat /\ Len(T[m + 1]) \in Nat
    BY <1>2, <2>1
  <2>6. Len(T[i]) <= Len(T[m + 1])
    BY <2>2, <2>3, <2>4, <2>5
  <2>7. \A k \in 1 .. Len(T[i]) : T[m + 1][k] = T[i][k]
    <3> TAKE k \in 1 .. Len(T[i])
    <3>1. k \in 1 .. Len(T[m])
      BY <2>4
    <3> QED BY <3>1, <2>3, <2>4
  <2>8. P(m + 1)
    BY <2>4, <2>5, <2>6, <2>7
  <2> HIDE DEF P
  <2> QED BY <2>1, <2>8
<1>5. i \in Int /\ 3 + Settings \in Int
  BY <1>1
<1>6. \A m \in i .. 3 + Settings : m \in H
  <2> HIDE DEF H
  <2> QED BY ONLY <1>3, <1>4, <1>5, IntervalInduction
<1> QED BY <1>6

\* When i words have been read, they are the first ones that were written.
LEMMA WordsRead ==
  ASSUME NEW p \in Writable, NEW T, IsText(T, p), NEW text \in Seq(Symbols), NEW read,
         IsReading(read, text), Len(T[3 + Settings]) <= Len(text),
         \A k \in 1 .. Len(T[3 + Settings]) : text[k] = T[3 + Settings][k]
  PROVE  \A i \in 0 .. 3 + Settings :
           read[Len(T[i])] = [words |-> SubSeq(Written(p), 1, i), word |-> << >>]
<1> DEFINE n == 3 + Settings
           W == Written(p)
           H == {i \in 0 .. n : read[Len(T[i])] = [words |-> SubSeq(W, 1, i), word |-> << >>]}
<1>0. n \in Nat /\ W \in Seq(Seq(Letters)) /\ Len(W) = n /\ (\A i \in 1 .. n : W[i] \in WordSet)
      /\ n \in 0 .. n
  BY ProfilesAssumption, WrittenLemma
<1>1. 0 \in H
  <2>1. T[0] = << >> /\ read[0] = NoState
    BY DEF IsText, IsReading
  <2>2. SubSeq(W, 1, 0) = << >> /\ Len(<< >>) = 0
    BY <1>0
  <2> HIDE DEF n, W
  <2> QED BY <2>1, <2>2, <1>0 DEF NoState
<1>2. \A i \in 0 .. n - 1 : i \in H => i + 1 \in H
  <2> TAKE i \in 0 .. n - 1
  <2> HAVE i \in H
  <2> DEFINE w == W[i + 1]
             at == Len(T[i])
  <2>1. i + 1 \in 1 .. n /\ (i + 1) - 1 = i /\ i + 1 \in 0 .. n /\ n \in i + 1 .. n
        /\ i \in Nat /\ i < n
    BY <1>0
  <2>2. w \in WordSet /\ Len(w) \in Nat
    BY <1>0, <2>1 DEF WordSet
  <2>3. /\ Len(T[i + 1]) = at + Len(w) + 1
        /\ \A j \in 1 .. Len(w) : T[i + 1][at + j] = w[j]
        /\ T[i + 1][at + Len(w) + 1] = "ws"
        /\ at \in Nat
    <3>1. i \in 0 .. 2 + Settings
      BY <2>1, ProfilesAssumption
    <3>2. Grows(T[i], w, T[i + 1])
      BY <3>1, TextGrows
    <3> HIDE DEF w
    <3> QED BY <3>2 DEF Grows
  <2>4. /\ Len(T[i + 1]) <= Len(T[n])
        /\ \A k \in 1 .. Len(T[i + 1]) : T[n][k] = T[i + 1][k]
        /\ Len(T[n]) \in Nat
    <3> DEFINE j == i + 1
    <3>1. j \in 0 .. 3 + Settings /\ n \in j .. 3 + Settings
      BY <2>1
    <3> HIDE DEF j, n
    <3> QED BY <3>1, TextPrefix DEF j
  <2>5. \A k \in 1 .. Len(T[i + 1]) : text[k] = T[i + 1][k]
    <3> TAKE k \in 1 .. Len(T[i + 1])
    <3>1. k \in 1 .. Len(T[n])
      <4> HIDE DEF at, w, n
      <4> QED BY <2>2, <2>3, <2>4
    <3> QED BY <3>1, <2>4
  <2>6. read[at] = [words |-> SubSeq(W, 1, i), word |-> << >>]
    OBVIOUS
  <2>7. \A j \in 1 .. Len(w) : text[at + j] = w[j]
    <3> TAKE j \in 1 .. Len(w)
    <3>1. at + j \in 1 .. Len(T[i + 1])
      <4> HIDE DEF at, w, n
      <4> QED BY <2>2, <2>3
    <3> QED BY <3>1, <2>3, <2>5
  <2>8. text[at + Len(w) + 1] = "ws"
    <3>1. at + Len(w) + 1 \in 1 .. Len(T[i + 1])
      <4> HIDE DEF at, w, n
      <4> QED BY <2>2, <2>3
    <3> QED BY <3>1, <2>3, <2>5
  <2>9. at + Len(w) < Len(text)
    <3> HIDE DEF at, w
    <3>1. Len(text) \in Nat
      OBVIOUS
    <3> QED BY <3>1, <2>2, <2>3, <2>4
  <2>10. read[at + Len(w) + 1] = [words |-> Append(SubSeq(W, 1, i), w), word |-> << >>]
    <3>1. read[at].word = << >> /\ read[at].words = SubSeq(W, 1, i)
      BY <2>6
    <3> HIDE DEF at, w, W
    <3>2. read[at + Len(w) + 1] = [words |-> Append(read[at].words, w), word |-> << >>]
      <4>1. text \in Seq(Symbols) /\ IsReading(read, text) /\ at \in Nat /\ w \in WordSet
        BY <2>2, <2>3
      <4>2. read[at].word = << >>
        BY <3>1
      <4> QED BY ONLY <4>1, <4>2, <2>7, <2>8, <2>9, WordEnds
    <3> QED BY <3>1, <3>2
  <2>11. SubSeq(W, 1, i + 1) = Append(SubSeq(W, 1, i), w)
    <3> HIDE DEF W, n
    <3> QED BY <1>0, <2>1, PrefixGrows
  <2> QED BY <2>1, <2>3, <2>10, <2>11
<1>3. 0 \in Int /\ n \in Int
  BY <1>0
<1>4. \A i \in 0 .. n : i \in H
  <2> HIDE DEF H
  <2> QED BY ONLY <1>1, <1>2, <1>3, IntervalInduction
<1> QED BY <1>4

-----------------------------------------------------------------------------
(* What is loaded from a text.                                             *)
\* No symbol makes words fewer.
LEMMA SymbolAdds ==
  ASSUME NEW acc \in States, NEW c \in Symbols
  PROVE  /\ Len(AllWords(acc)) \in Nat /\ Len(AllWords(Reads(acc, c))) \in Nat
         /\ Len(AllWords(acc)) <= Len(AllWords(Reads(acc, c)))
         /\ acc.word = << >> =>
              Reads(acc, c) = acc \/ Len(AllWords(Reads(acc, c))) > Len(acc.words)
<1> DEFINE W == acc.words
           w == acc.word
<1>1. acc = [words |-> W, word |-> w] /\ W \in Seq(Seq(Letters)) /\ w \in Seq(Letters)
  BY DEF States
<1> HIDE DEF W, w
<1>2. \A v \in Seq(Letters) :
        Append(W, v) \in Seq(Seq(Letters)) /\ Len(Append(W, v)) = Len(W) + 1 /\ Len(W) \in Nat
  BY <1>1
<1>3. AllWords(acc) = IF w = << >> THEN W ELSE Append(W, w)
  BY <1>1 DEF AllWords
<1>4. CASE c # "ws"
  <2>1. c \in Letters
    BY <1>4 DEF Symbols, Letters
  <2>2. Append(w, c) \in Seq(Letters) /\ Append(w, c) # << >>
    <3>1. Append(w, c) \in Seq(Letters) /\ Len(Append(w, c)) = Len(w) + 1 /\ Len(w) \in Nat
      BY <1>1, <2>1
    <3>2. Len(<< >>) = 0
      OBVIOUS
    <3> QED BY <3>1, <3>2
  <2>3. Reads(acc, c) = [words |-> W, word |-> Append(w, c)]
    BY <1>1, <1>4 DEF Reads
  <2>4. AllWords(Reads(acc, c)) = Append(W, Append(w, c))
    BY <2>2, <2>3 DEF AllWords
  <2> QED BY <1>1, <1>2, <1>3, <2>2, <2>4
<1>5. CASE c = "ws" /\ w = << >>
  <2>1. Reads(acc, c) = acc
    BY <1>1, <1>5 DEF Reads
  <2> QED BY <2>1, <1>1, <1>2, <1>3
<1>6. CASE c = "ws" /\ w # << >>
  <2>1. Reads(acc, c) = [words |-> Append(W, w), word |-> << >>]
    BY <1>1, <1>6 DEF Reads
  <2>2. AllWords(Reads(acc, c)) = Append(W, w)
    BY <2>1 DEF AllWords
  <2>3. acc.word # << >>
    BY <1>1, <1>6
  <2> QED BY <1>1, <1>2, <1>3, <1>6, <2>2, <2>3
<1> QED BY <1>4, <1>5, <1>6

\* Words never get fewer, and behind a whole word there is nothing or more words.
LEMMA WordsGrow ==
  ASSUME NEW text \in Seq(Symbols), NEW read, IsReading(read, text), NEW m \in 0 .. Len(text)
  PROVE  \A n \in m .. Len(text) :
           /\ Len(AllWords(read[n])) \in Nat
           /\ Len(AllWords(read[m])) <= Len(AllWords(read[n]))
           /\ read[m].word = << >> =>
                read[n] = read[m] \/ Len(AllWords(read[n])) > Len(read[m].words)
<1> DEFINE L(n) == Len(AllWords(read[n]))
           P(n) == /\ L(n) \in Nat /\ L(m) <= L(n)
                   /\ read[m].word = << >> => read[n] = read[m] \/ L(n) > Len(read[m].words)
           H == {n \in m .. Len(text) : P(n)}
<1>1. Len(text) \in Nat /\ \A i \in 1 .. Len(text) : text[i] \in Symbols
  OBVIOUS
<1>2. \A i \in 0 .. Len(text) : read[i] \in States
  BY DEF IsReading
<1>3. m \in H
  <2>1. "ws" \in Symbols /\ read[m] \in States
    BY <1>2 DEF Symbols
  <2>2. L(m) \in Nat
    BY <2>1, SymbolAdds
  <2> QED BY <2>2
<1>4. \A n \in m .. Len(text) - 1 : n \in H => n + 1 \in H
  <2> TAKE n \in m .. Len(text) - 1
  <2> HAVE n \in H
  <2>1. n + 1 \in 1 .. Len(text) /\ n \in 0 .. Len(text) /\ (n + 1) - 1 = n /\ n + 1 \in m .. Len(text)
    BY <1>1
  <2> DEFINE acc == read[n]
             c == text[n + 1]
  <2>2. acc \in States /\ c \in Symbols /\ read[n + 1] = Reads(acc, c)
    BY <1>1, <1>2, <2>1 DEF IsReading
  <2>3. P(n)
    OBVIOUS
  <2>4. /\ L(n) \in Nat /\ L(n + 1) \in Nat /\ L(n) <= L(n + 1)
        /\ acc.word = << >> => read[n + 1] = acc \/ L(n + 1) > Len(acc.words)
    <3> HIDE DEF acc, c
    <3>1. /\ Len(AllWords(acc)) \in Nat /\ Len(AllWords(Reads(acc, c))) \in Nat
          /\ Len(AllWords(acc)) <= Len(AllWords(Reads(acc, c)))
          /\ acc.word = << >> =>
               Reads(acc, c) = acc \/ Len(AllWords(Reads(acc, c))) > Len(acc.words)
      BY ONLY <2>2, SymbolAdds
    <3> QED BY <2>2, <3>1 DEF acc
  <2>5. L(m) \in Nat
    BY <1>3
  <2>6. Len(read[m].words) \in Nat
    BY <1>2 DEF States
  <2> HIDE DEF L
  <2>7. L(m) <= L(n + 1)
    BY <2>3, <2>4, <2>5
  <2>8. ASSUME read[m].word = << >>
        PROVE  read[n + 1] = read[m] \/ L(n + 1) > Len(read[m].words)
    <3>1. CASE read[n] = read[m]
      BY <3>1, <2>4, <2>8
    <3>2. CASE L(n) > Len(read[m].words)
      BY <3>2, <2>4, <2>6
    <3> QED BY <3>1, <3>2, <2>3, <2>8
  <2>9. P(n + 1)
    BY <2>4, <2>7, <2>8
  <2> HIDE DEF P
  <2> QED BY <2>1, <2>9
<1>5. m \in Int /\ Len(text) \in Int
  BY <1>1
<1>6. \A n \in m .. Len(text) : n \in H
  <2> HIDE DEF H
  <2> QED BY ONLY <1>3, <1>4, <1>5, IntervalInduction
<1> QED BY <1>6

\* From its words a profile is loaded, if its numbers are accepted.
LEMMA LoadWords ==
  ASSUME NEW p \in Writable, NEW text \in Seq(Symbols), text # << >>,
         Words(text) = Written(p)
  PROVE  Load(text) \in {p, None} /\ (p \in Stored => Load(text) = p)
<1> DEFINE w == Words(text)
           q == [batch |-> w[2], values |-> [i \in 1 .. Settings |-> Setting(w, i)]]
<1>1. /\ Len(w) = 3 + Settings /\ w \in Seq(Seq(Letters))
      /\ w[1] = <<"V1">> /\ w[2] = p.batch /\ w[3] = Count
      /\ \A i \in 1 .. Settings : w[i + 3] = p.values[i]
  BY WrittenLemma
<1>2. \A i \in 1 .. Settings : Setting(w, i) = p.values[i]
  <2> TAKE i \in 1 .. Settings
  <2>1. i + 3 \in DOMAIN w
    BY <1>1, ProfilesAssumption
  <2> QED BY <2>1, <1>1 DEF Setting
<1>3. q = p
  <2>1. p = [batch |-> p.batch, values |-> p.values] /\ p.values = [i \in 1 .. Settings |-> p.values[i]]
    BY DEF Writable
  <2>2. [i \in 1 .. Settings |-> Setting(w, i)] = [i \in 1 .. Settings |-> p.values[i]]
    BY <1>2
  <2> QED BY <1>1, <2>1, <2>2
<1>4. text \notin {None, << >>}
  BY ProfilesAssumption
<1>5. Load(text) = IF /\ w[1] = <<"V1">> /\ Complete(Len(w))
                      /\ InRange(w[2]) /\ w[3] = Count
                      /\ \A i \in 1 .. Settings : Accepted(q.values[i])
                   THEN q ELSE None
  <2> QED BY <1>4 DEF Load
<1> HIDE DEF w, q
<1>6. ASSUME p \in Stored
      PROVE  Load(text) = p
  <2>1. Complete(Len(w)) /\ InRange(w[2]) /\ \A i \in 1 .. Settings : Accepted(q.values[i])
    BY <1>1, <1>3, <1>6 DEF Stored, Complete, InRange, Accepted
  <2> QED BY <2>1, <1>1, <1>3, <1>5
<1> QED BY <1>3, <1>5, <1>6

\* A text with the wrong number of words is refused.
LEMMA LoadRefuses ==
  ASSUME NEW text, Len(Words(text)) # 3 + Settings
  PROVE  Load(text) = None
BY DEF Load, Complete

\* The reading of a whole text, with anything behind it.
LEMMA WholeRead ==
  ASSUME NEW p \in Writable, NEW tail \in Seq(Symbols)
  PROVE  /\ ProfileText(p) \in Seq(Symbols) /\ ProfileText(p) \o tail \in Seq(Symbols)
         /\ Len(ProfileText(p)) \in Nat \ {0} /\ Len(ProfileText(p) \o tail) = Len(ProfileText(p)) + Len(tail)
         /\ \A read : IsReading(read, ProfileText(p) \o tail) =>
              read[Len(ProfileText(p))] = [words |-> Written(p), word |-> << >>]
<1> DEFINE N == 3 + Settings
           t == ProfileText(p) \o tail
<1>0. N \in Nat \ {0} /\ N \in 0 .. N
  BY ProfilesAssumption
<1>1. PICK T : IsText(T, p) /\ ProfileText(p) = T[N]
  BY TextLemma
<1>2. ProfileText(p) \in Seq(Symbols)
  BY <1>0, <1>1 DEF IsText
<1>3. /\ t \in Seq(Symbols) /\ Len(t) = Len(ProfileText(p)) + Len(tail)
      /\ \A k \in 1 .. Len(ProfileText(p)) : t[k] = ProfileText(p)[k]
  BY ONLY <1>2, tail \in Seq(Symbols), ConcatLemma
<1>4. Len(ProfileText(p)) \in Nat \ {0}
  <2> DEFINE m == 2 + Settings
  <2>1. m \in 0 .. 2 + Settings /\ m + 1 = N
    BY ProfilesAssumption
  <2>2. Grows(T[m], Written(p)[m + 1], T[m + 1])
    BY <1>1, <2>1, TextGrows
  <2> DEFINE w == Written(p)[m + 1]
             a == T[m]
             b == T[m + 1]
  <2>3. ProfileText(p) = b
    BY ONLY <1>1, <2>1
  <2> HIDE DEF m, N, w, a, b
  <2>4. Len(a) \in Nat /\ Len(w) \in Nat /\ Len(b) = Len(a) + Len(w) + 1
    <3>1. Grows(a, w, b)
      BY ONLY <2>2 DEF a, b, w
    <3> QED BY ONLY <3>1 DEF Grows
  <2>5. Len(b) \in Nat \ {0}
    BY ONLY <2>4
  <2> QED BY ONLY <2>3, <2>5
<1>5. ASSUME NEW read, IsReading(read, t)
      PROVE  read[Len(ProfileText(p))] = [words |-> Written(p), word |-> << >>]
  <2> HIDE DEF t
  <2>1. Len(ProfileText(p)) <= Len(t)
    <3>1. Len(tail) \in Nat
      OBVIOUS
    <3> QED BY <3>1, <1>3, <1>4
  <2>2. \A i \in 0 .. 3 + Settings :
          read[Len(T[i])] = [words |-> SubSeq(Written(p), 1, i), word |-> << >>]
    <3>1. /\ Len(T[3 + Settings]) <= Len(t)
          /\ \A k \in 1 .. Len(T[3 + Settings]) : t[k] = T[3 + Settings][k]
      BY <1>1, <1>3, <2>1
    <3>2. p \in Writable /\ IsText(T, p) /\ t \in Seq(Symbols) /\ IsReading(read, t)
      BY <1>1, <1>3, <1>5
    <3> QED BY ONLY <3>1, <3>2, WordsRead
  <2>3. SubSeq(Written(p), 1, N) = Written(p)
    <3>1. Written(p) \in Seq(Seq(Letters)) /\ Len(Written(p)) = N
      BY WrittenLemma
    <3> HIDE DEF N
    <3> QED BY <3>1
  <2>4. read[Len(T[N])] = [words |-> SubSeq(Written(p), 1, N), word |-> << >>]
    BY ONLY <1>0, <2>2
  <2> HIDE DEF N
  <2> QED BY ONLY <1>1, <2>3, <2>4
<1> QED BY <1>2, <1>3, <1>4, <1>5

\* Whatever is behind the text of a profile, that profile is loaded or none.
LEMMA LoadTail ==
  ASSUME NEW p \in Writable, NEW tail \in Seq(Symbols)
  PROVE  Load(ProfileText(p) \o tail) \in {p, None}
<1> DEFINE t == ProfileText(p) \o tail
           m == Len(ProfileText(p))
<1>1. /\ t \in Seq(Symbols) /\ m \in Nat \ {0} /\ Len(t) = m + Len(tail)
      /\ \A read : IsReading(read, t) => read[m] = [words |-> Written(p), word |-> << >>]
  BY WholeRead
<1> HIDE DEF t, m
<1>2. PICK read : IsReading(read, t) /\ Words(t) = AllWords(read[Len(t)])
  BY <1>1, ReadingLemma
<1>3. m \in 0 .. Len(t) /\ Len(t) \in m .. Len(t) /\ Len(t) \in Nat
  <2>1. Len(tail) \in Nat
    OBVIOUS
  <2> QED BY <1>1, <2>1
<1>4. read[m].word = << >> /\ read[m].words = Written(p) /\ AllWords(read[m]) = Written(p)
  BY <1>1, <1>2 DEF AllWords
<1>5. read[Len(t)] = read[m] \/ Len(Words(t)) > Len(Written(p))
  BY <1>1, <1>2, <1>3, <1>4, WordsGrow
<1>6. t # << >>
  <2>1. Len(<< >>) = 0 /\ Len(t) # 0
    BY <1>1, <1>3
  <2> QED BY <2>1
<1>7. CASE read[Len(t)] = read[m]
  <2>1. Words(t) = Written(p)
    BY <1>2, <1>4, <1>7
  <2> QED BY <2>1, <1>1, <1>6, LoadWords DEF t
<1>8. CASE Len(Words(t)) > Len(Written(p))
  <2>1. Len(Words(t)) # 3 + Settings
    <3>1. Len(Written(p)) = 3 + Settings /\ 3 + Settings \in Nat
      BY WrittenLemma, ProfilesAssumption
    <3> QED BY <3>1, <1>8
  <2> QED BY <2>1, LoadRefuses DEF t
<1> QED BY <1>5, <1>7, <1>8

\* The whole text of a profile gives it back.
LEMMA LoadWhole ==
  ASSUME NEW p \in Writable, p \in Stored
  PROVE  Load(ProfileText(p)) = p
<1> DEFINE t == ProfileText(p) \o << >>
           m == Len(ProfileText(p))
<1>1. << >> \in Seq(Symbols) /\ Len(<< >>) = 0
  OBVIOUS
<1>2. /\ ProfileText(p) \in Seq(Symbols) /\ m \in Nat \ {0}
      /\ \A read : IsReading(read, t) => read[m] = [words |-> Written(p), word |-> << >>]
  BY <1>1, WholeRead
<1>3. t = ProfileText(p)
  BY <1>2
<1>4. ProfileText(p) # << >>
  BY <1>1, <1>2
<1> HIDE DEF t
<1>5. PICK read : IsReading(read, ProfileText(p)) /\ Words(ProfileText(p)) = AllWords(read[m])
  BY <1>2, ReadingLemma
<1>6. Words(ProfileText(p)) = Written(p)
  BY <1>2, <1>3, <1>5 DEF AllWords
<1> QED BY <1>2, <1>4, <1>6, LoadWords

\* If settings have one digit, a text that was cut is refused, unless only
\* white space is missing.
LEMMA LoadCut ==
  ASSUME NEW p \in Writable, \A i \in 1 .. Settings : Len(p.values[i]) = 1,
         NEW c \in 0 .. Len(ProfileText(p)) - 1
  PROVE  Load(SubSeq(ProfileText(p), 1, c)) \in {p, None}
<1> DEFINE N == 3 + Settings
           M == 2 + Settings
           full == ProfileText(p)
           t == SubSeq(full, 1, c)
           W == Written(p)
<1>0. N \in Nat /\ M \in Nat /\ M + 1 = N /\ N \in 0 .. N /\ M \in 0 .. N /\ N \in M .. N /\ N \in 1 .. N
      /\ M \in 0 .. 2 + Settings /\ N = Settings + 3 /\ Settings \in 1 .. Settings /\ M < N
  BY ProfilesAssumption
<1>1. PICK T : IsText(T, p) /\ full = T[N]
  BY TextLemma
<1>2. full \in Seq(Symbols) /\ Len(full) \in Nat
  <2>1. << >> \in Seq(Symbols)
    OBVIOUS
  <2> QED BY <2>1, WholeRead
<1>3. /\ W \in Seq(Seq(Letters)) /\ Len(W) = N /\ W[N] \in WordSet /\ Len(W[N]) = 1
  <2>1. W[N] = p.values[Settings]
    BY <1>0, WrittenLemma
  <2> QED BY <1>0, <2>1, WrittenLemma
<1>4. Grows(T[M], W[M + 1], T[M + 1])
  BY <1>0, <1>1, TextGrows
<1> DEFINE e == Len(T[M])
<1>5. /\ e \in Nat /\ Len(full) = e + 2 /\ full[e + 1] = W[N][1]
  <2> HIDE DEF N, M, full, W, e
  <2>1. Grows(T[M], W[N], full)
    BY <1>0, <1>1, <1>4
  <2>2. 1 \in 1 .. Len(W[N])
    BY <1>3
  <2> QED BY <2>1, <2>2, <1>3 DEF Grows, e
<1>6. /\ t \in Seq(Symbols) /\ Len(t) = c /\ \A k \in 1 .. c : t[k] = full[k]
  <2>1. c \in Nat /\ c <= Len(full)
    BY <1>2
  <2> HIDE DEF full
  <2> QED BY <1>2, <2>1
<1>7. PICK rf : IsReading(rf, full) /\ Words(full) = AllWords(rf[Len(full)])
  BY <1>2, ReadingLemma
<1> HIDE DEF t
<1>8. PICK rt : IsReading(rt, t) /\ Words(t) = AllWords(rt[Len(t)])
  BY <1>6, ReadingLemma
<1>9. Words(t) = AllWords(rf[c])
  <2>1. c \in Nat /\ c <= Len(t) /\ c <= Len(full) /\ c \in 0 .. c
    BY <1>2, <1>6
  <2> HIDE DEF full
  <2>2. \A i \in 0 .. c : rt[i] = rf[i]
    BY <1>2, <1>6, <1>7, <1>8, <2>1, SameReading
  <2> QED BY <1>6, <1>8, <2>1, <2>2
<1>10. rf[e] = [words |-> SubSeq(W, 1, M), word |-> << >>]
  <2>1. Len(T[3 + Settings]) <= Len(full) /\ \A k \in 1 .. Len(T[3 + Settings]) : full[k] = T[3 + Settings][k]
    BY <1>1, <1>2
  <2> HIDE DEF full, W
  <2>3. W = Written(p)
    BY DEF W
  <2>4. p \in Writable /\ IsText(T, p) /\ full \in Seq(Symbols) /\ IsReading(rf, full)
    BY <1>1, <1>2, <1>7
  <2>2. \A i \in 0 .. 3 + Settings : rf[Len(T[i])] = [words |-> SubSeq(W, 1, i), word |-> << >>]
    BY ONLY <2>1, <2>3, <2>4, WordsRead
  <2> HIDE DEF M, W
  <2> QED BY <1>0, <2>2
<1> HIDE DEF full, e, N, M, W
<1>11. Len(SubSeq(W, 1, M)) = M
  BY <1>0, <1>3
<1>12. CASE c <= e
  <2>1. c \in 0 .. Len(full) /\ e \in c .. Len(full)
    BY <1>2, <1>5, <1>12
  <2>2. Len(AllWords(rf[c])) <= Len(AllWords(rf[e])) /\ Len(AllWords(rf[c])) \in Nat
    <3>1. c \in c .. Len(full)
      BY <2>1
    <3> QED BY <1>2, <1>7, <2>1, <3>1, WordsGrow
  <2>3. AllWords(rf[e]) = SubSeq(W, 1, M)
    <3> DEFINE V == SubSeq(W, 1, M)
    <3> HIDE DEF V
    <3>1. AllWords([words |-> V, word |-> << >>]) = V
      BY DEF AllWords
    <3> QED BY <1>10, <3>1 DEF V
  <2>4. Len(Words(t)) # 3 + Settings
    <3>1. Len(Words(t)) # N
      BY <1>0, <1>9, <1>11, <2>2, <2>3
    <3> QED BY <3>1 DEF N
  <2> QED BY <2>4, LoadRefuses DEF t, full
<1>13. CASE c > e
  <2>1. c = e + 1
    BY <1>2, <1>5, <1>13 DEF full
  <2>2. e + 1 \in 1 .. Len(full) /\ (e + 1) - 1 = e
    BY <1>5
  <2>3. rf[e + 1] = Reads(rf[e], W[N][1])
    BY <1>5, <1>7, <2>2 DEF IsReading
  <2>4. W[N][1] # "ws" /\ W[N] = <<W[N][1]>>
    <3>1. W[N] \in Seq(Letters) /\ 1 \in 1 .. Len(W[N])
      BY <1>3 DEF WordSet
    <3>2. W[N][1] \in Letters
      BY <3>1
    <3>3. W[N][1] # "ws"
      BY <3>2, ProfilesAssumption DEF Letters
    <3>4. W[N] = <<W[N][1]>>
      BY <3>1, <1>3
    <3> QED BY <3>3, <3>4
  <2>5. rf[e + 1] = [words |-> SubSeq(W, 1, M), word |-> <<W[N][1]>>]
    <3> DEFINE d == W[N][1]
               V == SubSeq(W, 1, M)
    <3>1. d # "ws" /\ rf[e + 1] = Reads([words |-> V, word |-> << >>], d)
      BY <1>10, <2>3, <2>4
    <3> HIDE DEF d, V
    <3>2. Append(<< >>, d) = <<d>>
      OBVIOUS
    <3>3. rf[e + 1] = [words |-> V, word |-> <<d>>]
      BY <3>1, <3>2 DEF Reads
    <3> QED BY <3>3 DEF d, V
  <2>6. Words(t) = Append(SubSeq(W, 1, M), W[N])
    <3> DEFINE d == W[N][1]
               V == SubSeq(W, 1, M)
    <3>1. Words(t) = AllWords([words |-> V, word |-> <<d>>]) /\ W[N] = <<d>>
      BY <1>9, <2>1, <2>4, <2>5
    <3> HIDE DEF d, V
    <3>2. <<d>> # << >>
      OBVIOUS
    <3>3. AllWords([words |-> V, word |-> <<d>>]) = Append(V, <<d>>)
      BY <3>2 DEF AllWords
    <3> QED BY ONLY <3>1, <3>3 DEF V
  <2>7. Words(t) = W
    <3>1. SubSeq(W, 1, M + 1) = Append(SubSeq(W, 1, M), W[M + 1])
      BY <1>0, <1>3, PrefixGrows
    <3>2. SubSeq(W, 1, N) = W
      BY <1>0, <1>3
    <3> QED BY <1>0, <2>6, <3>1, <3>2
  <2>8. t # << >>
    <3>1. Len(<< >>) = 0 /\ Len(t) # 0
      BY <1>5, <1>6, <2>1
    <3> QED BY <3>1
  <2> QED BY <1>6, <2>7, <2>8, LoadWords DEF W, t, full
<1>14. c \in Nat
  BY <1>2
<1> QED BY <1>5, <1>12, <1>13, <1>14

-----------------------------------------------------------------------------
\* What is loaded is a profile the library accepts.
LEMMA LoadType ==
  ASSUME NEW text
  PROVE  Load(text) \in Stored \cup {None}
<1> DEFINE w == Words(text)
           p == [batch |-> w[2], values |-> [i \in 1 .. Settings |-> Setting(w, i)]]
<1>1. CASE Load(text) = p /\ InRange(w[2]) /\ \A i \in 1 .. Settings : Accepted(p.values[i])
  <2>1. \A i \in 1 .. Settings : Setting(w, i) \in Values
    BY <1>1 DEF Accepted
  <2>2. w[2] \in Batches
    BY <1>1 DEF InRange
  <2> QED BY <1>1, <2>1, <2>2 DEF Stored
<1>2. CASE Load(text) = None
  BY <1>2
<1> QED BY <1>1, <1>2 DEF Load

(***************************************************************************)
(* The inductive invariant.  A benchmark that has the file open wrote what *)
(* it recommended or will; unless another had it open as well, the file is *)
(* still empty.  What is reported as saved and was not opened since is in  *)
(* the file, whole.  Otherwise the file holds the text of a recommended    *)
(* profile and the rest of another text, or a beginning of one, or it is   *)
(* spliced: what it gives a reader is then not known.                      *)
(***************************************************************************)
WritingInv ==
  /\ writing \in [Writers -> Profiles \cup {None}]
  /\ \A w \in Writers : writing[w] # None => writing[w] \in proposed /\ file # None
  /\ saved # Mixed =>
       \A w \in Writers : writing[w] # None =>
         /\ file = << >> /\ saved = None
         /\ \A v \in Writers : v # w => writing[v] = None

SavedInv == saved \notin {None, Mixed} => file = ProfileText(saved)

StoreInv == ProfileTypeOK /\ WritingInv /\ SavedInv

IsWhole(text, p) == \E tail \in Seq(Symbols) : text = ProfileText(p) \o tail
IsCut(text, p) == \E c \in 0 .. Len(ProfileText(p)) - 1 : text = SubSeq(ProfileText(p), 1, c)

FileInv ==
  \/ spliced
  \/ file \in {None, << >>}
  \/ \E p \in proposed : IsWhole(file, p)
  \/ \E p \in proposed \cap Profiles : IsCut(file, p)

ReadInv ==
  \A r \in Readers \ misled :
    loaded[r] \in proposed \cup {None} /\ executed[r] \in proposed \cup {None}

\* The text of a profile is a text.
LEMMA TextType ==
  ASSUME NEW p \in Profiles \cup Foreign
  PROVE  ProfileText(p) \in Seq(Symbols) /\ Len(ProfileText(p)) \in Nat \ {0}
<1>1. p \in Writable /\ << >> \in Seq(Symbols)
  BY WritableLemma
<1> QED BY <1>1, WholeRead

\* A text over an empty file is that text; over any file, that text and a tail.
LEMMA OverwriteLemma ==
  ASSUME NEW text \in Seq(Symbols), file \in Seq(Symbols)
  PROVE  /\ Overwrite(text) \in Seq(Symbols)
         /\ \E tail \in Seq(Symbols) : Overwrite(text) = text \o tail
         /\ file = << >> => Overwrite(text) = text
<1> DEFINE tail == SubSeq(file, Len(text) + 1, Len(file))
<1>1. tail \in Seq(Symbols) /\ Overwrite(text) = text \o tail
  <2>1. Len(text) \in Nat /\ Len(file) \in Nat
    OBVIOUS
  <2> QED BY <2>1 DEF Overwrite
<1>2. ASSUME file = << >>
      PROVE  Overwrite(text) = text
  <2>1. Len(tail) = 0
    BY <1>2
  <2>2. tail = << >>
    BY <1>1, <2>1
  <2> HIDE DEF tail
  <2> QED BY <1>1, <2>2
<1> HIDE DEF tail
<1>3. text \o tail \in Seq(Symbols)
  BY <1>1
<1> QED BY ONLY <1>1, <1>2, <1>3

\* Names of the profiles and of the other values do not clash.
LEMMA NoneLemma ==
  /\ None \notin Profiles /\ Mixed \notin Profiles /\ None # Mixed
  /\ None \notin Seq(Symbols) /\ Profiles \subseteq Stored
BY ProfilesAssumption

\* The invariant holds at the start.
LEMMA StoreInit == ProfileInit => StoreInv
<1> SUFFICES ASSUME ProfileInit PROVE StoreInv
  OBVIOUS
<1>1. ProfileTypeOK
  <2>1. CASE file = None /\ proposed = {}
    BY <2>1 DEF ProfileInit, ProfileTypeOK
  <2>2. CASE \E p \in Foreign : file = ProfileText(p) /\ proposed = {p}
    BY <2>2, TextType DEF ProfileInit, ProfileTypeOK
  <2> QED BY <2>1, <2>2 DEF ProfileInit
<1> QED BY <1>1, NoneLemma DEF ProfileInit, StoreInv, WritingInv, SavedInv

\* A benchmark opens the file.
LEMMA StoreOpen ==
  ASSUME StoreInv, NEW w \in Writers, Open(w)
  PROVE  StoreInv'
<1>1. PICK p \in Profiles :
        /\ writing[w] = None /\ writing' = [writing EXCEPT ![w] = p]
        /\ proposed' = proposed \cup {p} /\ file' = << >>
        /\ saved' = IF writing = [v \in Writers |-> None] THEN None ELSE Mixed
        /\ spliced' = FALSE /\ UNCHANGED readerVars
  BY DEF Open
<1>2. << >> \in Seq(Symbols) /\ << >> # None
  <2>1. << >> \in Seq(Symbols)
    OBVIOUS
  <2> QED BY ONLY <2>1, NoneLemma
<1>3. ProfileTypeOK'
  BY <1>1, <1>2 DEF StoreInv, ProfileTypeOK, readerVars
<1>4. WritingInv'
  <2>1. writing \in [Writers -> Profiles \cup {None}]
    BY DEF StoreInv, ProfileTypeOK
  <2>2. /\ writing'[w] = p /\ \A v \in Writers : v # w => writing'[v] = writing[v]
        /\ writing' \in [Writers -> Profiles \cup {None}]
    BY <1>1, <2>1
  <2>3. \A v \in Writers : writing'[v] # None => writing'[v] \in proposed' /\ file' # None
    BY <1>1, <1>2, <2>2 DEF StoreInv, WritingInv
  <2>4. ASSUME saved' # Mixed
        PROVE  saved' = None /\ \A v \in Writers : v # w => writing'[v] = None
    <3>1. writing = [v \in Writers |-> None] /\ saved' = None
      BY <1>1, <2>4
    <3>2. \A v \in Writers : writing[v] = None
      BY <3>1
    <3> QED BY <3>1, <3>2, <2>2
  <2> QED BY <1>1, <2>2, <2>3, <2>4 DEF WritingInv
<1>5. SavedInv'
  BY <1>1 DEF SavedInv
<1> QED BY <1>3, <1>4, <1>5 DEF StoreInv

\* A benchmark closes the file and all is written.
LEMMA StoreClose ==
  ASSUME StoreInv, NEW w \in Writers, Close(w)
  PROVE  StoreInv'
<1> DEFINE p == writing[w]
<1>1. /\ p \in Profiles /\ p # None /\ file \in Seq(Symbols)
      /\ file' = Overwrite(ProfileText(p)) /\ saved' = IF saved = Mixed THEN Mixed ELSE p
      /\ writing' = [writing EXCEPT ![w] = None]
      /\ spliced' = FALSE /\ UNCHANGED <<proposed, readerVars>>
  BY DEF Close, StoreInv, WritingInv, ProfileTypeOK
<1>2. writing \in [Writers -> Profiles \cup {None}]
  BY DEF StoreInv, ProfileTypeOK
<1>3. /\ writing'[w] = None /\ \A v \in Writers : v # w => writing'[v] = writing[v]
      /\ writing' \in [Writers -> Profiles \cup {None}]
  BY <1>1, <1>2
<1>4. file' \in Seq(Symbols) /\ file' # None /\ (file = << >> => file' = ProfileText(p))
  <2>1. ProfileText(p) \in Seq(Symbols)
    BY <1>1, TextType
  <2>2. /\ Overwrite(ProfileText(p)) \in Seq(Symbols)
        /\ file = << >> => Overwrite(ProfileText(p)) = ProfileText(p)
    BY ONLY <1>1, <2>1, OverwriteLemma
  <2>3. None \notin Seq(Symbols)
    BY NoneLemma
  <2> QED BY ONLY <1>1, <2>2, <2>3
<1>5. saved # Mixed => file = << >> /\ \A v \in Writers : writing'[v] = None
  <2>1. saved # Mixed => file = << >> /\ \A v \in Writers : v # w => writing[v] = None
    BY <1>1 DEF StoreInv, WritingInv
  <2> QED BY <1>3, <2>1
<1>6. ProfileTypeOK'
  BY <1>1, <1>3, <1>4 DEF StoreInv, ProfileTypeOK, readerVars
<1>7. WritingInv'
  <2>1. \A v \in Writers : writing'[v] # None => writing'[v] \in proposed' /\ file' # None
    BY <1>1, <1>3, <1>4 DEF StoreInv, WritingInv
  <2>2. saved' # Mixed => saved # Mixed
    BY <1>1
  <2> QED BY <1>3, <1>5, <2>1, <2>2 DEF WritingInv
<1>8. SavedInv'
  BY <1>1, <1>4, <1>5 DEF SavedInv
<1> QED BY <1>6, <1>7, <1>8 DEF StoreInv

\* A benchmark closes the file and a part is written: the file is a cut text,
\* or the rest of what was in it follows, or nothing was written.
LEMMA StoreCut ==
  ASSUME StoreInv, NEW w \in Writers, CloseCut(w)
  PROVE  /\ StoreInv' /\ proposed' = proposed
         /\ \/ spliced'
            \/ file' = file /\ spliced' = spliced
            \/ \E p \in proposed \cap Profiles : IsCut(file', p)
<1> DEFINE p == writing[w]
<1>1. PICK n \in 0 .. Len(ProfileText(p)) - 1 :
        /\ file' = Overwrite(SubSeq(ProfileText(p), 1, n))
        /\ spliced' = IF n = 0 THEN spliced ELSE n < Len(file)
  BY DEF CloseCut
<1>2. /\ p \in Profiles /\ p \in proposed /\ p # None /\ file \in Seq(Symbols)
      /\ writing' = [writing EXCEPT ![w] = None]
      /\ UNCHANGED <<proposed, saved, readerVars>>
  BY DEF CloseCut, StoreInv, WritingInv, ProfileTypeOK
<1>3. saved # Mixed => saved = None /\ \A v \in Writers : v # w => writing[v] = None
  BY <1>2 DEF StoreInv, WritingInv
<1>4. writing \in [Writers -> Profiles \cup {None}]
  BY DEF StoreInv, ProfileTypeOK
<1>5. /\ writing'[w] = None /\ \A v \in Writers : v # w => writing'[v] = writing[v]
      /\ writing' \in [Writers -> Profiles \cup {None}]
  BY <1>2, <1>4
<1> DEFINE cut == SubSeq(ProfileText(p), 1, n)
<1>6. cut \in Seq(Symbols) /\ Len(cut) = n /\ n \in Nat
  <2>1. /\ ProfileText(p) \in Seq(Symbols) /\ Len(ProfileText(p)) \in Nat
        /\ n \in Nat /\ n <= Len(ProfileText(p))
    BY <1>2, TextType
  <2> HIDE DEF p
  <2> QED BY <2>1
<1>7. file' \in Seq(Symbols) /\ file' # None
  <2> HIDE DEF cut
  <2>1. Overwrite(cut) \in Seq(Symbols)
    BY <1>2, <1>6, OverwriteLemma
  <2> QED BY <1>1, <2>1, NoneLemma DEF cut
<1>8. spliced' \in BOOLEAN
  <2>1. spliced \in BOOLEAN
    BY DEF StoreInv, ProfileTypeOK
  <2>2. CASE n = 0
    BY <1>1, <2>1, <2>2, Zenon
  <2>3. CASE n # 0
    <3>1. spliced' = (n < Len(file))
      BY <1>1, <2>3, Zenon
    <3>2. (n < Len(file)) \in BOOLEAN
      BY <1>2, <1>6, SMT
    <3> QED BY <3>1, <3>2, Zenon
  <2> QED BY <2>2, <2>3
<1>9. ProfileTypeOK'
  BY <1>2, <1>5, <1>7, <1>8 DEF StoreInv, ProfileTypeOK, readerVars
<1>10. WritingInv'
  <2>1. \A v \in Writers : writing'[v] # None => writing'[v] \in proposed' /\ file' # None
    BY <1>2, <1>5, <1>7 DEF StoreInv, WritingInv
  <2>2. saved' # Mixed => \A v \in Writers : writing'[v] = None
    BY <1>2, <1>3, <1>5
  <2> QED BY <1>5, <2>1, <2>2 DEF WritingInv
<1>11. SavedInv'
  BY <1>2, <1>3 DEF SavedInv
<1>12. CASE n = 0
  <2>1. cut = << >>
    BY <1>6, <1>12
  <2>2. << >> \o SubSeq(file, 0 + 1, Len(file)) = file
    BY <1>2
  <2>3. file' = file
    <3> HIDE DEF cut
    <3> QED BY <1>1, <2>1, <2>2 DEF Overwrite, cut
  <2> QED BY <1>1, <1>2, <1>9, <1>10, <1>11, <1>12, <2>3 DEF StoreInv
<1>13. CASE n # 0 /\ n < Len(file)
  BY <1>1, <1>2, <1>9, <1>10, <1>11, <1>13 DEF StoreInv
<1>14. CASE n # 0 /\ Len(file) <= n
  <2>1. file' = cut
    <3> HIDE DEF cut
    <3>1. SubSeq(file, n + 1, Len(file)) = << >>
      BY <1>2, <1>6, <1>14
    <3>2. Overwrite(cut) = cut \o << >>
      BY <1>6, <3>1 DEF Overwrite
    <3> QED BY <1>1, <1>6, <3>2 DEF cut
  <2>2. IsCut(file', p)
    BY <2>1 DEF IsCut
  <2> QED BY <1>2, <1>9, <1>10, <1>11, <2>2 DEF StoreInv
<1>15. Len(file) \in Nat
  BY <1>2
<1> QED BY <1>6, <1>12, <1>13, <1>14, <1>15

\* A benchmark is killed.
LEMMA StoreKill ==
  ASSUME StoreInv, NEW w \in Writers, Kill(w)
  PROVE  StoreInv'
<1>1. /\ writing' = [writing EXCEPT ![w] = None]
      /\ UNCHANGED <<file, proposed, saved, spliced, readerVars>>
  BY DEF Kill
<1>2. writing \in [Writers -> Profiles \cup {None}]
  BY DEF StoreInv, ProfileTypeOK
<1>3. /\ writing'[w] = None /\ \A v \in Writers : v # w => writing'[v] = writing[v]
      /\ writing' \in [Writers -> Profiles \cup {None}]
  BY <1>1, <1>2
<1>4. ProfileTypeOK'
  BY <1>1, <1>3 DEF StoreInv, ProfileTypeOK, readerVars
<1>5. WritingInv'
  BY <1>1, <1>3 DEF StoreInv, WritingInv
<1>6. SavedInv'
  BY <1>1 DEF StoreInv, SavedInv
<1> QED BY <1>4, <1>5, <1>6 DEF StoreInv

\* A program reads the file or runs its operation.
LEMMA StoreRead ==
  ASSUME StoreInv, NEW r \in Readers, ReadProfile(r) \/ Execute(r)
  PROVE  StoreInv'
<1>1. UNCHANGED <<file, writing, proposed, saved, spliced>>
  BY DEF ReadProfile, Execute, storeVars
<1>2. /\ loaded' \in [Readers -> Stored \cup {None}]
      /\ executed' \in [Readers -> Stored \cup {None}]
      /\ misled' \subseteq Readers
  <2>1. /\ misled \subseteq Readers /\ loaded \in [Readers -> Stored \cup {None}]
        /\ executed \in [Readers -> Stored \cup {None}]
    BY DEF StoreInv, ProfileTypeOK
  <2>2. CASE ReadProfile(r)
    BY <2>1, <2>2, LoadType DEF ReadProfile
  <2>3. CASE Execute(r)
    BY <2>1, <2>3 DEF Execute
  <2> QED BY <2>2, <2>3
<1> QED BY <1>1, <1>2 DEF StoreInv, ProfileTypeOK, WritingInv, SavedInv

LEMMA StoreNext == StoreInv /\ [ProfileNext]_profileVars => StoreInv'
<1> SUFFICES ASSUME StoreInv, [ProfileNext]_profileVars PROVE StoreInv'
  OBVIOUS
<1>1. CASE \E w \in Writers : Open(w) \/ Close(w) \/ CloseCut(w) \/ Kill(w)
  BY <1>1, StoreOpen, StoreClose, StoreCut, StoreKill
<1>2. CASE \E r \in Readers : ReadProfile(r) \/ Execute(r)
  BY <1>2, StoreRead
<1>3. CASE UNCHANGED profileVars
  BY <1>3 DEF profileVars, storeVars, readerVars, StoreInv, ProfileTypeOK, WritingInv, SavedInv
<1> QED BY <1>1, <1>2, <1>3 DEF ProfileNext

THEOREM StoreInvTheorem == ProfileSpec => []StoreInv
BY StoreInit, StoreNext, PTL DEF ProfileSpec

\* A profile that a benchmark reported as saved is accepted, unchanged, by
\* every later program, whatever else was killed, cut short or read meanwhile
\* (pqcuda_profile_save and pqcuda_profile_load).
THEOREM SavedProfileLoadsTheorem == ProfileSpec => []SavedProfileLoads
<1>1. StoreInv => SavedProfileLoads
  <2> SUFFICES ASSUME StoreInv, saved \notin {None, Mixed} PROVE Load(file) = saved
    BY DEF SavedProfileLoads
  <2>1. file = ProfileText(saved) /\ saved \in Profiles
    BY DEF StoreInv, SavedInv, ProfileTypeOK
  <2>2. saved \in Stored /\ saved \in Writable
    BY <2>1, NoneLemma, WritableLemma
  <2> QED BY <2>1, <2>2, LoadWhole
<1> QED BY <1>1, StoreInvTheorem, PTL

-----------------------------------------------------------------------------
\* What is read from a file that is not spliced was recommended, if settings
\* have one digit.
LEMMA ReadRecommended ==
  ASSUME StoreInv, FileInv, ~spliced, \A v \in Values : Len(v) = 1
  PROVE  Load(file) \in proposed \cup {None}
<1>1. CASE file \in {None, << >>}
  BY <1>1 DEF Load
<1>2. ASSUME NEW p \in proposed, IsWhole(file, p)
      PROVE  Load(file) \in proposed \cup {None}
  <2>1. p \in Writable
    BY WritableLemma DEF StoreInv, ProfileTypeOK
  <2> QED BY <2>1, <1>2, LoadTail DEF IsWhole
<1>3. ASSUME NEW p \in proposed \cap Profiles, IsCut(file, p)
      PROVE  Load(file) \in proposed \cup {None}
  <2>1. p \in Writable /\ p \in Stored
    BY WritableLemma, NoneLemma
  <2>2. \A i \in 1 .. Settings : Len(p.values[i]) = 1
    BY <2>1 DEF Stored
  <2> QED BY <2>1, <2>2, <1>3, LoadCut DEF IsCut
<1> QED BY <1>1, <1>2, <1>3 DEF FileInv

LEMMA FileInit == ProfileInit => FileInv
<1> SUFFICES ASSUME ProfileInit PROVE FileInv
  OBVIOUS
<1>1. CASE file = None
  BY <1>1 DEF FileInv
<1>2. CASE \E p \in Foreign : file = ProfileText(p) /\ proposed = {p}
  <2>1. PICK p \in Foreign : file = ProfileText(p) /\ proposed = {p}
    BY <1>2
  <2>2. ProfileText(p) \in Seq(Symbols) /\ << >> \in Seq(Symbols)
    BY TextType
  <2>3. file = ProfileText(p) \o << >>
    BY <2>1, <2>2
  <2> QED BY <2>1, <2>2, <2>3 DEF FileInv, IsWhole
<1> QED BY <1>1, <1>2 DEF ProfileInit

LEMMA FileNext == StoreInv /\ FileInv /\ [ProfileNext]_profileVars => FileInv'
<1> SUFFICES ASSUME StoreInv, FileInv, [ProfileNext]_profileVars PROVE FileInv'
  OBVIOUS
<1>1. ASSUME NEW w \in Writers, Open(w)
      PROVE  FileInv'
  BY <1>1 DEF Open, FileInv
<1>2. ASSUME NEW w \in Writers, Close(w)
      PROVE  FileInv'
  <2>1. /\ writing[w] \in Profiles /\ writing[w] \in proposed /\ file \in Seq(Symbols)
        /\ file' = Overwrite(ProfileText(writing[w])) /\ proposed' = proposed
    BY <1>2 DEF Close, StoreInv, WritingInv, ProfileTypeOK
  <2>2. IsWhole(file', writing[w])
    BY <2>1, TextType, OverwriteLemma DEF IsWhole
  <2> QED BY <2>1, <2>2 DEF FileInv
<1>3. ASSUME NEW w \in Writers, CloseCut(w)
      PROVE  FileInv'
  <2>1. CASE file' = file /\ spliced' = spliced /\ proposed' = proposed
    BY <2>1 DEF FileInv, IsWhole, IsCut
  <2>2. CASE spliced' \/ \E p \in proposed \cap Profiles : IsCut(file', p)
    BY <1>3, <2>2, StoreCut DEF FileInv
  <2> QED BY <1>3, <2>1, <2>2, StoreCut
<1>4. ASSUME UNCHANGED <<file, proposed, spliced>>
      PROVE  FileInv'
  BY <1>4 DEF FileInv, IsWhole, IsCut
<1>5. ASSUME NEW w \in Writers, Kill(w)
      PROVE  FileInv'
  BY <1>4, <1>5 DEF Kill
<1>6. ASSUME NEW r \in Readers, ReadProfile(r) \/ Execute(r)
      PROVE  FileInv'
  BY <1>4, <1>6 DEF ReadProfile, Execute, storeVars
<1>7. CASE UNCHANGED profileVars
  BY <1>4, <1>7 DEF profileVars, storeVars
<1> QED BY <1>1, <1>2, <1>3, <1>5, <1>6, <1>7 DEF ProfileNext

LEMMA ReadInit == ProfileInit => ReadInv
BY DEF ProfileInit, ReadInv

LEMMA ReadNext ==
  ASSUME \A v \in Values : Len(v) = 1
  PROVE  StoreInv /\ FileInv /\ ReadInv /\ [ProfileNext]_profileVars => ReadInv'
<1> SUFFICES ASSUME StoreInv, FileInv, ReadInv, [ProfileNext]_profileVars PROVE ReadInv'
  OBVIOUS
<1>1. /\ loaded \in [Readers -> Stored \cup {None}]
      /\ executed \in [Readers -> Stored \cup {None}]
      /\ misled \subseteq Readers
  BY DEF StoreInv, ProfileTypeOK
<1>2. ASSUME proposed \subseteq proposed', UNCHANGED readerVars
      PROVE  ReadInv'
  BY <1>2 DEF ReadInv, readerVars
<1>3. ASSUME NEW w \in Writers, Open(w) \/ Close(w) \/ CloseCut(w) \/ Kill(w)
      PROVE  ReadInv'
  <2>1. proposed \subseteq proposed' /\ UNCHANGED readerVars
    BY <1>3 DEF Open, Close, CloseCut, Kill
  <2> QED BY <2>1, <1>2
<1>4. ASSUME NEW r \in Readers, ReadProfile(r)
      PROVE  ReadInv'
  <2>1. ~spliced => Load(file) \in proposed \cup {None}
    BY ReadRecommended
  <2>2. /\ proposed' = proposed /\ misled' = IF spliced THEN misled \cup {r} ELSE misled \ {r}
        /\ loaded' = [loaded EXCEPT ![r] = Load(file)]
        /\ executed' = [executed EXCEPT ![r] = None]
    BY <1>4 DEF ReadProfile, storeVars
  <2> SUFFICES ASSUME NEW q \in Readers \ misled'
               PROVE  /\ loaded'[q] \in proposed \cup {None}
                      /\ executed'[q] \in proposed \cup {None}
    BY <2>2 DEF ReadInv
  <2>3. CASE q = r
    <3>1. ~spliced
      BY <2>2, <2>3
    <3> QED BY <1>1, <2>1, <2>2, <2>3, <3>1
  <2>4. CASE q # r
    <3>1. q \notin misled /\ loaded'[q] = loaded[q] /\ executed'[q] = executed[q]
      BY <1>1, <2>2, <2>4
    <3> QED BY <3>1 DEF ReadInv
  <2> QED BY <2>3, <2>4
<1>5. ASSUME NEW r \in Readers, Execute(r)
      PROVE  ReadInv'
  BY <1>1, <1>5 DEF Execute, ReadInv, storeVars
<1>6. CASE UNCHANGED profileVars
  BY <1>6, <1>2 DEF profileVars, storeVars
<1> QED BY <1>3, <1>4, <1>5, <1>6 DEF ProfileNext

\* If every accepted setting has one digit, as the variants of the Dilithium
\* kernels, no program runs with settings that were not recommended, whichever
\* benchmarks were killed, cut short or overtaken, unless it read a text that
\* was cut over the text of another benchmark (run_selected_operation behind
\* apply_launch_profile).  The condition and the exception are needed: with
\* more digits a cut number is another number, and a cut text over another one
\* goes on with that one's settings, as two runs show.
THEOREM UnsplicedWasRecommendedTheorem ==
  ASSUME \A v \in Values : Len(v) = 1
  PROVE  ProfileSpec => []UnsplicedWasRecommended
<1> DEFINE Inv == StoreInv /\ FileInv /\ ReadInv
<1>1. ProfileInit => Inv
  BY StoreInit, FileInit, ReadInit
<1>2. Inv /\ [ProfileNext]_profileVars => Inv'
  BY StoreNext, FileNext, ReadNext
<1>3. Inv => UnsplicedWasRecommended
  BY DEF ReadInv, UnsplicedWasRecommended
<1> QED BY <1>1, <1>2, <1>3, PTL DEF ProfileSpec
=============================================================================
