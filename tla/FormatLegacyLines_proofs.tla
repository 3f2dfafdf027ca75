---------------------- MODULE FormatLegacyLines_proofs ----------------------
(***************************************************************************)
(* The scanner of the legacy format works by positions, the documentation  *)
(* describes lines.  These are the proofs that both read the same entries, *)
(* for texts of any length.                                                *)
(***************************************************************************)
EXTENDS FormatLegacy_proofs

-----------------------------------------------------------------------------
(***************************************************************************)
(* Lines                                                                   *)
(***************************************************************************)
\* The line of t that starts at i ends before j.
EndsAt(t, i, j) ==
    /\ j \in i..Len(t) + 1
    /\ j = Len(t) + 1 \/ t[j] = Newline
    /\ \A k \in i..j - 1 : t[k] # Newline

\* The first character from i to end that is not skipped is at j.
BeginsAt(t, i, end, j) ==
    /\ j \in i..end
    /\ j = end \/ t[j] \notin Skipped
    /\ \A k \in i..j - 1 : t[k] \in Skipped

\* Characters in the middle of a text.
LEMMA Middle ==
    ASSUME NEW t \in Text, NEW m \in 1..Len(t) + 1, NEW n \in m - 1..Len(t)
    PROVE  /\ SubSeq(t, m, n) \in Text
           /\ Len(SubSeq(t, m, n)) = n - m + 1
           /\ \A i \in 1..n - m + 1 : SubSeq(t, m, n)[i] = t[m + i - 1]
<1>1. Len(t) \in Nat /\ m \in Nat /\ n \in Int /\ \A i \in m..n : t[i] \in Chars
  BY DEF Text
<1>2. /\ SubSeq(t, m, n) \in Seq(Chars)
      /\ Len(SubSeq(t, m, n)) = IF m <= n THEN n - m + 1 ELSE 0
      /\ \A i \in 1..n - m + 1 : SubSeq(t, m, n)[i] = t[m + i - 1]
  BY <1>1, SubSeqProperties
<1>3. m <= n \/ n - m + 1 = 0
  BY <1>1
<1> QED
  BY <1>2, <1>3 DEF Text

\* Every line has an end and a beginning.
LEMMA LineBounds ==
    ASSUME NEW t \in Text, NEW i \in 1..Len(t) + 1
    PROVE  \E end, begin : EndsAt(t, i, end) /\ BeginsAt(t, i, end, begin)
<1>1. Len(t) \in Nat /\ i \in Nat
  BY DEF Text
<1> DEFINE Ends == {j \in i..Len(t) + 1 : j = Len(t) + 1 \/ t[j] = Newline}
<1>2. PICK end \in Ends : \A k \in Ends : end <= k
  <2>1. Ends \in SUBSET Nat /\ Len(t) + 1 \in Ends
    BY <1>1
  <2> HIDE DEF Ends
  <2> QED
    BY <2>1, NatLeast
<1>3. EndsAt(t, i, end)
  <2>1. ASSUME NEW k \in i..end - 1 PROVE t[k] # Newline
    <3>1. k \in i..Len(t) + 1 /\ ~(end <= k)
      BY <1>1, <1>2
    <3> QED
      BY <1>2, <3>1
  <2> QED
    BY <1>2, <2>1 DEF EndsAt
<1> DEFINE Begins == {j \in i..end : j = end \/ t[j] \notin Skipped}
<1>4. PICK begin \in Begins : \A k \in Begins : begin <= k
  <2>1. end \in Nat /\ i <= end
    BY <1>1, <1>3 DEF EndsAt
  <2>2. Begins \in SUBSET Nat /\ end \in Begins
    BY <1>1, <2>1
  <2> HIDE DEF Begins
  <2> QED
    BY <2>2, NatLeast
<1>5. BeginsAt(t, i, end, begin)
  <2>1. end \in Nat
    BY <1>1, <1>3 DEF EndsAt
  <2>2. ASSUME NEW k \in i..begin - 1 PROVE t[k] \in Skipped
    <3>1. k \in i..end /\ ~(begin <= k)
      BY <1>1, <1>4, <2>1
    <3> QED
      BY <1>4, <3>1
  <2> QED
    BY <1>4, <2>2 DEF BeginsAt
<1> QED
  BY <1>3, <1>5

\* A line has one end.
LEMMA LineEndIsUnique ==
    ASSUME NEW t \in Text, NEW i \in Nat, NEW j, NEW end, EndsAt(t, i, j), EndsAt(t, i, end)
    PROVE  j = end
<1>1. Len(t) \in Nat /\ j \in Nat /\ end \in Nat /\ i <= j /\ i <= end
  BY DEF Text, EndsAt
<1>2. ~(j < end)
  BY <1>1 DEF EndsAt
<1>3. ~(end < j)
  BY <1>1 DEF EndsAt
<1> QED
  BY <1>1, <1>2, <1>3

\* The end and the beginning are the only ones.
LEMMA LineIs ==
    ASSUME NEW t \in Text, NEW i \in 1..Len(t) + 1, NEW end, NEW begin,
           EndsAt(t, i, end), BeginsAt(t, i, end, begin)
    PROVE  Line(t, i) = SubSeq(t, begin, end - 1)
<1>1. Len(t) \in Nat /\ i \in Nat /\ end \in Nat /\ begin \in Nat
  BY DEF Text, EndsAt, BeginsAt
<1>2. ASSUME NEW j, EndsAt(t, i, j) PROVE j = end
  BY <1>1, <1>2, LineEndIsUnique
<1>3. ASSUME NEW j, BeginsAt(t, i, end, j) PROVE j = begin
  <2>1. j \in Nat
    BY <1>1, <1>3 DEF BeginsAt
  <2>2. ~(j < begin)
    BY <1>1, <1>3, <2>1 DEF BeginsAt
  <2>3. ~(begin < j)
    BY <1>1, <1>3, <2>1 DEF BeginsAt
  <2> QED
    BY <1>1, <2>1, <2>2, <2>3
<1>4. (CHOOSE j \in i..Len(t) + 1 :
          /\ j = Len(t) + 1 \/ t[j] = Newline
          /\ \A k \in i..j - 1 : t[k] # Newline) = end
  BY <1>2 DEF EndsAt
<1>5. (CHOOSE j \in i..end :
          /\ j = end \/ t[j] \notin Skipped
          /\ \A k \in i..j - 1 : t[k] \in Skipped) = begin
  BY <1>3 DEF BeginsAt
<1> QED
  BY <1>4, <1>5 DEF Line

\* A line is the same line in the rest of the text.
LEMMA LineOfRemainder ==
    ASSUME NEW t \in Text, NEW n \in 0..Len(t), NEW i \in 1..Len(t) - n
    PROVE  Line(t, n + i) = Line(SubSeq(t, n + 1, Len(t)), i)
<1> DEFINE r == SubSeq(t, n + 1, Len(t))
<1>1. Len(t) \in Nat /\ n \in Nat /\ i \in Nat /\ r \in Text /\ Len(r) = Len(t) - n
  BY Remainder DEF Text
<1>2. \A k \in 1..Len(t) - n : r[k] = t[n + k]
  BY Remainder
<1> HIDE DEF r
<1>3. i \in 1..Len(r) + 1
  BY <1>1
<1>4. PICK end, begin : EndsAt(r, i, end) /\ BeginsAt(r, i, end, begin)
  BY <1>1, <1>3, LineBounds
<1>5. /\ end \in Nat /\ i <= end /\ end <= Len(r) + 1
      /\ begin \in Nat /\ i <= begin /\ begin <= end
  BY <1>1, <1>4 DEF EndsAt, BeginsAt
<1> DEFINE i1 == n + i
           end1 == n + end
           begin1 == n + begin
<1>6. EndsAt(t, i1, end1)
  <2>1. end1 \in i1..Len(t) + 1
    BY <1>1, <1>5
  <2>2. end1 = Len(t) + 1 \/ t[end1] = Newline
    <3>1. CASE end = Len(r) + 1
      BY <1>1, <3>1
    <3>2. CASE end # Len(r) + 1
      <4>1. end \in 1..Len(t) - n
        BY <1>1, <1>5, <3>2
      <4> QED
        BY <1>2, <1>4, <3>2, <4>1 DEF EndsAt
    <3> QED
      BY <3>1, <3>2
  <2>3. ASSUME NEW k \in i1..end1 - 1 PROVE t[k] # Newline
    <3>1. k - n \in i..end - 1 /\ k - n \in 1..Len(t) - n /\ n + (k - n) = k
      BY <1>1, <1>5
    <3>2. r[k - n] = t[k]
      BY <1>2, <3>1
    <3> QED
      BY <1>4, <3>1, <3>2 DEF EndsAt
  <2> HIDE DEF i1, end1
  <2> QED
    BY <2>1, <2>2, <2>3 DEF EndsAt
<1>7. BeginsAt(t, i1, end1, begin1)
  <2>1. begin1 \in i1..end1
    BY <1>1, <1>5
  <2>2. begin1 = end1 \/ t[begin1] \notin Skipped
    <3>1. CASE begin = end
      BY <3>1
    <3>2. CASE begin # end
      <4>1. begin \in 1..Len(t) - n
        BY <1>1, <1>5, <3>2
      <4> QED
        BY <1>2, <1>4, <3>2, <4>1 DEF BeginsAt
    <3> QED
      BY <3>1, <3>2
  <2>3. ASSUME NEW k \in i1..begin1 - 1 PROVE t[k] \in Skipped
    <3>1. k - n \in i..begin - 1 /\ k - n \in 1..Len(t) - n /\ n + (k - n) = k
      BY <1>1, <1>5
    <3>2. r[k - n] = t[k]
      BY <1>2, <3>1
    <3> QED
      BY <1>4, <3>1, <3>2 DEF BeginsAt
  <2> HIDE DEF i1, end1, begin1
  <2> QED
    BY <2>1, <2>2, <2>3 DEF BeginsAt
<1>8. SubSeq(t, begin1, end1 - 1) = SubSeq(r, begin, end - 1)
  <2> DEFINE u == SubSeq(t, begin1, end1 - 1)
             v == SubSeq(r, begin, end - 1)
  <2>1. u \in Text /\ Len(u) = end - begin
    <3>1. /\ begin1 \in 1..Len(t) + 1
          /\ end1 - 1 \in begin1 - 1..Len(t)
          /\ (end1 - 1) - begin1 + 1 = end - begin
      BY <1>1, <1>5
    <3> HIDE DEF begin1, end1
    <3> QED
      BY <3>1, Middle
  <2>2. v \in Text /\ Len(v) = end - begin
    <3>1. /\ begin \in 1..Len(r) + 1
          /\ end - 1 \in begin - 1..Len(r)
          /\ (end - 1) - begin + 1 = end - begin
      BY <1>1, <1>5
    <3> QED
      BY <1>1, <3>1, Middle
  <2>3. ASSUME NEW k \in 1..end - begin PROVE u[k] = v[k]
    <3>1. /\ begin1 \in 1..Len(t) + 1
          /\ end1 - 1 \in begin1 - 1..Len(t)
          /\ (end1 - 1) - begin1 + 1 = end - begin
      BY <1>1, <1>5
    <3> HIDE DEF begin1, end1
    <3>2. u[k] = t[begin1 + k - 1]
      BY <3>1, Middle
    <3>3. /\ begin \in 1..Len(r) + 1
          /\ end - 1 \in begin - 1..Len(r)
          /\ (end - 1) - begin + 1 = end - begin
      BY <1>1, <1>5
    <3>4. v[k] = r[begin + k - 1]
      BY <1>1, <3>3, Middle
    <3>5. /\ begin + k - 1 \in 1..Len(t) - n
          /\ n + (begin + k - 1) = begin1 + k - 1
      BY <1>1, <1>5 DEF begin1
    <3> QED
      BY <1>2, <3>2, <3>4, <3>5
  <2> HIDE DEF u, v
  <2>4. u = v
    BY <2>1, <2>2, <2>3, TextEqual
  <2> QED
    BY <2>4 DEF u, v
<1>9. Line(t, i1) = SubSeq(t, begin1, end1 - 1)
  <2>1. i1 \in 1..Len(t) + 1
    BY <1>1
  <2> HIDE DEF i1, end1, begin1
  <2> QED
    BY <1>6, <1>7, <2>1, LineIs
<1>10. Line(r, i) = SubSeq(r, begin, end - 1)
  BY <1>1, <1>3, <1>4, LineIs
<1>11. Line(t, i1) = Line(r, i)
  BY <1>8, <1>9, <1>10
<1> QED
  BY <1>11 DEF r

\* How a text starts: with a blank, or with a character of a line.
StartsBlank(t) == t[1] \in {" ", "\t"}
StartsFull(t) == t[1] \notin Skipped

\* A line begins after the blanks in front of it.
LEMMA LineSkipsBlank ==
    ASSUME NEW t \in Text, t # <<>>, StartsBlank(t)
    PROVE  Line(t, 1) = Line(t, 2)
<1>1. Len(t) \in Nat /\ 1 \in 1..Len(t) + 1 /\ 2 \in 1..Len(t) + 1
  BY TextLength
<1>2. PICK end, begin : EndsAt(t, 2, end) /\ BeginsAt(t, 2, end, begin)
  BY <1>1, LineBounds
<1>3. end \in 2..Len(t) + 1 /\ begin \in 2..end
  BY <1>2 DEF EndsAt, BeginsAt
<1>4. t[1] # Newline /\ t[1] \in Skipped
  BY DEF Newline, Skipped, StartsBlank
<1>5. EndsAt(t, 1, end)
  <2>1. end \in 1..Len(t) + 1 /\ \A k \in 1..end - 1 : k = 1 \/ k \in 2..end - 1
    BY <1>1, <1>3
  <2> QED
    BY <1>2, <1>4, <2>1 DEF EndsAt
<1>6. BeginsAt(t, 1, end, begin)
  <2>1. begin \in 1..end /\ \A k \in 1..begin - 1 : k = 1 \/ k \in 2..begin - 1
    BY <1>1, <1>3
  <2> QED
    BY <1>2, <1>4, <2>1 DEF BeginsAt
<1> QED
  BY <1>1, <1>2, <1>5, <1>6, LineIs

\* A line that starts with its first character is all before its end.
LEMMA LineOfEntry ==
    ASSUME NEW t \in Text, t # <<>>, StartsFull(t)
    PROVE  \E end \in 2..Len(t) + 1 :
              EndsAt(t, 1, end) /\ Line(t, 1) = SubSeq(t, 1, end - 1)
<1>1. Len(t) \in Nat /\ 1 \in 1..Len(t) + 1 /\ 1 # Len(t) + 1
  BY TextLength
<1>2. PICK end : EndsAt(t, 1, end)
  BY <1>1, LineBounds
<1>3. t[1] # Newline
  BY DEF Skipped, StartsFull
<1>4. end \in 2..Len(t) + 1
  <2>1. end \in 1..Len(t) + 1 /\ end # 1
    BY <1>1, <1>2, <1>3 DEF EndsAt
  <2> QED
    BY <1>1, <2>1
<1>5. BeginsAt(t, 1, end, 1)
  <2>1. 1 \in 1..end /\ \A k \in 1..1 - 1 : FALSE
    BY <1>1, <1>4
  <2> QED
    BY <2>1 DEF BeginsAt, StartsFull
<1>6. Line(t, 1) = SubSeq(t, 1, end - 1)
  BY <1>1, <1>2, <1>5, LineIs
<1> QED
  BY <1>2, <1>4, <1>6

\* A text that starts with a newline has nothing in its first line.
LEMMA LineOfNewline ==
    ASSUME NEW t \in Text, t # <<>>, t[1] = Newline
    PROVE  Line(t, 1) = <<>>
<1>1. 1 \in 1..Len(t) + 1 /\ \A k \in 1..1 - 1 : FALSE
  BY TextLength
<1>2. EndsAt(t, 1, 1) /\ BeginsAt(t, 1, 1, 1)
  BY <1>1 DEF EndsAt, BeginsAt
<1>3. Line(t, 1) = SubSeq(t, 1, 1 - 1)
  BY <1>1, <1>2, LineIs
<1>4. SubSeq(t, 1, 1 - 1) = <<>>
  BY SubSeqEmpty
<1> QED
  BY <1>3, <1>4

\* A line starts at the first position and after each newline.
AfterNewline(t, i) == i = 1 \/ t[i - 1] = Newline

LEMMA LineStartsAre ==
    ASSUME NEW t \in Text, NEW i
    PROVE  i \in LineStarts(t) <=> i \in 1..Len(t) /\ AfterNewline(t, i)
BY DEF LineStarts, AfterNewline, Text

\* The first line of t, with the newline behind it, takes n characters.
FirstLineTakes(t, n) ==
    /\ n \in 1..Len(t)
    /\ n = Len(t) \/ t[n] = Newline
    /\ \A k \in 1..n - 1 : t[k] # Newline

\* Where the first line ends, the others are those of the rest.
LEMMA StartsAfter ==
    ASSUME NEW t \in Text, NEW n, FirstLineTakes(t, n)
    PROVE  LineStarts(t) = {1} \cup {n + i : i \in LineStarts(SubSeq(t, n + 1, Len(t)))}
<1> DEFINE r == SubSeq(t, n + 1, Len(t))
<1>1. Len(t) \in Nat /\ n \in 0..Len(t) /\ n \in 1..Len(t)
  BY TextLength DEF FirstLineTakes
<1>2. r \in Text /\ Len(r) = Len(t) - n
  BY <1>1, Remainder
<1>3. \A k \in 1..Len(t) - n : r[k] = t[n + k]
  BY <1>1, Remainder
<1> HIDE DEF r
<1>4. ASSUME NEW j \in 2..Len(t), AfterNewline(t, j)
      PROVE  j - n \in LineStarts(r) /\ j = n + (j - n)
  <2>1. t[j - 1] = Newline
    BY <1>4 DEF AfterNewline
  <2>2. ~(j - 1 \in 1..n - 1)
    BY <2>1 DEF FirstLineTakes
  <2>3. j - n \in 1..Len(t) - n /\ j = n + (j - n)
    BY <1>1, <2>2
  <2>4. AfterNewline(r, j - n)
    <3>1. ASSUME j - n # 1
          PROVE  j - n - 1 \in 1..Len(t) - n /\ n + (j - n - 1) = j - 1
      BY <1>1, <2>3, <3>1
    <3>2. ASSUME j - n # 1 PROVE r[j - n - 1] = t[j - 1]
      BY <1>3, <3>1, <3>2
    <3> QED
      BY <2>1, <3>2 DEF AfterNewline
  <2> QED
    BY <1>2, <2>3, <2>4, LineStartsAre
<1>5. ASSUME NEW i \in 1..Len(t) - n, AfterNewline(r, i) PROVE n + i \in LineStarts(t)
  <2> DEFINE j == n + i
  <2>1. j \in 1..Len(t)
    BY <1>1
  <2>2. t[j - 1] = Newline
    <3>1. CASE i = 1
      <4>1. n # Len(t) /\ j - 1 = n
        BY <1>1, <3>1
      <4> QED
        BY <4>1 DEF FirstLineTakes
    <3>2. CASE i # 1
      <4>1. i - 1 \in 1..Len(t) - n /\ n + (i - 1) = j - 1
        BY <1>1, <3>2
      <4>2. r[i - 1] = Newline
        BY <1>5, <3>2 DEF AfterNewline
      <4> QED
        BY <1>3, <4>1, <4>2
    <3> QED
      BY <3>1, <3>2
  <2> HIDE DEF j
  <2>3. AfterNewline(t, j)
    BY <2>2 DEF AfterNewline
  <2>4. j \in LineStarts(t)
    BY <2>1, <2>3, LineStartsAre
  <2> QED
    BY <2>4 DEF j
<1>6. 1 \in LineStarts(t)
  <2>1. 1 \in 1..Len(t) /\ AfterNewline(t, 1)
    BY <1>1 DEF AfterNewline
  <2> QED
    BY <2>1, LineStartsAre
<1>7. ASSUME NEW j \in LineStarts(t), j # 1
      PROVE  \E i \in LineStarts(r) : j = n + i
  <2>1. j \in 1..Len(t) /\ AfterNewline(t, j)
    BY LineStartsAre
  <2>2. j \in 2..Len(t)
    BY <1>1, <1>7, <2>1
  <2> QED
    BY <1>4, <2>1, <2>2
<1>8. \A i \in LineStarts(r) : n + i \in LineStarts(t)
  BY <1>2, <1>5, LineStartsAre
<1>9. LineStarts(t) = {1} \cup {n + i : i \in LineStarts(r)}
  BY <1>6, <1>7, <1>8
<1> QED
  BY <1>9 DEF r

-----------------------------------------------------------------------------
(***************************************************************************)
(* What the lines of a text say                                            *)
(***************************************************************************)
\* The lines that are not blank, by where they start.
Lines(t) == {i \in LineStarts(t) : Line(t, i) # <<>>}

\* The entry of a line, or none.
EntriesAt(t, i) == Splits(Line(t, i))

HasBadLine(t) == \E i \in Lines(t) : EntriesAt(t, i) = {}

KeysOf(t) == {e.key : e \in UNION {EntriesAt(t, i) : i \in Lines(t)}}

\* No later line has the key of an entry of line i.
IsLast(t, i) ==
    \A j \in Lines(t), f \in EntriesAt(t, i) :
        j > i => \A g \in EntriesAt(t, j) : g.key # f.key

\* The entries that the last line with their key has.
Deciding(t) ==
    {e \in UNION {EntriesAt(t, i) : i \in Lines(t)} :
        \E i \in Lines(t) : e \in EntriesAt(t, i) /\ IsLast(t, i)}

\* Texts with the same lines in the same order say the same.
LEMMA SameLines ==
    ASSUME NEW s \in Text, NEW t \in Text, NEW place \in [Lines(s) -> Lines(t)],
           \A j \in Lines(t) : \E i \in Lines(s) : j = place[i],
           \A i, j \in Lines(s) : i > j <=> place[i] > place[j],
           \A i \in Lines(s) : Line(t, place[i]) = Line(s, i)
    PROVE  /\ HasBadLine(t) <=> HasBadLine(s)
           /\ KeysOf(t) = KeysOf(s)
           /\ Deciding(t) = Deciding(s)
<1>1. \A i \in Lines(s) : EntriesAt(t, place[i]) = EntriesAt(s, i)
  BY DEF EntriesAt
<1>2. HasBadLine(t) <=> HasBadLine(s)
  BY <1>1 DEF HasBadLine
<1>3. UNION {EntriesAt(t, i) : i \in Lines(t)} = UNION {EntriesAt(s, i) : i \in Lines(s)}
  BY <1>1
<1>4. \A i \in Lines(s) : IsLast(t, place[i]) <=> IsLast(s, i)
  BY <1>1 DEF IsLast
<1>5. Deciding(t) = Deciding(s)
  BY <1>1, <1>3, <1>4 DEF Deciding
<1> QED
  BY <1>2, <1>3, <1>5 DEF KeysOf

\* The lines of a text whose first line ends at n.
LEMMA LinesAfter ==
    ASSUME NEW t \in Text, NEW n, FirstLineTakes(t, n)
    PROVE  LET r == SubSeq(t, n + 1, Len(t))
           IN  /\ r \in Text
               /\ \A i \in Lines(r) :
                     i \in Nat /\ i > 0 /\ n + i \in Lines(t) /\ Line(t, n + i) = Line(r, i)
               /\ \A j \in Lines(t) : j = 1 \/ \E i \in Lines(r) : j = n + i
               /\ 1 \in Lines(t) <=> Line(t, 1) # <<>>
<1> DEFINE r == SubSeq(t, n + 1, Len(t))
<1>1. LineStarts(t) = {1} \cup {n + i : i \in LineStarts(r)}
  BY StartsAfter
<1>2. n \in 0..Len(t) /\ n \in Nat /\ r \in Text /\ Len(r) = Len(t) - n /\ Len(t) \in Nat
  <2>1. Len(t) \in Nat /\ n \in 1..Len(t)
    BY TextLength DEF FirstLineTakes
  <2>2. n \in 0..Len(t) /\ n \in Nat
    BY <2>1
  <2> QED
    BY <2>1, <2>2, Remainder
<1>3. \A i \in 1..Len(t) - n : Line(t, n + i) = Line(r, i)
  BY <1>2, LineOfRemainder
<1> HIDE DEF r
<1>4. \A i \in LineStarts(r) : i \in 1..Len(t) - n
  BY <1>2, LineStartsAre
<1>5. \A i \in LineStarts(r) : i \in Nat /\ i > 0 /\ Line(t, n + i) = Line(r, i)
  BY <1>2, <1>3, <1>4
<1>6. /\ \A i \in Lines(r) :
            i \in Nat /\ i > 0 /\ n + i \in Lines(t) /\ Line(t, n + i) = Line(r, i)
      /\ \A j \in Lines(t) : j = 1 \/ \E i \in Lines(r) : j = n + i
      /\ 1 \in Lines(t) <=> Line(t, 1) # <<>>
  BY <1>1, <1>5 DEF Lines
<1> QED
  BY <1>2, <1>6 DEF r

-----------------------------------------------------------------------------
(***************************************************************************)
(* The line of an entry                                                    *)
(***************************************************************************)
\* A text that has an entry starts with its key, "=" and its value.
LEMMA FindEntryStarts ==
    ASSUME NEW buf \in Text, find_entry(buf) # NoEntry
    PROVE  LET e == find_entry(buf)
           IN  \E n \in Nat :
                 /\ StartsWith(buf, e.key, e.value, n)
                 /\ e.size = IF n = Len(buf) THEN n ELSE n + 1
<1> DEFINE eq == find(buf, "=")
           key == SubSeq(buf, 1, eq - 1)
           rest == SubSeq(buf, eq + 1, Len(buf))
           end == find(rest, Newline)
           value == IF end = 0 THEN rest ELSE SubSeq(rest, 1, end - 1)
           size == IF end = 0 THEN Len(buf) ELSE eq + end
           n == IF end = 0 THEN Len(buf) ELSE eq + end - 1
<1>1. Len(buf) \in Nat /\ eq \in 0..Len(buf)
  BY FindProperties DEF Text
<1>2. /\ ~(eq \in {0, 1} \/ find(key, Newline) # 0 \/ rest = <<>> \/ end = 1)
      /\ find_entry(buf) = [key |-> key, value |-> value, size |-> size]
  BY DEF find_entry
<1>3. /\ find_entry(buf).key = key
      /\ find_entry(buf).value = value
      /\ find_entry(buf).size = size
  <2> HIDE DEF key, value, size
  <2> QED
    BY <1>2
<1>4. eq \in 2..Len(buf)
  BY <1>1, <1>2
<1>5. Len(key) = eq - 1 /\ \A i \in 1..eq - 1 : key[i] = buf[i]
  <2>1. eq - 1 \in 0..Len(buf)
    BY <1>1, <1>4
  <2> QED
    BY <2>1, Beginning
<1>6. buf[eq] = "="
  BY <1>2, FindProperties
<1>7. rest \in Text /\ Len(rest) = Len(buf) - eq /\ end \in 0..Len(rest)
  <2>1. rest \in Text /\ Len(rest) = Len(buf) - eq
    BY <1>1, Remainder
  <2> QED
    BY <2>1, FindProperties
<1>8. \A i \in 1..Len(buf) - eq : rest[i] = buf[eq + i]
  BY <1>1, Remainder
<1>9. end # 0 => rest[end] = Newline
  BY <1>7, FindProperties
<1> HIDE DEF eq, key, rest, end
<1>10. Len(value) = n - eq /\ \A i \in 1..n - eq : value[i] = buf[eq + i]
  <2>1. CASE end = 0
    BY <1>7, <1>8, <2>1
  <2>2. CASE end # 0
    <3>1. end - 1 \in 0..Len(rest) /\ n - eq = end - 1
      BY <1>1, <1>7, <2>2
    <3> DEFINE u == SubSeq(rest, 1, end - 1)
    <3>2. Len(u) = end - 1 /\ \A i \in 1..end - 1 : u[i] = rest[i]
      BY <1>7, <3>1, Beginning
    <3> HIDE DEF u
    <3>3. \A i \in 1..end - 1 : u[i] = buf[eq + i]
      BY <1>1, <1>7, <1>8, <3>2
    <3>4. value = u
      BY <2>2 DEF u
    <3> QED
      BY <3>1, <3>2, <3>3, <3>4
  <2> QED
    BY <2>1, <2>2
<1>11. n \in eq..Len(buf) /\ size = IF n = Len(buf) THEN n ELSE n + 1
  BY <1>1, <1>2, <1>4, <1>7
<1>12. n < Len(buf) => buf[n + 1] = Newline
  <2>1. ASSUME n < Len(buf)
        PROVE  end # 0 /\ end \in 1..Len(buf) - eq /\ eq + end = n + 1
    BY <1>1, <1>2, <1>4, <1>7, <2>1
  <2> QED
    BY <1>8, <1>9, <2>1
<1> HIDE DEF value, size, n
<1>13. StartsWith(buf, key, value, n)
  <2>1. Len(key) + 1 = eq /\ n = Len(key) + 1 + Len(value) /\ n <= Len(buf)
    BY <1>1, <1>4, <1>5, <1>10, <1>11
  <2>2. \A i \in 1..Len(key) : buf[i] = key[i]
    BY <1>5
  <2>3. \A i \in 1..Len(value) : buf[Len(key) + 1 + i] = value[i]
    BY <1>10, <2>1
  <2>4. buf[Len(key) + 1] = "="
    BY <1>6, <2>1
  <2> QED
    BY <1>12, <2>1, <2>2, <2>3, <2>4 DEF StartsWith
<1>14. n \in Nat
  BY <1>1, <1>4, <1>11
<1> QED
  BY <1>3, <1>11, <1>13, <1>14

\* A text that starts with an entry has it in its first line.
LEMMA EntryEndsLine ==
    ASSUME NEW t \in Text, NEW k, StorableKey(k), NEW v, StorableValue(v),
           NEW n \in Nat, StartsWith(t, k, v, n)
    PROVE  /\ EndsAt(t, 1, n + 1)
           /\ FirstLineTakes(t, IF n = Len(t) THEN n ELSE n + 1)
<1> DEFINE K == Len(k)
           V == Len(v)
           size == IF n = Len(t) THEN n ELSE n + 1
<1>1. K \in Nat /\ V \in Nat /\ Len(t) \in Nat /\ K # 0
  BY TextLength DEF StorableKey, StorableValue
<1> HIDE DEF K, V
<1>2. n = K + 1 + V /\ n <= Len(t) /\ n > 0
  BY <1>1 DEF StartsWith, K, V
<1>3. ASSUME NEW i \in 1..n PROVE t[i] # Newline
  <2>1. i \in 1..K \/ i = K + 1 \/ (i - (K + 1) \in 1..V /\ i = K + 1 + (i - (K + 1)))
    BY <1>1, <1>2
  <2>2. CASE i \in 1..K
    BY <2>2 DEF StartsWith, StorableKey, K
  <2>3. CASE i = K + 1
    BY <2>3 DEF StartsWith, Newline, K
  <2>4. CASE i - (K + 1) \in 1..V /\ i = K + 1 + (i - (K + 1))
    <3> DEFINE j == i - (K + 1)
    <3>1. j \in 1..V /\ i = K + 1 + j
      BY <2>4
    <3> HIDE DEF j
    <3>2. t[K + 1 + j] = v[j] /\ v[j] # Newline
      BY <3>1 DEF StartsWith, StorableValue, K, V
    <3> QED
      BY <3>1, <3>2
  <2> QED
    BY <2>1, <2>2, <2>3, <2>4
<1>4. n + 1 = Len(t) + 1 \/ t[n + 1] = Newline
  <2>1. n = Len(t) \/ n < Len(t)
    BY <1>1, <1>2
  <2> QED
    BY <2>1 DEF StartsWith
<1>5. EndsAt(t, 1, n + 1)
  <2>1. n + 1 \in 1..Len(t) + 1 /\ (n + 1) - 1 = n
    BY <1>1, <1>2
  <2> DEFINE end == n + 1
  <2> HIDE DEF end
  <2>2. EndsAt(t, 1, end)
    BY <1>3, <1>4, <2>1 DEF EndsAt, end
  <2> QED
    BY <2>2 DEF end
<1>6. FirstLineTakes(t, size)
  <2>1. size \in 1..Len(t) /\ \A i \in 1..size - 1 : i \in 1..n
    BY <1>1, <1>2
  <2>2. size = Len(t) \/ t[size] = Newline
    BY <1>4
  <2> HIDE DEF size
  <2> QED
    BY <1>3, <2>1, <2>2 DEF FirstLineTakes
<1> QED
  BY <1>5, <1>6

\* A line that starts with an entry and ends there splits into it.
LEMMA EntryIsSplit ==
    ASSUME NEW t \in Text, NEW k, StorableKey(k), NEW v, StorableValue(v),
           NEW n \in Nat, StartsWith(t, k, v, n)
    PROVE  [key |-> k, value |-> v] \in Splits(SubSeq(t, 1, n))
<1> DEFINE K == Len(k)
           V == Len(v)
           line == SubSeq(t, 1, n)
           key == SubSeq(line, 1, K)
           value == SubSeq(line, K + 2, Len(line))
<1>1. K \in Nat /\ V \in Nat /\ Len(t) \in Nat /\ K # 0 /\ k \in Text /\ v \in Text
  BY TextLength DEF StorableKey, StorableValue
<1> HIDE DEF K, V
<1>2. n = K + 1 + V /\ n \in 0..Len(t)
  BY <1>1 DEF StartsWith, K, V
<1>3. line \in Text /\ Len(line) = n /\ \A i \in 1..n : line[i] = t[i]
  BY <1>2, Beginning
<1> HIDE DEF line
<1>4. key = k
  <2>1. K \in 0..Len(line) /\ \A i \in 1..K : i \in 1..n
    BY <1>1, <1>2, <1>3
  <2>2. key \in Text /\ Len(key) = K /\ \A i \in 1..K : key[i] = line[i]
    BY <1>3, <2>1, Beginning
  <2> HIDE DEF key
  <2>3. \A i \in 1..K : key[i] = k[i]
    BY <1>3, <2>1, <2>2 DEF StartsWith, K
  <2> QED
    BY <1>1, <2>2, <2>3, TextEqual DEF K
<1>5. value = v
  <2>1. /\ K + 1 \in 0..Len(line) /\ Len(line) - (K + 1) = V
        /\ (K + 1) + 1 = K + 2
        /\ \A i \in 1..V : K + 1 + i \in 1..n
    BY <1>1, <1>2, <1>3
  <2>2. value \in Text /\ Len(value) = V /\ \A i \in 1..V : value[i] = line[K + 1 + i]
    <3> DEFINE m == K + 1
    <3>1. value = SubSeq(line, m + 1, Len(line))
      BY <2>1
    <3> HIDE DEF m
    <3>2. m \in 0..Len(line) /\ Len(line) - m = V
      BY <2>1 DEF m
    <3>3. /\ value \in Text /\ Len(value) = V
          /\ \A i \in 1..V : value[i] = line[m + i]
      BY <1>3, <3>1, <3>2, Remainder
    <3> QED
      BY <3>3 DEF m
  <2> HIDE DEF value
  <2>3. \A i \in 1..V : value[i] = v[i]
    BY <1>3, <2>1, <2>2 DEF StartsWith, K, V
  <2> QED
    BY <1>1, <2>2, <2>3, TextEqual DEF V
<1>6. K + 1 \in DOMAIN line /\ line[K + 1] = "="
  <2>1. K + 1 \in 1..n
    BY <1>1, <1>2
  <2>2. DOMAIN line = 1..n
    BY <1>3 DEF Text
  <2> QED
    BY <1>3, <2>1, <2>2 DEF StartsWith, K
<1>7. k # <<>> /\ v # <<>> /\ "=" \notin ToSet(k)
  BY DEF StorableKey, StorableValue, ToSet, Text
<1> DEFINE place == K + 1
<1>8. key = SubSeq(line, 1, place - 1) /\ value = SubSeq(line, place + 1, Len(line))
  <2>1. place - 1 = K /\ place + 1 = K + 2
    BY <1>1
  <2> QED
    BY <2>1
<1>9. place \in {j \in DOMAIN line : line[j] = "="}
  BY <1>6
<1> HIDE DEF key, value, place
<1>10. [key |-> k, value |-> v] \in Splits(line)
  BY <1>4, <1>5, <1>7, <1>8, <1>9 DEF Splits
<1> QED
  BY <1>10 DEF line

\* What a line splits into is what the text starts with.
LEMMA SplitIsEntry ==
    ASSUME NEW t \in Text, StartsFull(t), NEW n \in 1..Len(t), EndsAt(t, 1, n + 1),
           NEW e \in Splits(SubSeq(t, 1, n))
    PROVE  /\ StorableKey(e.key) /\ StorableValue(e.value)
           /\ StartsWith(t, e.key, e.value, n)
           /\ e = [key |-> e.key, value |-> e.value]
<1> DEFINE line == SubSeq(t, 1, n)
<1>1. Len(t) \in Nat /\ n \in 0..Len(t) /\ n \in Nat
  BY TextLength
<1>2. line \in Text /\ Len(line) = n /\ \A i \in 1..n : line[i] = t[i]
  BY <1>1, Beginning
<1> HIDE DEF line
<1>3. e \in Splits(line)
  BY DEF line
<1>4. PICK place \in {j \in DOMAIN line : line[j] = "="} :
         e = [key   |-> SubSeq(line, 1, place - 1),
              value |-> SubSeq(line, place + 1, Len(line))]
  BY <1>3 DEF Splits
<1>5. e.key # <<>> /\ e.value # <<>> /\ "=" \notin ToSet(e.key)
  BY <1>3 DEF Splits
<1> DEFINE key == SubSeq(line, 1, place - 1)
           value == SubSeq(line, place + 1, Len(line))
<1>6. e.key = key /\ e.value = value
  BY <1>4
<1>7. place \in 1..n /\ t[place] = "="
  <2>1. DOMAIN line = 1..n
    BY <1>2 DEF Text
  <2> QED
    BY <1>2, <1>4, <2>1
<1>8. key \in Text /\ Len(key) = place - 1 /\ \A i \in 1..place - 1 : key[i] = t[i]
  <2>1. place - 1 \in 0..Len(line) /\ \A i \in 1..place - 1 : i \in 1..n
    BY <1>1, <1>2, <1>7
  <2>2. key \in Text /\ Len(key) = place - 1 /\ \A i \in 1..place - 1 : key[i] = line[i]
    BY <1>2, <2>1, Beginning
  <2> QED
    BY <1>2, <2>1, <2>2
<1>9. value \in Text /\ Len(value) = n - place /\ \A i \in 1..n - place : value[i] = t[place + i]
  <2>1. place \in 0..Len(line) /\ \A i \in 1..n - place : place + i \in 1..n
    BY <1>1, <1>2, <1>7
  <2>2. /\ value \in Text /\ Len(value) = n - place
        /\ \A i \in 1..n - place : value[i] = line[place + i]
    BY <1>2, <2>1, Remainder
  <2> QED
    BY <1>2, <2>1, <2>2
<1> HIDE DEF key, value
<1>10. \A i \in 1..n : t[i] # Newline
  <2>1. (n + 1) - 1 = n
    BY <1>1
  <2> QED
    BY <2>1 DEF EndsAt
<1>11. StorableKey(key)
  <2>1. place # 1
    BY <1>5, <1>6, <1>7, <1>8, TextLength
  <2>2. 1 \in 1..place - 1 /\ \A i \in 1..place - 1 : i \in 1..n
    BY <1>1, <1>7, <2>1
  <2>3. key[1] \notin Skipped
    BY <1>8, <2>2 DEF StartsFull
  <2>4. \A i \in 1..Len(key) : key[i] # "="
    BY <1>5, <1>6, <1>8 DEF ToSet, Text
  <2>5. \A i \in 1..Len(key) : key[i] # Newline
    BY <1>8, <1>10, <2>2
  <2> QED
    BY <1>5, <1>6, <1>8, <2>3, <2>4, <2>5 DEF StorableKey
<1>12. StorableValue(value)
  <2>1. \A i \in 1..n - place : place + i \in 1..n
    BY <1>1, <1>7
  <2>2. \A i \in 1..Len(value) : value[i] # Newline
    BY <1>9, <1>10, <2>1
  <2> QED
    BY <1>5, <1>6, <1>9, <2>2 DEF StorableValue
<1>13. StartsWith(t, key, value, n)
  <2>1. Len(key) + 1 = place /\ n = Len(key) + 1 + Len(value) /\ n <= Len(t)
    BY <1>1, <1>7, <1>8, <1>9
  <2>2. \A i \in 1..Len(key) : t[i] = key[i]
    BY <1>8
  <2>3. \A i \in 1..Len(value) : t[Len(key) + 1 + i] = value[i]
    BY <1>9, <2>1
  <2>4. t[Len(key) + 1] = "="
    BY <1>7, <2>1
  <2>5. n < Len(t) => t[n + 1] = Newline
    <3>1. n < Len(t) => n + 1 # Len(t) + 1
      BY <1>1
    <3> QED
      BY <3>1 DEF EndsAt
  <2> QED
    BY <2>1, <2>2, <2>3, <2>4, <2>5 DEF StartsWith
<1> QED
  BY <1>4, <1>6, <1>11, <1>12, <1>13 DEF key, value

\* The first line of a text that starts with its first character.
LEMMA FirstLineSplits ==
    ASSUME NEW t \in Text, t # <<>>, StartsFull(t)
    PROVE  /\ 1 \in Lines(t)
           /\ find_entry(t) = NoEntry => EntriesAt(t, 1) = {}
           /\ find_entry(t) # NoEntry =>
                LET e == find_entry(t)
                IN  /\ EntriesAt(t, 1) = {[key |-> e.key, value |-> e.value]}
                    /\ FirstLineTakes(t, e.size)
<1>1. PICK end \in 2..Len(t) + 1 : EndsAt(t, 1, end) /\ Line(t, 1) = SubSeq(t, 1, end - 1)
  BY LineOfEntry
<1> DEFINE n == end - 1
<1>2. Len(t) \in Nat /\ n \in 1..Len(t) /\ n \in 0..Len(t) /\ n + 1 = end /\ n \in Nat /\ n # 0
  BY TextLength
<1> HIDE DEF n
<1>3. EndsAt(t, 1, n + 1) /\ Line(t, 1) = SubSeq(t, 1, n)
  <2>1. Line(t, 1) = SubSeq(t, 1, n)
    BY <1>1 DEF n
  <2> QED
    BY <1>1, <1>2, <2>1
<1>4. 1 \in Lines(t)
  <2>1. 1 \in 1..Len(t) /\ AfterNewline(t, 1)
    BY <1>2 DEF AfterNewline
  <2>2. Line(t, 1) \in Text /\ Len(Line(t, 1)) = n
    BY <1>2, <1>3, Beginning
  <2> QED
    BY <1>2, <2>1, <2>2, LineStartsAre, TextLength DEF Lines
<1>5. ASSUME NEW e \in EntriesAt(t, 1)
      PROVE  /\ find_entry(t) # NoEntry
             /\ e = [key |-> find_entry(t).key, value |-> find_entry(t).value]
  <2>1. e \in Splits(SubSeq(t, 1, n))
    BY <1>3, <1>5 DEF EntriesAt
  <2>2. /\ StorableKey(e.key) /\ StorableValue(e.value)
        /\ StartsWith(t, e.key, e.value, n)
        /\ e = [key |-> e.key, value |-> e.value]
    BY <1>2, <1>3, <2>1, SplitIsEntry
  <2> QED
    BY <1>2, <2>2, FindEntryIs
<1>6. ASSUME find_entry(t) # NoEntry
      PROVE  LET e == find_entry(t)
             IN  /\ [key |-> e.key, value |-> e.value] \in EntriesAt(t, 1)
                 /\ FirstLineTakes(t, e.size)
  <2> DEFINE e == find_entry(t)
  <2>1. PICK m \in Nat :
           StartsWith(t, e.key, e.value, m) /\ e.size = IF m = Len(t) THEN m ELSE m + 1
    BY <1>6, FindEntryStarts
  <2>2. StorableKey(e.key) /\ StorableValue(e.value)
    BY <1>6, FindEntryProperties DEF StorableKey, StartsFull
  <2> HIDE DEF e
  <2>3. EndsAt(t, 1, m + 1) /\ FirstLineTakes(t, e.size)
    BY <2>1, <2>2, EntryEndsLine
  <2>4. m = n
    <3>1. n + 1 = m + 1
      BY <1>3, <2>3, LineEndIsUnique
    <3> QED
      BY <1>2, <2>1, <3>1
  <2>5. [key |-> e.key, value |-> e.value] \in Splits(SubSeq(t, 1, m))
    BY <2>1, <2>2, EntryIsSplit
  <2> QED
    BY <1>3, <2>3, <2>4, <2>5 DEF EntriesAt, e
<1> QED
  BY <1>4, <1>5, <1>6

-----------------------------------------------------------------------------
(***************************************************************************)
(* One step of the scanner                                                 *)
(***************************************************************************)
\* Skipping a character at the beginning changes nothing in what a text says.
LEMMA SkippedSaysNothing ==
    ASSUME NEW t \in Text, t # <<>>, t[1] \in Skipped
    PROVE  LET r == SubSeq(t, 2, Len(t))
           IN  /\ r \in Text
               /\ HasBadLine(t) <=> HasBadLine(r)
               /\ KeysOf(t) = KeysOf(r)
               /\ Deciding(t) = Deciding(r)
<1> DEFINE r == SubSeq(t, 2, Len(t))
<1>1. Len(t) \in Nat /\ Len(t) # 0 /\ 1 \in 0..Len(t) /\ 1 \in 1..Len(t)
  BY TextLength
<1>2. r = SubSeq(t, 1 + 1, Len(t)) /\ r \in Text /\ Len(r) = Len(t) - 1
  <2> DEFINE n == 1
  <2>1. n \in 0..Len(t)
    BY <1>1
  <2>2. r = SubSeq(t, n + 1, Len(t))
    OBVIOUS
  <2> HIDE DEF n, r
  <2>3. r \in Text /\ Len(r) = Len(t) - n
    BY <2>1, <2>2, Remainder
  <2> QED
    BY <2>2, <2>3 DEF n
<1>3. \A i \in 1..Len(t) - 1 : r[i] = t[1 + i] /\ Line(t, 1 + i) = Line(r, i)
  BY <1>1, <1>2, Remainder, LineOfRemainder
<1> HIDE DEF r
<1>4. CASE t[1] = Newline
  <2>1. Line(t, 1) = <<>>
    BY <1>4, LineOfNewline
  <2>2. FirstLineTakes(t, 1)
    BY <1>1, <1>4 DEF FirstLineTakes
  <2>3. /\ \A i \in Lines(r) :
              i \in Nat /\ i > 0 /\ 1 + i \in Lines(t) /\ Line(t, 1 + i) = Line(r, i)
        /\ \A j \in Lines(t) : j = 1 \/ \E i \in Lines(r) : j = 1 + i
        /\ 1 \in Lines(t) <=> Line(t, 1) # <<>>
    BY <1>2, <2>2, LinesAfter
  <2> DEFINE place == [i \in Lines(r) |-> 1 + i]
  <2>4. /\ place \in [Lines(r) -> Lines(t)]
        /\ \A i \in Lines(r) : place[i] = 1 + i /\ i \in Nat
    BY <2>3
  <2>5. \A j \in Lines(t) : \E i \in Lines(r) : j = place[i]
    BY <2>1, <2>3
  <2> HIDE DEF place
  <2>6. \A i, j \in Lines(r) : i > j <=> place[i] > place[j]
    BY <2>4
  <2>7. \A i \in Lines(r) : Line(t, place[i]) = Line(r, i)
    BY <2>3, <2>4
  <2> QED
    BY <1>2, <2>4, <2>5, <2>6, <2>7, SameLines DEF r
<1>5. CASE t[1] # Newline
  <2>1. StartsBlank(t)
    BY <1>5 DEF StartsBlank, Skipped
  <2>2. Line(t, 1) = Line(t, 2)
    BY <2>1, LineSkipsBlank
  <2>3. ASSUME NEW j \in Lines(t), j # 1 PROVE j - 1 \in Lines(r) /\ j > 2 /\ j \in Nat
    <3>1. j \in 1..Len(t) /\ AfterNewline(t, j)
      BY LineStartsAre DEF Lines
    <3>2. j # 2
      BY <1>5, <3>1 DEF AfterNewline
    <3>3. j \in Nat /\ j > 2 /\ j - 1 \in 1..Len(t) - 1 /\ j - 2 \in 1..Len(t) - 1
      BY <1>1, <2>3, <3>1, <3>2
    <3>4. t[j - 1] = Newline /\ 1 + (j - 2) = j - 1 /\ (j - 1) - 1 = j - 2 /\ 1 + (j - 1) = j
      BY <2>3, <3>1, <3>3 DEF AfterNewline
    <3>5. AfterNewline(r, j - 1)
      BY <1>3, <3>3, <3>4 DEF AfterNewline
    <3>6. Line(r, j - 1) = Line(t, j)
      BY <1>3, <3>3, <3>4
    <3>7. j - 1 \in LineStarts(r)
      BY <1>2, <3>3, <3>5, LineStartsAre
    <3> QED
      BY <3>3, <3>6, <3>7 DEF Lines
  <2>4. ASSUME NEW i \in Lines(r) PROVE i \in 1..Len(t) - 1 /\ Line(r, i) # <<>>
    BY <1>2, LineStartsAre DEF Lines
  <2>5. ASSUME NEW i \in Lines(r), i # 1 PROVE 1 + i \in Lines(t)
    <3>1. i \in 1..Len(t) - 1 /\ AfterNewline(r, i)
      BY <1>2, LineStartsAre DEF Lines
    <3>2. i - 1 \in 1..Len(t) - 1 /\ 1 + i \in 1..Len(t) /\ 1 + (i - 1) = (1 + i) - 1
      BY <1>1, <2>5, <3>1
    <3>3. t[(1 + i) - 1] = Newline
      BY <1>3, <2>5, <3>1, <3>2 DEF AfterNewline
    <3> DEFINE j == 1 + i
    <3>4. j \in 1..Len(t) /\ t[j - 1] = Newline /\ Line(t, j) # <<>>
      BY <1>3, <2>4, <3>1, <3>2, <3>3
    <3> HIDE DEF j
    <3>5. j \in Lines(t)
      BY <3>4, LineStartsAre DEF AfterNewline, Lines
    <3> QED
      BY <3>5 DEF j
  <2>6. 1 \in Lines(t) <=> 1 \in Lines(r)
    <3>1. 1 \in LineStarts(t)
      BY <1>1, LineStartsAre DEF AfterNewline
    <3>2. CASE Len(t) = 1
      <4>1. Line(t, 2) = <<>>
        <5>1. /\ 2 \in 1..Len(t) + 1 /\ 2 \in 2..Len(t) + 1 /\ 2 \in 2..2 /\ 2 = Len(t) + 1
              /\ \A k \in 2..2 - 1 : FALSE
          BY <3>2
        <5>2. EndsAt(t, 2, 2) /\ BeginsAt(t, 2, 2, 2)
          BY <5>1 DEF EndsAt, BeginsAt
        <5>3. Line(t, 2) = SubSeq(t, 2, 2 - 1)
          BY <5>1, <5>2, LineIs
        <5> QED
          BY <5>3, SubSeqEmpty
      <4>2. 1 \notin Lines(r)
        BY <2>4, <3>2
      <4> QED
        BY <2>2, <4>1, <4>2 DEF Lines
    <3>3. CASE Len(t) # 1
      <4>1. 1 \in 1..Len(t) - 1 /\ 1 + 1 = 2
        BY <1>1, <3>3
      <4>2. Line(t, 2) = Line(r, 1)
        BY <1>3, <4>1
      <4>3. 1 \in LineStarts(r)
        BY <1>2, <4>1, LineStartsAre DEF AfterNewline
      <4> QED
        BY <2>2, <3>1, <4>2, <4>3 DEF Lines
    <3> QED
      BY <3>2, <3>3
  <2>7. 1 \in Lines(r) => Line(t, 1) = Line(r, 1)
    <3>1. 1 \in Lines(r) => 1 \in 1..Len(t) - 1 /\ 1 + 1 = 2
      BY <2>4
    <3> QED
      BY <1>3, <2>2, <3>1
  <2> DEFINE place == [i \in Lines(r) |-> IF i = 1 THEN 1 ELSE 1 + i]
  <2>8. /\ place \in [Lines(r) -> Lines(t)]
        /\ \A i \in Lines(r) : place[i] = (IF i = 1 THEN 1 ELSE 1 + i) /\ i \in Nat /\ i > 0
    BY <2>4, <2>5, <2>6
  <2> HIDE DEF place
  <2>9. \A j \in Lines(t) : \E i \in Lines(r) : j = place[i]
    <3> SUFFICES ASSUME NEW j \in Lines(t) PROVE \E i \in Lines(r) : j = place[i]
      OBVIOUS
    <3>1. CASE j = 1
      BY <2>6, <2>8, <3>1
    <3>2. CASE j # 1
      <4>1. j - 1 \in Lines(r) /\ j > 2 /\ j \in Nat
        BY <2>3, <3>2
      <4>2. place[j - 1] = j
        BY <2>8, <4>1
      <4> QED
        BY <4>1, <4>2
    <3> QED
      BY <3>1, <3>2
  <2>10. \A i, j \in Lines(r) : i > j <=> place[i] > place[j]
    BY <2>8
  <2>11. \A i \in Lines(r) : Line(t, place[i]) = Line(r, i)
    BY <1>3, <2>4, <2>7, <2>8
  <2> QED
    BY <1>2, <2>8, <2>9, <2>10, <2>11, SameLines DEF r
<1> QED
  BY <1>4, <1>5

\* An entry in the first line decides its key if no later line has that key.
LEMMA EntryThenLines ==
    ASSUME NEW t \in Text, NEW n, FirstLineTakes(t, n), 1 \in Lines(t),
           NEW e, EntriesAt(t, 1) = {e}
    PROVE  LET r == SubSeq(t, n + 1, Len(t))
           IN  /\ HasBadLine(t) <=> HasBadLine(r)
               /\ KeysOf(t) = {e.key} \cup KeysOf(r)
               /\ Deciding(t) = Deciding(r) \cup {f \in {e} : f.key \notin KeysOf(r)}
<1> DEFINE r == SubSeq(t, n + 1, Len(t))
<1>1. /\ r \in Text
      /\ \A i \in Lines(r) :
            i \in Nat /\ i > 0 /\ n + i \in Lines(t) /\ Line(t, n + i) = Line(r, i)
      /\ \A j \in Lines(t) : j = 1 \/ \E i \in Lines(r) : j = n + i
  BY LinesAfter
<1>2. n \in Nat /\ n > 0
  <2>1. Len(t) \in Nat /\ n \in 1..Len(t)
    BY TextLength DEF FirstLineTakes
  <2> QED
    BY <2>1
<1> HIDE DEF r
<1>3. \A i \in Lines(r) : EntriesAt(t, n + i) = EntriesAt(r, i)
  BY <1>1 DEF EntriesAt
<1>4. HasBadLine(t) <=> HasBadLine(r)
  BY <1>1, <1>3 DEF HasBadLine
<1> DEFINE All(u) == UNION {EntriesAt(u, i) : i \in Lines(u)}
<1>5. All(t) = {e} \cup All(r)
  BY <1>1, <1>3
<1>6. KeysOf(t) = {e.key} \cup KeysOf(r)
  BY <1>5 DEF KeysOf
<1>7. \A i \in Lines(r) : IsLast(t, n + i) <=> IsLast(r, i)
  <2> SUFFICES ASSUME NEW i \in Lines(r) PROVE IsLast(t, n + i) <=> IsLast(r, i)
    OBVIOUS
  <2>1. \A j \in Lines(r) : n + j > n + i <=> j > i
    BY <1>1, <1>2
  <2>2. ~(1 > n + i)
    BY <1>1, <1>2
  <2> DEFINE k == n + i
  <2>3. EntriesAt(t, k) = EntriesAt(r, i)
    BY <1>3
  <2>4. \A j \in Lines(r) : n + j > k <=> j > i
    BY <2>1
  <2>5. ~(1 > k)
    BY <2>2
  <2> HIDE DEF k
  <2>6. IsLast(t, k) => IsLast(r, i)
    BY <1>1, <1>3, <2>3, <2>4 DEF IsLast
  <2>7. IsLast(r, i) => IsLast(t, k)
    BY <1>1, <1>3, <2>3, <2>4, <2>5 DEF IsLast
  <2> QED
    BY <2>6, <2>7 DEF k
<1>8. IsLast(t, 1) <=> e.key \notin KeysOf(r)
  <2>1. \A j \in Lines(r) : n + j > 1
    BY <1>1, <1>2
  <2>2. e.key \notin KeysOf(r) <=> \A j \in Lines(r) : \A g \in EntriesAt(r, j) : g.key # e.key
    BY DEF KeysOf
  <2>3. IsLast(t, 1) => \A j \in Lines(r) : \A g \in EntriesAt(r, j) : g.key # e.key
    BY <1>1, <1>3, <2>1 DEF IsLast
  <2>4. (\A j \in Lines(r) : \A g \in EntriesAt(r, j) : g.key # e.key) => IsLast(t, 1)
    BY <1>1, <1>3 DEF IsLast
  <2> QED
    BY <2>2, <2>3, <2>4
<1>9. Deciding(t) = Deciding(r) \cup {f \in {e} : f.key \notin KeysOf(r)}
  <2> HIDE DEF All
  <2>1. \A f : f \in Deciding(t) <=> \E i \in Lines(t) : f \in EntriesAt(t, i) /\ IsLast(t, i)
    BY DEF Deciding
  <2>2. \A f : f \in Deciding(r) <=> \E i \in Lines(r) : f \in EntriesAt(r, i) /\ IsLast(r, i)
    BY DEF Deciding
  <2>3. ASSUME NEW f \in Deciding(t)
        PROVE  f \in Deciding(r) \cup {g \in {e} : g.key \notin KeysOf(r)}
    BY <1>1, <1>3, <1>7, <1>8, <2>1, <2>2
  <2>4. ASSUME NEW f \in Deciding(r) PROVE f \in Deciding(t)
    BY <1>1, <1>3, <1>7, <2>1, <2>2
  <2>5. ASSUME e.key \notin KeysOf(r) PROVE e \in Deciding(t)
    BY <1>8, <2>1, <2>5
  <2> QED
    BY <2>3, <2>4, <2>5
<1> QED
  BY <1>4, <1>6, <1>9 DEF r

\* Setting an entry replaces the one with the same key.
LEMMA ListSetAsSet ==
    ASSUME NEW l, Storable(l), NEW e \in Entry
    PROVE  ToSet(list_set(l, e)) = {f \in ToSet(l) : f.key # e.key} \cup {e}
<1> DEFINE i == Index(l, e.key)
           new == list_set(l, e)
<1>1. l \in Lists /\ Len(l) \in Nat /\ i \in 0..Len(l)
  <2>1. l \in Lists /\ Len(l) \in Nat
    BY DEF Storable, Lists
  <2> QED
    BY <2>1, IndexProperties
<1>2. /\ i # 0 => l[i].key = e.key
      /\ i = 0 => \A j \in 1..Len(l) : l[j].key # e.key
  BY <1>1, IndexProperties
<1>3. /\ new \in Lists
      /\ i = 0 => /\ Len(new) = Len(l) + 1
                  /\ new[Len(l) + 1] = e
                  /\ \A j \in 1..Len(l) : new[j] = l[j]
      /\ i # 0 => /\ Len(new) = Len(l)
                  /\ \A j \in 1..Len(l) : new[j] = IF j = i THEN e ELSE l[j]
  BY <1>1, ListSetProperties
<1>4. \A j, k \in 1..Len(l) : l[j].key = l[k].key => j = k
  BY DEF Storable
<1> HIDE DEF i, new
<1>5. ToSet(l) = {l[j] : j \in 1..Len(l)} /\ ToSet(new) = {new[j] : j \in 1..Len(new)}
  BY <1>1, <1>3 DEF ToSet, Lists
<1>6. CASE i = 0
  <2>1. \A j \in 1..Len(l) + 1 : j = Len(l) + 1 \/ j \in 1..Len(l)
    BY <1>1
  <2>2. 1..Len(l) \subseteq 1..Len(l) + 1 /\ Len(l) + 1 \in 1..Len(l) + 1
    BY <1>1
  <2>3. ToSet(new) = ToSet(l) \cup {e}
    BY <1>3, <1>5, <1>6, <2>1, <2>2
  <2>4. \A f \in ToSet(l) : f.key # e.key
    BY <1>2, <1>5, <1>6
  <2> QED
    BY <2>3, <2>4 DEF new
<1>7. CASE i # 0
  <2>1. i \in 1..Len(l) /\ Len(new) = Len(l)
    BY <1>1, <1>3, <1>7
  <2>2. \A j \in 1..Len(l) : l[j].key = e.key <=> j = i
    BY <1>2, <1>4, <1>7, <2>1
  <2>3. \A j \in 1..Len(l) : new[j] = IF j = i THEN e ELSE l[j]
    BY <1>3, <1>7
  <2>4. ToSet(new) = {f \in ToSet(l) : f.key # e.key} \cup {e}
    BY <1>5, <2>1, <2>2, <2>3
  <2> QED
    BY <2>4 DEF new
<1> QED
  BY <1>6, <1>7

-----------------------------------------------------------------------------
(***************************************************************************)
(* The scanner and the lines                                               *)
(***************************************************************************)
\* What the scanner makes of t from the list l, told by the lines of t.
ReadByLines(t, l) ==
    /\ scan[t][l] = Damaged <=> HasBadLine(t)
    /\ scan[t][l] # Damaged =>
         ToSet(scan[t][l]) = {e \in ToSet(l) : e.key \notin KeysOf(t)} \cup Deciding(t)

\* The scanner replaces the entries of l whose keys the lines have by theirs.
LEMMA ScanReadsLines ==
    ASSUME NEW text \in Text, NEW start, Storable(start)
    PROVE  ReadByLines(text, start)
<1> DEFINE P == {n \in Nat : \A t \in Text, l \in Lists :
                               Len(t) = n /\ Storable(l) => ReadByLines(t, l)}
<1>1. ASSUME NEW n \in Nat, \A m \in 0..n - 1 : m \in P PROVE n \in P
  <2> SUFFICES ASSUME NEW t \in Text, NEW l \in Lists, Len(t) = n, Storable(l)
               PROVE  ReadByLines(t, l)
    OBVIOUS
  <2>1. \A r \in Text, k \in Lists : Len(r) < n /\ Storable(k) => ReadByLines(r, k)
    BY <1>1 DEF Text
  <2>2. scan[t][l] = Scanned(t, l, scan)
    BY ScanRecursion
  <2>3. CASE t = <<>>
    <3>1. scan[t][l] = l
      BY <2>2, <2>3 DEF Scanned
    <3>2. Lines(t) = {}
      BY <2>3 DEF Lines, LineStarts
    <3>3. ~HasBadLine(t) /\ KeysOf(t) = {} /\ Deciding(t) = {}
      BY <3>2 DEF HasBadLine, KeysOf, Deciding
    <3>4. l # Damaged
      BY MarkersAssumption
    <3> QED
      BY <3>1, <3>3, <3>4 DEF ReadByLines
  <2>4. CASE t # <<>> /\ t[1] \in Skipped
    <3> DEFINE r == SubSeq(t, 2, Len(t))
    <3>1. /\ r \in Text
          /\ HasBadLine(t) <=> HasBadLine(r)
          /\ KeysOf(t) = KeysOf(r)
          /\ Deciding(t) = Deciding(r)
      BY <2>4, SkippedSaysNothing
    <3>2. r = Tail(t) /\ Head(t) = t[1]
      BY <2>4, TailIsSubSeq, TextLength DEF Text
    <3>3. Len(r) < n
      BY <2>4, <3>2, RestIsShorter
    <3> HIDE DEF r
    <3>4. scan[t][l] = scan[r][l]
      BY <2>2, <2>4, <3>2 DEF Scanned
    <3>5. ReadByLines(r, l)
      BY <2>1, <3>1, <3>3
    <3> QED
      BY <3>1, <3>4, <3>5 DEF ReadByLines
  <2>5. CASE t # <<>> /\ StartsFull(t)
    <3>1. Head(t) \notin Skipped
      BY <2>5, TextLength DEF StartsFull
    <3>2. 1 \in Lines(t)
      BY <2>5, FirstLineSplits
    <3>3. CASE find_entry(t) = NoEntry
      <4>1. scan[t][l] = Damaged
        BY <2>2, <2>5, <3>1, <3>3 DEF Scanned
      <4>2. HasBadLine(t)
        BY <2>5, <3>2, <3>3, FirstLineSplits DEF HasBadLine
      <4> QED
        BY <4>1, <4>2 DEF ReadByLines
    <3>4. CASE find_entry(t) # NoEntry
      <4> DEFINE size == find_entry(t).size
                 r == SubSeq(t, size + 1, Len(t))
                 e == [key |-> find_entry(t).key, value |-> find_entry(t).value]
      <4>1. scan[t][l] = scan[r][list_set(l, e)]
        BY <2>2, <2>5, <3>1, <3>4 DEF Scanned
      <4>2. r \in Text /\ Len(r) < n /\ e \in Entry
        BY <2>5, <3>4, RestIsShorter
      <4>3. EntriesAt(t, 1) = {e} /\ FirstLineTakes(t, size)
        BY <2>5, <3>4, FirstLineSplits
      <4>4. StorableKey(e.key) /\ StorableValue(e.value)
        BY <2>5, <3>4, FindEntryProperties DEF StorableKey, StartsFull
      <4> HIDE DEF e
      <4>5. /\ HasBadLine(t) <=> HasBadLine(r)
            /\ KeysOf(t) = {e.key} \cup KeysOf(r)
            /\ Deciding(t) = Deciding(r) \cup {f \in {e} : f.key \notin KeysOf(r)}
        <5> HIDE DEF size
        <5> QED
          BY <3>2, <4>3, EntryThenLines
      <4> HIDE DEF r
      <4>6. Storable(list_set(l, e)) /\ list_set(l, e) \in Lists
        BY <4>2, <4>4, ListSetStorable DEF Storable
      <4>7. ReadByLines(r, list_set(l, e))
        BY <2>1, <4>2, <4>6
      <4>8. ToSet(list_set(l, e)) = {f \in ToSet(l) : f.key # e.key} \cup {e}
        BY <4>2, ListSetAsSet
      <4> QED
        BY <4>1, <4>5, <4>7, <4>8 DEF ReadByLines
    <3> QED
      BY <3>3, <3>4
  <2> QED
    BY <2>3, <2>4, <2>5 DEF StartsFull
<1>2. P = Nat
  <2> HIDE DEF P
  <2>1. P \in SUBSET Nat
    BY DEF P
  <2> QED
    BY <1>1, <2>1, StrongNatSetInduction
<1>3. start \in Lists
  BY DEF Storable
<1> QED
  BY <1>2, <1>3 DEF Text

(***************************************************************************)
(* Of every text, whatever its length, the scanner reads the entries that  *)
(* its lines have, and refuses it if and only if a line has none.          *)
(***************************************************************************)
THEOREM ScannerReadsLines == Spec => []ScanIsLineWise
<1>1. ASSUME TypeOK PROVE ScanIsLineWise
  <2>1. SUFFICES ASSUME medium # Bare PROVE ScanIsLineWise
    BY DEF ScanIsLineWise
  <2>2. medium \in Text
    BY <1>1, <2>1 DEF TypeOK
  <2>3. Storable(EmptyList) /\ ToSet(EmptyList) = {}
    BY DEF Storable, EmptyList, Lists, ToSet
  <2>4. ReadByLines(medium, EmptyList)
    BY <2>2, <2>3, ScanReadsLines
  <2>5. /\ populate_list(medium) = Damaged <=> HasBadLine(medium)
        /\ populate_list(medium) # Damaged =>
             ToSet(populate_list(medium)) = Deciding(medium)
    BY <2>3, <2>4 DEF ReadByLines, populate_list
  <2> QED
    BY <2>5 DEF ScanIsLineWise, HasBadLine, Deciding, IsLast, Lines, EntriesAt
<1> QED
  BY <1>1, LegacyTypeCorrect, PTL
=============================================================================
