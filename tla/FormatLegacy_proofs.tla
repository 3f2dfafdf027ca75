------------------------- MODULE FormatLegacy_proofs -------------------------
(***************************************************************************)
(* Proofs about the legacy format, for texts and lists of any length: what *)
(* the scanner makes of a text, that it reads back what is written, and    *)
(* what a text cut short reads as.                                         *)
(***************************************************************************)
EXTENDS FormatLegacy, DataInduction, SequenceTheorems, TLAPS

-----------------------------------------------------------------------------
(***************************************************************************)
(* Positions                                                               *)
(***************************************************************************)
\* Min picks the least element.
LEMMA MinIsLeast ==
    ASSUME NEW I \in SUBSET Nat, I # {}
    PROVE  Min(I) \in I /\ \A i \in I : Min(I) <= i
BY NatLeast DEF Min

\* find returns the first position of char, or 0 when there is none.
LEMMA FindProperties ==
    ASSUME NEW s \in Text, NEW char
    PROVE  /\ find(s, char) \in 0..Len(s)
           /\ find(s, char) # 0 => s[find(s, char)] = char
           /\ \A i \in 1..find(s, char) - 1 : s[i] # char
           /\ find(s, char) = 0 => \A i \in 1..Len(s) : s[i] # char
<1> DEFINE I == {i \in 1..Len(s) : s[i] = char}
<1>1. find(s, char) = IF I # {} THEN Min(I) ELSE 0
  BY DEF find, SelectInSeq
<1>2. Len(s) \in Nat
  BY DEF Text
<1>3. CASE I = {}
  BY <1>1, <1>2, <1>3
<1>4. CASE I # {}
  <2>1. Min(I) \in I /\ \A i \in I : Min(I) <= i
    <3>1. I \in SUBSET Nat
      OBVIOUS
    <3> HIDE DEF I
    <3> QED
      BY <1>4, <3>1, MinIsLeast
  <2>2. Min(I) \in 1..Len(s) /\ s[Min(I)] = char
    BY <2>1
  <2>3. ASSUME NEW i \in 1..Min(I) - 1 PROVE s[i] # char
    <3>1. i \in 1..Len(s) /\ ~(Min(I) <= i)
      BY <1>2, <2>2
    <3> QED
      BY <2>1, <3>1
  <2> QED
    BY <1>1, <1>2, <1>4, <2>2, <2>3
<1> QED
  BY <1>3, <1>4

\* A position of char before which there is no other one is what find returns.
LEMMA FindIs ==
    ASSUME NEW s \in Text, NEW char, NEW i \in 1..Len(s),
           s[i] = char, \A j \in 1..i - 1 : s[j] # char
    PROVE  find(s, char) = i
<1>1. Len(s) \in Nat
  BY DEF Text
<1>2. find(s, char) # 0 /\ find(s, char) \in 0..Len(s)
  BY FindProperties
<1>3. ~(find(s, char) < i)
  BY <1>1, <1>2, FindProperties
<1>4. ~(i < find(s, char))
  BY <1>1, <1>2, FindProperties
<1> QED
  BY <1>1, <1>2, <1>3, <1>4

\* Where there is no char, find returns 0.
LEMMA FindNone ==
    ASSUME NEW s \in Text, NEW char, \A i \in 1..Len(s) : s[i] # char
    PROVE  find(s, char) = 0
<1>1. Len(s) \in Nat
  BY DEF Text
<1> QED
  BY <1>1, FindProperties

\* The beginning of a text.
LEMMA Beginning ==
    ASSUME NEW t \in Text, NEW n \in 0..Len(t)
    PROVE  /\ SubSeq(t, 1, n) \in Text
           /\ Len(SubSeq(t, 1, n)) = n
           /\ \A i \in 1..n : SubSeq(t, 1, n)[i] = t[i]
<1>1. Len(t) \in Nat /\ n \in Nat /\ \A i \in 1..n : t[i] \in Chars
  BY DEF Text
<1>2. /\ SubSeq(t, 1, n) \in Seq(Chars)
      /\ Len(SubSeq(t, 1, n)) = IF 1 <= n THEN n - 1 + 1 ELSE 0
      /\ \A i \in 1..n - 1 + 1 : SubSeq(t, 1, n)[i] = t[1 + i - 1]
  BY <1>1, SubSeqProperties
<1> QED
  BY <1>1, <1>2 DEF Text

\* What is left of a text after its first n characters.
LEMMA Remainder ==
    ASSUME NEW t \in Text, NEW n \in 0..Len(t)
    PROVE  /\ SubSeq(t, n + 1, Len(t)) \in Text
           /\ Len(SubSeq(t, n + 1, Len(t))) = Len(t) - n
           /\ \A i \in 1..Len(t) - n : SubSeq(t, n + 1, Len(t))[i] = t[n + i]
<1> DEFINE m == n + 1
           r == SubSeq(t, m, Len(t))
<1>1. Len(t) \in Nat /\ n \in Nat /\ m \in Nat /\ \A i \in m..Len(t) : t[i] \in Chars
  BY DEF Text
<1>2. /\ r \in Seq(Chars)
      /\ Len(r) = IF m <= Len(t) THEN Len(t) - m + 1 ELSE 0
      /\ \A i \in 1..Len(t) - m + 1 : r[i] = t[m + i - 1]
  <2> HIDE DEF m
  <2> QED
    BY <1>1, SubSeqProperties
<1> HIDE DEF r
<1>3. Len(r) = Len(t) - n /\ \A i \in 1..Len(t) - n : r[i] = t[n + i]
  BY <1>1, <1>2
<1> QED
  BY <1>2, <1>3 DEF r, Text

\* Texts are equal when they have the same characters.
LEMMA TextEqual ==
    ASSUME NEW s \in Text, NEW t \in Text,
           Len(s) = Len(t), \A i \in 1..Len(s) : s[i] = t[i]
    PROVE  s = t
BY SeqEqual DEF Text

\* One text after another.
LEMMA Concatenation ==
    ASSUME NEW s \in Text, NEW t \in Text
    PROVE  /\ s \o t \in Text
           /\ Len(s \o t) = Len(s) + Len(t)
           /\ \A i \in 1..Len(s) : (s \o t)[i] = s[i]
           /\ \A i \in 1..Len(t) : (s \o t)[Len(s) + i] = t[i]
<1>1. Len(s) \in Nat /\ Len(t) \in Nat
  BY DEF Text
<1>2. /\ s \o t \in Seq(Chars)
      /\ Len(s \o t) = Len(s) + Len(t)
      /\ \A i \in 1..Len(s) + Len(t) :
           (s \o t)[i] = IF i <= Len(s) THEN s[i] ELSE t[i - Len(s)]
  BY ConcatProperties DEF Text
<1> QED
  BY <1>1, <1>2 DEF Text

\* It does not matter which two of three texts are joined first.
LEMMA TextAssociative ==
    ASSUME NEW s \in Text, NEW t \in Text, NEW u \in Text
    PROVE  (s \o t) \o u = s \o (t \o u)
BY ConcatAssociative DEF Text

\* The lengths of texts.
LEMMA TextLength ==
    ASSUME NEW t \in Text
    PROVE  /\ Len(t) \in Nat
           /\ t = <<>> <=> Len(t) = 0
           /\ t # <<>> => Head(t) = t[1]
BY EmptySeq DEF Text

-----------------------------------------------------------------------------
(***************************************************************************)
(* Entries                                                                 *)
(***************************************************************************)
Entry == [key : Text, value : Text]

\* The keys and the values that the scanner reads back as they were written.
StorableKey(k) ==
    /\ k \in Text
    /\ k # <<>>
    /\ k[1] \notin Skipped
    /\ \A i \in 1..Len(k) : k[i] # "=" /\ k[i] # Newline

StorableValue(v) ==
    /\ v \in Text
    /\ v # <<>>
    /\ \A i \in 1..Len(v) : v[i] # Newline

\* What find_entry returns is no entry, or one that is not empty.
LEMMA FindEntryProperties ==
    ASSUME NEW buf \in Text, find_entry(buf) # NoEntry
    PROVE  LET e == find_entry(buf)
           IN  /\ e.key \in Text
               /\ e.key # <<>>
               /\ e.key[1] = buf[1]
               /\ \A i \in 1..Len(e.key) : e.key[i] # "=" /\ e.key[i] # Newline
               /\ StorableValue(e.value)
               /\ e.size \in 1..Len(buf)
<1> DEFINE eq == find(buf, "=")
           key == SubSeq(buf, 1, eq - 1)
           rest == SubSeq(buf, eq + 1, Len(buf))
           end == find(rest, Newline)
           value == IF end = 0 THEN rest ELSE SubSeq(rest, 1, end - 1)
           size == IF end = 0 THEN Len(buf) ELSE eq + end
<1>1. Len(buf) \in Nat /\ eq \in 0..Len(buf)
  BY FindProperties DEF Text
<1>2. /\ ~(eq \in {0, 1} \/ find(key, Newline) # 0 \/ rest = <<>> \/ end = 1)
      /\ find_entry(buf) = [key |-> key, value |-> value, size |-> size]
  BY DEF find_entry
<1>3. /\ key \in Text
      /\ Len(key) = eq - 1
      /\ \A i \in 1..eq - 1 : key[i] = buf[i]
  <2>1. eq - 1 \in Nat /\ eq - 1 <= Len(buf)
    BY <1>1, <1>2
  <2> QED
    BY <1>1, <1>2, <2>1, Beginning
<1>4. \A i \in 1..Len(key) : key[i] # "=" /\ key[i] # Newline
  <2>1. \A i \in 1..eq - 1 : buf[i] # "="
    BY FindProperties
  <2>2. \A i \in 1..Len(key) : key[i] # Newline
    BY <1>2, <1>3, FindProperties
  <2> QED
    BY <1>3, <2>1, <2>2
<1>5. key # <<>> /\ key[1] = buf[1]
  BY <1>1, <1>2, <1>3
<1>6. rest \in Text /\ Len(rest) = Len(buf) - eq /\ end \in 0..Len(rest)
  <2>1. rest \in Text /\ Len(rest) = Len(buf) - eq
    BY <1>1, Remainder
  <2> QED
    BY <2>1, FindProperties
<1>7. StorableValue(value)
  <2> HIDE DEF rest, end
  <2>1. CASE end = 0
    <3>1. \A i \in 1..Len(rest) : rest[i] # Newline
      BY <1>6, <2>1, FindProperties DEF end
    <3> QED
      BY <1>2, <1>6, <2>1, <3>1 DEF StorableValue
  <2>2. CASE end # 0
    <3>1. Len(rest) \in Nat /\ end - 1 \in Nat /\ end - 1 > 0
      BY <1>2, <1>6, <2>2 DEF Text
    <3>2. /\ value \in Text
          /\ Len(value) = end - 1
          /\ \A i \in 1..end - 1 : value[i] = rest[i]
      BY <1>6, <2>2, <3>1, Beginning
    <3>3. \A i \in 1..end - 1 : rest[i] # Newline
      BY <1>6, FindProperties DEF end
    <3> HIDE DEF value
    <3>4. value # <<>>
      BY <3>1, <3>2
    <3> QED
      BY <3>2, <3>3, <3>4 DEF StorableValue
  <2> QED
    BY <2>1, <2>2
<1>8. size \in 1..Len(buf)
  BY <1>1, <1>2, <1>6
<1>9. /\ find_entry(buf).key = key
      /\ find_entry(buf).value = value
      /\ find_entry(buf).size = size
  <2> HIDE DEF key, value, size
  <2> QED
    BY <1>2
<1> HIDE DEF key, value, size
<1> QED
  BY <1>3, <1>4, <1>5, <1>7, <1>8, <1>9

-----------------------------------------------------------------------------
(***************************************************************************)
(* Lists                                                                   *)
(***************************************************************************)
\* Index returns the position of an entry with this key, or 0.
LEMMA IndexProperties ==
    ASSUME NEW l \in Lists, NEW key
    PROVE  /\ Index(l, key) \in 0..Len(l)
           /\ Index(l, key) # 0 => l[Index(l, key)].key = key
           /\ Index(l, key) = 0 => \A i \in 1..Len(l) : l[i].key # key
<1> DEFINE I == {i \in 1..Len(l) : l[i].key = key}
<1>1. Index(l, key) = IF I # {} THEN Min(I) ELSE 0
  BY DEF Index, SelectInSeq
<1>2. Len(l) \in Nat
  BY DEF Lists
<1>3. CASE I = {}
  BY <1>1, <1>2, <1>3
<1>4. CASE I # {}
  <2>1. Min(I) \in I
    <3>1. I \in SUBSET Nat
      OBVIOUS
    <3> HIDE DEF I
    <3> QED
      BY <1>4, <3>1, MinIsLeast
  <2>2. Min(I) \in 1..Len(l) /\ l[Min(I)].key = key
    BY <2>1
  <2> QED
    BY <1>1, <1>2, <1>4, <2>2
<1> QED
  BY <1>3, <1>4

\* What list_set does to the length and to each entry.
LEMMA ListSetProperties ==
    ASSUME NEW l \in Lists, NEW e \in Entry
    PROVE  LET i == Index(l, e.key)
               new == list_set(l, e)
           IN  /\ new \in Lists
               /\ i = 0 => /\ new = Append(l, e)
                           /\ Len(new) = Len(l) + 1
                           /\ new[Len(l) + 1] = e
                           /\ \A j \in 1..Len(l) : new[j] = l[j]
               /\ i # 0 => /\ Len(new) = Len(l)
                           /\ \A j \in 1..Len(l) : new[j] = IF j = i THEN e ELSE l[j]
<1> DEFINE i == Index(l, e.key)
<1>1. l \in Seq(Entry) /\ i \in 0..Len(l)
  BY IndexProperties DEF Lists, Entry
<1>2. CASE i = 0
  <2>1. list_set(l, e) = Append(l, e)
    BY <1>2 DEF list_set
  <2> HIDE DEF i
  <2>2. /\ Append(l, e) \in Seq(Entry)
        /\ Len(Append(l, e)) = Len(l) + 1
        /\ Append(l, e)[Len(l) + 1] = e
        /\ \A j \in 1..Len(l) : Append(l, e)[j] = l[j]
    BY <1>1, AppendProperties
  <2> QED
    BY <1>2, <2>1, <2>2 DEF Lists, Entry, i
<1>3. CASE i # 0
  <2>1. list_set(l, e) = [l EXCEPT ![i] = e]
    BY <1>3 DEF list_set, ReplaceAt
  <2> HIDE DEF i
  <2>2. i \in 1..Len(l)
    BY <1>1, <1>3
  <2>3. /\ [l EXCEPT ![i] = e] \in Seq(Entry)
        /\ Len([l EXCEPT ![i] = e]) = Len(l)
        /\ \A j \in 1..Len(l) : [l EXCEPT ![i] = e][j] = IF j = i THEN e ELSE l[j]
    BY <1>1, <2>2, ExceptSeq
  <2> QED
    BY <1>3, <2>1, <2>3 DEF Lists, Entry, i
<1> QED
  BY <1>2, <1>3

-----------------------------------------------------------------------------
(***************************************************************************)
(* The scanner                                                             *)
(***************************************************************************)
\* What populate_list makes of buf from l, when g says what it makes of the rest.
Scanned(buf, l, g) ==
    IF buf = <<>> THEN l
    ELSE IF Head(buf) \in Skipped THEN g[Tail(buf)][l]
    ELSE LET e == find_entry(buf)
         IN  IF e = NoEntry THEN Damaged
             ELSE g[SubSeq(buf, e.size + 1, Len(buf))]
                   [list_set(l, [key |-> e.key, value |-> e.value])]

\* The rest of a text is a shorter text.
LEMMA RestIsShorter ==
    ASSUME NEW buf \in Text, buf # <<>>
    PROVE  /\ Len(buf) \in Nat
           /\ Tail(buf) \in Text
           /\ Len(Tail(buf)) < Len(buf)
           /\ find_entry(buf) # NoEntry =>
                LET e == find_entry(buf)
                    rest == SubSeq(buf, e.size + 1, Len(buf))
                IN  /\ rest \in Text
                    /\ Len(rest) < Len(buf)
                    /\ [key |-> e.key, value |-> e.value] \in Entry
<1>1. Len(buf) \in Nat /\ Tail(buf) \in Text /\ Len(Tail(buf)) < Len(buf)
  BY HeadTailProperties DEF Text
<1>2. ASSUME find_entry(buf) # NoEntry
      PROVE  LET e == find_entry(buf)
                 rest == SubSeq(buf, e.size + 1, Len(buf))
             IN  /\ rest \in Text
                 /\ Len(rest) < Len(buf)
                 /\ [key |-> e.key, value |-> e.value] \in Entry
  <2> DEFINE e == find_entry(buf)
  <2>1. e.key \in Text /\ e.value \in Text /\ e.size \in 1..Len(buf)
    BY <1>2, FindEntryProperties DEF StorableValue
  <2> HIDE DEF e
  <2>2. [key |-> e.key, value |-> e.value] \in Entry
    BY <2>1 DEF Entry
  <2>3. /\ SubSeq(buf, e.size + 1, Len(buf)) \in Text
        /\ Len(SubSeq(buf, e.size + 1, Len(buf))) < Len(buf)
    BY <1>1, <2>1, Remainder
  <2> QED
    BY <2>2, <2>3 DEF e
<1> QED
  BY <1>1, <1>2

Results == Lists \cup {Damaged}

\* scan is the recursion that it is written as.
LEMMA ScanRecursion ==
    \A buf \in Text : scan[buf] = [l \in Lists |-> Scanned(buf, l, scan)]
<1> DEFINE R == [Lists -> Results]
           F == [Text -> R]
           rank == [buf \in Text |-> Len(buf)]
           Step == [buf \in Text |-> [g \in F |-> [l \in Lists |-> Scanned(buf, l, g)]]]
<1>1. ASSUME NEW buf \in Text, NEW g \in F, NEW l \in Lists
      PROVE  Scanned(buf, l, g) \in Results
  <2>1. CASE buf = <<>>
    BY <2>1 DEF Scanned, Results
  <2>2. CASE buf # <<>> /\ Head(buf) \in Skipped
    <3>1. Scanned(buf, l, g) = g[Tail(buf)][l]
      BY <2>2 DEF Scanned
    <3>2. Tail(buf) \in Text
      BY <2>2, RestIsShorter
    <3> QED
      BY <3>1, <3>2
  <2>3. CASE buf # <<>> /\ Head(buf) \notin Skipped /\ find_entry(buf) = NoEntry
    BY <2>3 DEF Scanned, Results
  <2>4. CASE buf # <<>> /\ Head(buf) \notin Skipped /\ find_entry(buf) # NoEntry
    <3> DEFINE e == find_entry(buf)
               rest == SubSeq(buf, e.size + 1, Len(buf))
               entry == [key |-> e.key, value |-> e.value]
    <3>1. Scanned(buf, l, g) = g[rest][list_set(l, entry)]
      BY <2>4 DEF Scanned
    <3>2. rest \in Text /\ entry \in Entry
      BY <2>4, RestIsShorter
    <3> HIDE DEF rest, entry
    <3>3. list_set(l, entry) \in Lists
      BY <3>2, ListSetProperties
    <3> QED
      BY <3>1, <3>2, <3>3
  <2> QED
    BY <2>1, <2>2, <2>3, <2>4
<1>2. ASSUME NEW buf \in Text, NEW g \in F, NEW h \in F,
             \A t \in Text : rank[t] < rank[buf] => g[t] = h[t]
      PROVE  Step[buf][g] = Step[buf][h]
  <2>1. ASSUME NEW l \in Lists PROVE Scanned(buf, l, g) = Scanned(buf, l, h)
    <3>1. CASE buf = <<>>
      BY <3>1 DEF Scanned
    <3>2. CASE buf # <<>>
      <4>1. g[Tail(buf)] = h[Tail(buf)]
        BY <1>2, <3>2, RestIsShorter
      <4>2. find_entry(buf) # NoEntry =>
              LET rest == SubSeq(buf, find_entry(buf).size + 1, Len(buf))
              IN  g[rest] = h[rest]
        BY <1>2, <3>2, RestIsShorter
      <4> QED
        BY <4>1, <4>2 DEF Scanned
    <3> QED
      BY <3>1, <3>2
  <2> QED
    BY <2>1
<1>3. Recursive(Text, R, rank, Step)
  <2>1. R # {}
    <3>1. [l \in Lists |-> Damaged] \in R
      BY DEF Results
    <3> QED
      BY <3>1
  <2>2. rank \in [Text -> Nat]
    BY DEF Text
  <2>3. Step \in [Text -> [F -> R]]
    BY <1>1
  <2> HIDE DEF R, rank, Step
  <2> QED
    BY <1>2, <2>1, <2>2, <2>3 DEF Recursive
<1>4. PICK f \in F : \A buf \in Text : f[buf] = Step[buf][f]
  <2> HIDE DEF R, rank, Step
  <2> QED
    BY <1>3, RecursiveFunctionExists
<1>5. f = [buf \in Text |-> [l \in Lists |-> Scanned(buf, l, f)]]
  BY <1>4
<1>6. scan = [buf \in Text |-> [l \in Lists |-> Scanned(buf, l, scan)]]
  BY <1>5 DEF scan, Scanned
<1> QED
  BY <1>6

\* The scanner returns a list or refuses the text.
LEMMA ScanType ==
    ASSUME NEW text \in Text, NEW list0 \in Lists
    PROVE  scan[text][list0] \in Results
<1> DEFINE P == {n \in Nat : \A buf \in Text, l \in Lists :
                               Len(buf) = n => scan[buf][l] \in Results}
<1>1. ASSUME NEW n \in Nat, \A m \in 0..n - 1 : m \in P PROVE n \in P
  <2> SUFFICES ASSUME NEW buf \in Text, NEW l \in Lists, Len(buf) = n
               PROVE  scan[buf][l] \in Results
    OBVIOUS
  <2>1. \A t \in Text, k \in Lists : Len(t) < n => scan[t][k] \in Results
    BY <1>1 DEF Text
  <2>2. scan[buf][l] = Scanned(buf, l, scan)
    BY ScanRecursion
  <2>3. CASE buf = <<>>
    BY <2>2, <2>3 DEF Scanned, Results
  <2>4. CASE buf # <<>>
    <3>1. scan[Tail(buf)][l] \in Results
      BY <2>1, <2>4, RestIsShorter
    <3>2. ASSUME find_entry(buf) # NoEntry
          PROVE  LET e == find_entry(buf)
                 IN  scan[SubSeq(buf, e.size + 1, Len(buf))]
                         [list_set(l, [key |-> e.key, value |-> e.value])] \in Results
      <4> DEFINE e == find_entry(buf)
                 rest == SubSeq(buf, e.size + 1, Len(buf))
                 entry == [key |-> e.key, value |-> e.value]
      <4>1. rest \in Text /\ Len(rest) < n /\ entry \in Entry
        BY <2>4, <3>2, RestIsShorter
      <4> HIDE DEF rest, entry
      <4>2. list_set(l, entry) \in Lists
        BY <4>1, ListSetProperties
      <4>3. scan[rest][list_set(l, entry)] \in Results
        BY <2>1, <4>1, <4>2
      <4> QED
        BY <4>3 DEF rest, entry
    <3>3. Damaged \in Results
      BY DEF Results
    <3> QED
      BY <2>2, <2>4, <3>1, <3>2, <3>3 DEF Scanned
  <2> QED
    BY <2>3, <2>4
<1>2. P = Nat
  <2> HIDE DEF P
  <2>1. P \in SUBSET Nat
    BY DEF P
  <2> QED
    BY <1>1, <2>1, StrongNatSetInduction
<1> QED
  BY <1>2 DEF Text

-----------------------------------------------------------------------------
(***************************************************************************)
(* Lists that survive a rewrite                                            *)
(***************************************************************************)
\* The lists that the scanner returns, and those that it reads back.
Storable(l) ==
    /\ l \in Lists
    /\ \A i \in 1..Len(l) : StorableKey(l[i].key) /\ StorableValue(l[i].value)
    /\ \A i, j \in 1..Len(l) : l[i].key = l[j].key => i = j

\* Setting a storable attribute makes a storable list of one.
LEMMA ListSetStorable ==
    ASSUME NEW l, Storable(l), NEW e \in Entry, StorableKey(e.key), StorableValue(e.value)
    PROVE  Storable(list_set(l, e))
<1> DEFINE i == Index(l, e.key)
           new == list_set(l, e)
<1>1. l \in Lists /\ Len(l) \in Nat
  BY DEF Storable, Lists
<1>2. i \in 0..Len(l) /\ (i = 0 => \A j \in 1..Len(l) : l[j].key # e.key)
  BY <1>1, IndexProperties
<1>3. i # 0 => l[i].key = e.key
  BY <1>1, IndexProperties
<1>4. /\ new \in Lists
      /\ i = 0 => /\ Len(new) = Len(l) + 1
                  /\ new[Len(l) + 1] = e
                  /\ \A j \in 1..Len(l) : new[j] = l[j]
      /\ i # 0 => /\ Len(new) = Len(l)
                  /\ \A j \in 1..Len(l) : new[j] = IF j = i THEN e ELSE l[j]
  BY <1>1, ListSetProperties
<1> HIDE DEF i, new
<1>5. \A j \in 1..Len(new) : StorableKey(new[j].key) /\ StorableValue(new[j].value)
  BY <1>1, <1>2, <1>4 DEF Storable
<1>6. ASSUME NEW j \in 1..Len(new), NEW k \in 1..Len(new), new[j].key = new[k].key
      PROVE  j = k
  <2>1. CASE i = 0
    BY <1>1, <1>2, <1>4, <1>6, <2>1 DEF Storable
  <2>2. CASE i # 0
    <3>1. i \in 1..Len(l) /\ Len(new) = Len(l)
      BY <1>1, <1>2, <1>4, <2>2
    <3>2. \A m \in 1..Len(l) : new[m].key = l[m].key
      BY <1>3, <1>4, <2>2
    <3> QED
      BY <1>6, <3>1, <3>2 DEF Storable
  <2> QED
    BY <2>1, <2>2
<1>7. Storable(new)
  BY <1>4, <1>5, <1>6 DEF Storable
<1> QED
  BY <1>7 DEF new

\* The scanner makes storable lists of storable lists.
LEMMA ScanStorable ==
    ASSUME NEW text \in Text, NEW start, Storable(start), scan[text][start] # Damaged
    PROVE  Storable(scan[text][start])
<1> DEFINE P == {n \in Nat : \A buf \in Text, l \in Lists :
                               Len(buf) = n /\ Storable(l) /\ scan[buf][l] # Damaged
                                 => Storable(scan[buf][l])}
<1>1. ASSUME NEW n \in Nat, \A m \in 0..n - 1 : m \in P PROVE n \in P
  <2> SUFFICES ASSUME NEW buf \in Text, NEW l \in Lists,
                      Len(buf) = n, Storable(l), scan[buf][l] # Damaged
               PROVE  Storable(scan[buf][l])
    OBVIOUS
  <2>1. \A t \in Text, k \in Lists :
          Len(t) < n /\ Storable(k) /\ scan[t][k] # Damaged => Storable(scan[t][k])
    BY <1>1 DEF Text
  <2>2. scan[buf][l] = Scanned(buf, l, scan)
    BY ScanRecursion
  <2>3. CASE buf = <<>>
    BY <2>2, <2>3 DEF Scanned
  <2>4. CASE buf # <<>> /\ Head(buf) \in Skipped
    <3>1. scan[buf][l] = scan[Tail(buf)][l]
      BY <2>2, <2>4 DEF Scanned
    <3>2. Tail(buf) \in Text /\ Len(Tail(buf)) < n
      BY <2>4, RestIsShorter
    <3> QED
      BY <2>1, <3>1, <3>2
  <2>5. CASE buf # <<>> /\ Head(buf) \notin Skipped
    <3> DEFINE e == find_entry(buf)
               rest == SubSeq(buf, e.size + 1, Len(buf))
               entry == [key |-> e.key, value |-> e.value]
    <3>1. e # NoEntry /\ scan[buf][l] = scan[rest][list_set(l, entry)]
      BY <2>2, <2>5 DEF Scanned
    <3>2. rest \in Text /\ Len(rest) < n /\ entry \in Entry
      BY <2>5, <3>1, RestIsShorter
    <3>3. StorableKey(entry.key) /\ StorableValue(entry.value)
      <4>1. Head(buf) = buf[1]
        BY <2>5 DEF Text
      <4> QED
        BY <2>5, <3>1, <4>1, FindEntryProperties DEF StorableKey
    <3> HIDE DEF rest, entry
    <3>4. Storable(list_set(l, entry)) /\ list_set(l, entry) \in Lists
      BY <3>2, <3>3, ListSetStorable DEF Storable
    <3> QED
      BY <2>1, <3>1, <3>2, <3>4
  <2> QED
    BY <2>3, <2>4, <2>5
<1>2. P = Nat
  <2> HIDE DEF P
  <2>1. P \in SUBSET Nat
    BY DEF P
  <2> QED
    BY <1>1, <2>1, StrongNatSetInduction
<1>3. start \in Lists
  BY DEF Storable
<1> QED
  BY <1>2, <1>3 DEF Text

-----------------------------------------------------------------------------
(***************************************************************************)
(* Rows                                                                    *)
(***************************************************************************)
\* t starts with the key k, "=" and the value v, which take n characters, and
\* ends there or goes on with a newline.
StartsWith(t, k, v, n) ==
    /\ n = Len(k) + 1 + Len(v)
    /\ n <= Len(t)
    /\ \A i \in 1..Len(k) : t[i] = k[i]
    /\ t[Len(k) + 1] = "="
    /\ \A i \in 1..Len(v) : t[Len(k) + 1 + i] = v[i]
    /\ n < Len(t) => t[n + 1] = Newline

\* A text that starts like this starts with this entry.
LEMMA FindEntryIs ==
    ASSUME NEW t \in Text, NEW k, StorableKey(k), NEW v, StorableValue(v),
           NEW n \in Nat, StartsWith(t, k, v, n)
    PROVE  /\ find_entry(t) # NoEntry
           /\ find_entry(t).key = k
           /\ find_entry(t).value = v
           /\ find_entry(t).size = IF n = Len(t) THEN n ELSE n + 1
<1> DEFINE eq == find(t, "=")
           key == SubSeq(t, 1, eq - 1)
           rest == SubSeq(t, eq + 1, Len(t))
           end == find(rest, Newline)
           value == IF end = 0 THEN rest ELSE SubSeq(rest, 1, end - 1)
           size == IF end = 0 THEN Len(t) ELSE eq + end
           K == Len(k)
           V == Len(v)
<1>1. k \in Text /\ v \in Text /\ K \in Nat \ {0} /\ V \in Nat \ {0} /\ Len(t) \in Nat
  BY TextLength DEF StorableKey, StorableValue
<1> HIDE DEF K, V
<1>2. n = K + 1 + V /\ n <= Len(t)
  BY DEF StartsWith, K, V
<1>3. /\ \A i \in 1..K : t[i] = k[i] /\ k[i] # "=" /\ k[i] # Newline
      /\ t[K + 1] = "="
      /\ \A i \in 1..V : t[K + 1 + i] = v[i] /\ v[i] # Newline
      /\ n < Len(t) => t[n + 1] = Newline
  BY DEF StartsWith, StorableKey, StorableValue, K, V
<1>4. eq = K + 1
  <2>1. K + 1 \in 1..Len(t)
    BY <1>1, <1>2
  <2>2. \A i \in 1..(K + 1) - 1 : t[i] # "="
    BY <1>1, <1>3
  <2> QED
    BY <1>3, <2>1, <2>2, FindIs
<1>5. key = k
  <2>1. K \in 0..Len(t) /\ eq - 1 = K
    BY <1>1, <1>2, <1>4
  <2>2. key \in Text /\ Len(key) = K /\ \A i \in 1..K : key[i] = t[i]
    BY <2>1, Beginning
  <2> HIDE DEF key
  <2> QED
    BY <1>1, <1>3, <2>2, TextEqual DEF K
<1>6. find(key, Newline) = 0
  BY <1>1, <1>3, <1>5, FindNone DEF K
<1>7. rest \in Text /\ Len(rest) = Len(t) - (K + 1)
  <2>1. K + 1 \in 0..Len(t)
    BY <1>1, <1>2
  <2> QED
    BY <1>4, <2>1, Remainder
<1>8. \A i \in 1..Len(t) - (K + 1) : rest[i] = t[K + 1 + i]
  <2>1. K + 1 \in 0..Len(t)
    BY <1>1, <1>2
  <2> QED
    BY <1>4, <2>1, Remainder
<1> HIDE DEF eq, key, rest
<1>9. V <= Len(rest) /\ V \in 1..Len(rest) /\ V \in 0..Len(rest) /\ rest # <<>>
  BY <1>1, <1>2, <1>7, TextLength
<1>10. \A i \in 1..V : rest[i] = v[i] /\ rest[i] # Newline
  BY <1>1, <1>3, <1>7, <1>8, <1>9
<1>11. end # 1 /\ value = v /\ size = IF n = Len(t) THEN n ELSE n + 1
  <2>1. CASE n = Len(t)
    <3>1. Len(rest) = V
      BY <1>1, <1>2, <1>7, <2>1
    <3>2. rest = v
      BY <1>1, <1>7, <1>10, <3>1, TextEqual DEF V
    <3>3. end = 0
      BY <1>7, <1>10, <3>1, FindNone
    <3> QED
      BY <2>1, <3>2, <3>3
  <2>2. CASE n # Len(t)
    <3>1. V + 1 \in 1..Len(rest) /\ V + 1 \in 1..Len(t) - (K + 1) /\ n < Len(t)
      BY <1>1, <1>2, <1>7, <2>2
    <3>2. rest[V + 1] = Newline
      <4>1. rest[V + 1] = t[K + 1 + (V + 1)]
        BY <1>8, <3>1
      <4>2. K + 1 + (V + 1) = n + 1
        BY <1>1, <1>2
      <4> QED
        BY <1>3, <3>1, <4>1, <4>2
    <3>3. end = V + 1
      <4>1. (V + 1) - 1 = V
        BY <1>1
      <4>2. \A i \in 1..(V + 1) - 1 : rest[i] # Newline
        BY <1>10, <4>1
      <4> QED
        BY <1>7, <3>1, <3>2, <4>2, FindIs
    <3> DEFINE u == SubSeq(rest, 1, V)
    <3>4. u \in Text /\ Len(u) = V /\ \A i \in 1..V : u[i] = rest[i]
      BY <1>7, <1>9, Beginning
    <3>5. u = v
      <4> HIDE DEF u
      <4> QED
        BY <1>1, <1>10, <3>4, TextEqual DEF V
    <3>6. end # 0 /\ end # 1 /\ end - 1 = V /\ eq + end = n + 1
      <4> HIDE DEF end
      <4> QED
        BY <1>1, <1>2, <1>4, <3>3
    <3> QED
      BY <2>2, <3>5, <3>6
  <2> QED
    BY <2>1, <2>2
<1>12. ~(eq \in {0, 1} \/ find(key, Newline) # 0 \/ rest = <<>> \/ end = 1)
  BY <1>1, <1>4, <1>6, <1>9, <1>11
<1>13. find_entry(t) = [key |-> key, value |-> value, size |-> size]
  BY <1>12 DEF find_entry, eq, key, rest
<1> HIDE DEF value, size
<1>14. size # 0
  BY <1>1, <1>2, <1>11
<1>15. /\ find_entry(t).key = key
       /\ find_entry(t).value = value
       /\ find_entry(t).size = size
  BY <1>13
<1> QED
  BY <1>5, <1>11, <1>14, <1>15 DEF NoEntry

\* What is printed of a text is its beginning, without NULs.
LEMMA PrintedProperties ==
    ASSUME NEW s \in Text
    PROVE  /\ Printed(s) \in Text
           /\ NulFree(Printed(s))
           /\ Len(Printed(s)) <= Len(s)
           /\ \A i \in 1..Len(Printed(s)) : Printed(s)[i] = s[i]
<1> DEFINE n == find(s, Nul)
<1>1. Len(s) \in Nat
  BY TextLength
<1>2. CASE n = 0
  BY <1>1, <1>2 DEF Printed, NulFree
<1>3. CASE n # 0
  <2> DEFINE b == SubSeq(s, 1, n - 1)
  <2>1. n \in 0..Len(s) /\ \A i \in 1..n - 1 : s[i] # Nul
    BY FindProperties
  <2>2. Printed(s) = b
    BY <1>3 DEF Printed, NulFree
  <2> HIDE DEF n
  <2>3. n - 1 \in 0..Len(s)
    BY <1>1, <1>3, <2>1
  <2>4. b \in Text /\ Len(b) = n - 1 /\ \A i \in 1..n - 1 : b[i] = s[i]
    BY <2>3, Beginning
  <2> HIDE DEF b
  <2>5. NulFree(b)
    BY <2>1, <2>4, FindNone DEF NulFree
  <2> QED
    BY <1>1, <2>1, <2>2, <2>4, <2>5
<1> QED
  BY <1>2, <1>3

\* A row, position by position.
LEMMA RowProperties ==
    ASSUME NEW e \in Entry, PlainEntry(e)
    PROVE  LET K == Len(e.key)
               V == Len(e.value)
           IN  /\ Row(e) \in Text
               /\ Len(Row(e)) = K + 1 + V + 1
               /\ \A i \in 1..K : Row(e)[i] = e.key[i]
               /\ Row(e)[K + 1] = "="
               /\ \A i \in 1..V : Row(e)[K + 1 + i] = e.value[i]
               /\ Row(e)[K + 1 + V + 1] = Newline
<1> DEFINE a == e.key \o <<"=">>
           b == a \o e.value
           K == Len(e.key)
           V == Len(e.value)
<1>1. e.key \in Text /\ e.value \in Text /\ K \in Nat /\ V \in Nat
  BY TextLength DEF Entry
<1>2. \A c \in Chars : <<c>> \in Text /\ Len(<<c>>) = 1 /\ <<c>>[1] = c
  BY DEF Text
<1>3. "=" \in Chars /\ Newline \in Chars
  BY DEF Chars
<1>4. /\ a \in Text
      /\ Len(a) = K + 1
      /\ \A i \in 1..K : a[i] = e.key[i]
      /\ a[K + 1] = "="
  <2>1. 1 \in 1..1
    OBVIOUS
  <2> QED
    BY <1>1, <1>2, <1>3, <2>1, Concatenation
<1> HIDE DEF a, K, V
<1>5. Len(e.value) = V /\ Len(<<Newline>>) = 1 /\ 1 \in 1..1
  BY <1>2, <1>3 DEF V
<1>6. b \in Text /\ Len(b) = K + 1 + V
  <2>1. b \in Text /\ Len(b) = Len(a) + Len(e.value)
    BY <1>1, <1>4, Concatenation
  <2> QED
    BY <1>1, <1>4, <1>5, <2>1
<1>7. \A i \in 1..K + 1 : b[i] = a[i]
  BY <1>1, <1>4, Concatenation
<1>8. \A i \in 1..V : b[K + 1 + i] = e.value[i]
  BY <1>1, <1>4, <1>5, Concatenation
<1>9. Row(e) = b \o <<Newline>>
  BY DEF Row, Printed, PlainEntry, a
<1> HIDE DEF b
<1>10. Row(e) \in Text /\ Len(Row(e)) = K + 1 + V + 1
  BY <1>2, <1>3, <1>5, <1>6, <1>9, Concatenation
<1>11. \A i \in 1..K + 1 + V : Row(e)[i] = b[i]
  BY <1>2, <1>3, <1>6, <1>9, Concatenation
<1>12. Row(e)[K + 1 + V + 1] = Newline
  BY <1>2, <1>3, <1>5, <1>6, <1>9, Concatenation
<1>13. \A i \in 1..K : Row(e)[i] = e.key[i]
  BY <1>1, <1>4, <1>7, <1>11
<1>14. Row(e)[K + 1] = "="
  BY <1>1, <1>4, <1>7, <1>11
<1>15. \A i \in 1..V : Row(e)[K + 1 + i] = e.value[i]
  BY <1>1, <1>8, <1>11
<1> QED
  BY <1>10, <1>12, <1>13, <1>14, <1>15 DEF K, V

\* The entry that a row is printed of: up to the first NULs.
PrintedEntry(e) == [key |-> Printed(e.key), value |-> Printed(e.value)]

LEMMA PrintedEntryProperties ==
    ASSUME NEW e \in Entry
    PROVE  /\ PrintedEntry(e) \in Entry
           /\ PlainEntry(PrintedEntry(e))
           /\ Row(PrintedEntry(e)) = Row(e)
<1> DEFINE p == PrintedEntry(e)
<1>1. e.key \in Text /\ e.value \in Text
  BY DEF Entry
<1>2. p.key = Printed(e.key) /\ p.value = Printed(e.value)
  BY DEF PrintedEntry
<1>3. p \in Entry /\ PlainEntry(p)
  BY <1>1, <1>2, PrintedProperties DEF PrintedEntry, PlainEntry, Entry
<1>4. Printed(p.key) = p.key /\ Printed(p.value) = p.value
  BY <1>3 DEF PlainEntry, Printed
<1>5. Row(p) = Row(e)
  BY <1>2, <1>4 DEF Row
<1> QED
  BY <1>3, <1>5

\* A row is a text.
LEMMA RowType ==
    ASSUME NEW e \in Entry
    PROVE  Row(e) \in Text
<1>1. Row(PrintedEntry(e)) \in Text
  BY PrintedEntryProperties, RowProperties
<1> QED
  BY <1>1, PrintedEntryProperties

\* The scanner takes a row for the entry that it was written for.
LEMMA ScanRow ==
    ASSUME NEW e \in Entry, StorableKey(e.key), StorableValue(e.value), PlainEntry(e),
           NEW rest \in Text, NEW l \in Lists
    PROVE  /\ Row(e) \o rest \in Text
           /\ scan[Row(e) \o rest][l] = scan[rest][list_set(l, e)]
<1> DEFINE row == Row(e)
           t == row \o rest
           K == Len(e.key)
           V == Len(e.value)
           n == K + 1 + V
<1>1. K \in Nat \ {0} /\ V \in Nat \ {0} /\ n \in Nat
  <2>1. K \in Nat \ {0}
    BY TextLength DEF StorableKey
  <2>2. V \in Nat \ {0}
    BY TextLength DEF StorableValue
  <2> HIDE DEF K, V
  <2> QED
    BY <2>1, <2>2
<1>2. /\ row \in Text
      /\ Len(row) = n + 1
      /\ \A i \in 1..K : row[i] = e.key[i]
      /\ row[K + 1] = "="
      /\ \A i \in 1..V : row[K + 1 + i] = e.value[i]
      /\ row[n + 1] = Newline
  BY RowProperties
<1> HIDE DEF row
<1>3. /\ t \in Text
      /\ Len(t) = n + 1 + Len(rest)
      /\ \A i \in 1..n + 1 : t[i] = row[i]
      /\ \A i \in 1..Len(rest) : t[n + 1 + i] = rest[i]
  <2>1. t \in Text /\ Len(t) = Len(row) + Len(rest)
    BY <1>2, Concatenation
  <2>2. /\ \A i \in 1..Len(row) : t[i] = row[i]
        /\ \A i \in 1..Len(rest) : t[Len(row) + i] = rest[i]
    BY <1>2, Concatenation
  <2> HIDE DEF n, t
  <2> QED
    BY <1>2, <2>1, <2>2
<1>4. Len(rest) \in Nat
  BY TextLength
<1> HIDE DEF t
<1>5. StartsWith(t, e.key, e.value, n) /\ n # Len(t) /\ t[1] = e.key[1]
  <2> HIDE DEF K, V
  <2>1. n <= Len(t) /\ n # Len(t)
    BY <1>1, <1>3, <1>4
  <2>2. /\ \A i \in 1..K : t[i] = e.key[i]
        /\ t[K + 1] = "="
        /\ \A i \in 1..V : t[K + 1 + i] = e.value[i]
        /\ t[n + 1] = Newline
    BY <1>1, <1>2, <1>3
  <2>3. t[1] = e.key[1]
    BY <1>1, <2>2
  <2> QED
    BY <2>1, <2>2, <2>3 DEF StartsWith, K, V
<1>6. /\ find_entry(t) # NoEntry
      /\ find_entry(t).key = e.key
      /\ find_entry(t).value = e.value
      /\ find_entry(t).size = n + 1
  <2> HIDE DEF n
  <2> QED
    BY <1>1, <1>3, <1>5, FindEntryIs
<1> HIDE DEF n
<1>7. t # <<>> /\ Head(t) \notin Skipped
  <2>1. Len(t) # 0
    BY <1>1, <1>3, <1>4
  <2> QED
    BY <1>3, <1>5, <2>1, TextLength DEF StorableKey
<1>8. SubSeq(t, (n + 1) + 1, Len(t)) = rest
  <2> DEFINE u == SubSeq(t, (n + 1) + 1, Len(t))
  <2>1. n + 1 \in 0..Len(t) /\ Len(t) - (n + 1) = Len(rest)
    BY <1>1, <1>3, <1>4
  <2>2. u \in Text /\ Len(u) = Len(rest) /\ \A i \in 1..Len(rest) : u[i] = t[n + 1 + i]
    BY <1>3, <2>1, Remainder
  <2> HIDE DEF u
  <2>3. u = rest
    BY <1>3, <2>2, TextEqual
  <2> QED
    BY <2>3 DEF u
<1>9. [key |-> e.key, value |-> e.value] = e
  BY DEF Entry
<1>10. scan[t][l] = Scanned(t, l, scan)
  BY <1>3, ScanRecursion
<1>11. Scanned(t, l, scan) =
         scan[SubSeq(t, find_entry(t).size + 1, Len(t))]
             [list_set(l, [key |-> find_entry(t).key, value |-> find_entry(t).value])]
  BY <1>6, <1>7 DEF Scanned
<1>12. scan[t][l] = scan[rest][list_set(l, e)]
  BY <1>6, <1>8, <1>9, <1>10, <1>11
<1> QED
  BY <1>3, <1>12 DEF t, row

-----------------------------------------------------------------------------
(***************************************************************************)
(* Texts of lists                                                          *)
(***************************************************************************)
\* A sequence of texts is flattened one text after the other.
LEMMA FlattenSteps ==
    ASSUME NEW s \in Seq(Text)
    PROVE  \E f \in [0..Len(s) -> Text] :
              /\ f[0] = <<>>
              /\ \A i \in 1..Len(s) : f[i] = f[i - 1] \o s[i]
              /\ FlattenSeq(s) = f[Len(s)]
<1>1. Len(s) \in Nat /\ <<>> \in Text /\ \A i \in 1..Len(s) : s[i] \in Text
  BY DEF Text
<1>2. CASE Len(s) = 0
  <2> DEFINE f == [i \in 0..Len(s) |-> <<>>]
  <2>1. f \in [0..Len(s) -> Text] /\ f[0] = <<>> /\ \A i \in 1..Len(s) : f[i] = f[i - 1] \o s[i]
    BY <1>1, <1>2
  <2>2. FlattenSeq(s) = <<>>
    <3>1. s = <<>>
      BY <1>2
    <3> QED
      BY <1>2, <3>1 DEF FlattenSeq
  <2>3. f[Len(s)] = <<>>
    BY <1>2
  <2> QED
    BY <2>1, <2>2, <2>3
<1>3. CASE Len(s) # 0
  <2> DEFINE D == 1..Len(s)
             F == [D -> Text]
             rank == [i \in D |-> i]
             Value(i, g) == IF i = 1 THEN s[i] ELSE g[i - 1] \o s[i]
             Step == [i \in D |-> [g \in F |-> Value(i, g)]]
             flatten == CHOOSE g : g = [i \in D |-> IF i = 1 THEN s[i] ELSE g[i - 1] \o s[i]]
  <2>1. ASSUME NEW i \in D, NEW g \in F PROVE Value(i, g) \in Text
    <3>1. CASE i = 1
      BY <1>1, <3>1
    <3>2. CASE i # 1
      <4>1. i - 1 \in D /\ s[i] \in Text
        BY <1>1, <3>2
      <4>2. g[i - 1] \o s[i] \in Text
        BY <4>1, Concatenation
      <4> QED
        BY <3>2, <4>2
    <3> QED
      BY <3>1, <3>2
  <2>2. Recursive(D, Text, rank, Step)
    <3>1. Text # {} /\ rank \in [D -> Nat]
      BY <1>1
    <3>2. Step \in [D -> [F -> Text]]
      BY <2>1
    <3>3. ASSUME NEW i \in D, NEW g \in F, NEW h \in F,
                 \A j \in D : rank[j] < rank[i] => g[j] = h[j]
          PROVE  Step[i][g] = Step[i][h]
      <4>1. i # 1 => g[i - 1] = h[i - 1]
        BY <1>1, <3>3
      <4> QED
        BY <4>1
    <3> HIDE DEF D, F, rank, Step
    <3> QED
      BY <3>1, <3>2, <3>3 DEF Recursive, F
  <2>3. PICK g \in F : \A i \in D : g[i] = Step[i][g]
    <3> HIDE DEF D, rank, Step
    <3> QED
      BY <2>2, RecursiveFunctionExists
  <2>4. g = [i \in D |-> IF i = 1 THEN s[i] ELSE g[i - 1] \o s[i]]
    BY <2>3
  <2>5. flatten = [i \in D |-> IF i = 1 THEN s[i] ELSE flatten[i - 1] \o s[i]]
    BY <2>4
  <2>6. FlattenSeq(s) = flatten[Len(s)]
    BY <1>3 DEF FlattenSeq
  <2> HIDE DEF flatten
  <2>7. flatten \in F
    <3> DEFINE P == {n \in Nat : n \in D => flatten[n] \in Text}
    <3>1. ASSUME NEW n \in P PROVE n + 1 \in P
      <4> SUFFICES ASSUME n + 1 \in D PROVE flatten[n + 1] \in Text
        OBVIOUS
      <4>1. CASE n = 0
        BY <1>1, <2>5, <4>1
      <4>2. CASE n # 0
        <5>1. n \in D /\ (n + 1) - 1 = n /\ n + 1 # 1
          BY <1>1, <4>2
        <5>2. flatten[n + 1] = flatten[n] \o s[n + 1]
          BY <2>5, <5>1
        <5> QED
          BY <1>1, <5>1, <5>2, Concatenation
      <4> QED
        BY <4>1, <4>2
    <3>2. P = Nat
      <4>1. P \in SUBSET Nat /\ 0 \in P
        OBVIOUS
      <4> HIDE DEF P
      <4> QED
        BY <3>1, <4>1, NatSetInduction
    <3>3. \A n \in D : flatten[n] \in Text
      BY <1>1, <3>2
    <3>4. flatten = [i \in D |-> flatten[i]]
      BY <2>5
    <3> QED
      BY <3>3, <3>4
  <2> DEFINE f == [i \in 0..Len(s) |-> IF i = 0 THEN <<>> ELSE flatten[i]]
  <2>8. f \in [0..Len(s) -> Text]
    BY <1>1, <2>7
  <2>9. f[0] = <<>> /\ FlattenSeq(s) = f[Len(s)]
    BY <1>1, <1>3, <2>6
  <2>10. ASSUME NEW i \in 1..Len(s) PROVE f[i] = f[i - 1] \o s[i]
    <3>1. CASE i = 1
      <4>1. f[i] = s[i] /\ f[i - 1] = <<>>
        BY <1>1, <2>5, <3>1
      <4>2. <<>> \o s[i] = s[i]
        BY <1>1, ConcatEmptySeq DEF Text
      <4> QED
        BY <4>1, <4>2
    <3>2. CASE i # 1
      <4>1. i - 1 \in 0..Len(s) /\ i - 1 # 0 /\ i \in 0..Len(s) /\ i # 0
        BY <1>1, <3>2
      <4>2. flatten[i] = flatten[i - 1] \o s[i]
        BY <2>5, <3>2
      <4>3. f[i] = flatten[i] /\ f[i - 1] = flatten[i - 1]
        BY <4>1
      <4> QED
        BY <4>2, <4>3
    <3> QED
      BY <3>1, <3>2
  <2> QED
    BY <2>8, <2>9, <2>10
<1> QED
  BY <1>2, <1>3

\* f[n] is the text of the first n rows of l.
RowsOf(l, f) ==
    /\ f \in [0..Len(l) -> Text]
    /\ f[0] = <<>>
    /\ \A i \in 1..Len(l) : f[i] = f[i - 1] \o Row(l[i])

\* A list is written row after row.
LEMMA SerializeSteps ==
    ASSUME NEW l \in Lists
    PROVE  \E f : RowsOf(l, f) /\ Serialize(l) = f[Len(l)]
<1> DEFINE rows == [i \in DOMAIN l |-> Row(l[i])]
<1>1. Len(l) \in Nat /\ DOMAIN l = 1..Len(l) /\ \A i \in 1..Len(l) : l[i] \in Entry
  <2>1. l \in Seq(Entry)
    BY DEF Lists, Entry
  <2> QED
    BY <2>1
<1>2. \A i \in 1..Len(l) : Row(l[i]) \in Text
  BY <1>1, RowType
<1>3. rows \in Seq(Text) /\ Len(rows) = Len(l) /\ \A i \in 1..Len(l) : rows[i] = Row(l[i])
  BY <1>1, <1>2
<1>4. Serialize(l) = FlattenSeq(rows)
  BY DEF Serialize
<1> HIDE DEF rows
<1>5. PICK f \in [0..Len(l) -> Text] :
        /\ f[0] = <<>>
        /\ \A i \in 1..Len(l) : f[i] = f[i - 1] \o rows[i]
        /\ FlattenSeq(rows) = f[Len(l)]
  BY <1>3, FlattenSteps
<1>6. RowsOf(l, f)
  BY <1>3, <1>5 DEF RowsOf
<1> QED
  BY <1>4, <1>5, <1>6

\* The text of a list is a text.
LEMMA SerializeType ==
    ASSUME NEW l \in Lists
    PROVE  Serialize(l) \in Text
<1>1. Len(l) \in Nat
  BY DEF Lists
<1>2. PICK f : RowsOf(l, f) /\ Serialize(l) = f[Len(l)]
  BY SerializeSteps
<1> QED
  BY <1>1, <1>2 DEF RowsOf

\* The scanner reads the first rows of a storable list back, and goes on.
LEMMA ScanRows ==
    ASSUME NEW l, Storable(l), Plain(l), NEW f, RowsOf(l, f),
           NEW m \in 0..Len(l), NEW text \in Text
    PROVE  /\ SubSeq(l, 1, m) \in Lists
           /\ scan[f[m] \o text][EmptyList] = scan[text][SubSeq(l, 1, m)]
<1> DEFINE First(n) == SubSeq(l, 1, n)
           P == {n \in Nat : n <= Len(l) =>
                   \A rest \in Text : scan[f[n] \o rest][EmptyList] = scan[rest][First(n)]}
<1>1. l \in Lists /\ l \in Seq(Entry) /\ Len(l) \in Nat
  BY DEF Storable, Lists, Entry
<1>2. \A n \in 0..Len(l) :
        /\ First(n) \in Lists
        /\ Len(First(n)) = n
        /\ \A i \in 1..n : First(n)[i] = l[i]
  <2> SUFFICES ASSUME NEW n \in 0..Len(l)
               PROVE  /\ First(n) \in Lists
                      /\ Len(First(n)) = n
                      /\ \A i \in 1..n : First(n)[i] = l[i]
    OBVIOUS
  <2>1. n \in Int /\ \A i \in 1..n : l[i] \in Entry
    BY <1>1
  <2>2. /\ First(n) \in Seq(Entry)
        /\ Len(First(n)) = IF 1 <= n THEN n - 1 + 1 ELSE 0
        /\ \A i \in 1..n - 1 + 1 : First(n)[i] = l[1 + i - 1]
    BY <2>1, SubSeqProperties
  <2> QED
    BY <1>1, <2>1, <2>2 DEF Lists, Entry
<1>3. 0 \in P
  <2>1. First(0) = EmptyList
    BY SubSeqEmpty DEF EmptyList
  <2>2. \A rest \in Text : f[0] \o rest = rest
    BY ConcatEmptySeq DEF Text, RowsOf
  <2> HIDE DEF First
  <2> QED
    BY <2>1, <2>2
<1>4. ASSUME NEW n \in P PROVE n + 1 \in P
  <2> SUFFICES ASSUME n + 1 <= Len(l), NEW rest \in Text
               PROVE  scan[f[n + 1] \o rest][EmptyList] = scan[rest][First(n + 1)]
    OBVIOUS
  <2> DEFINE e == l[n + 1]
  <2>1. n + 1 \in 1..Len(l) /\ n \in 0..Len(l) /\ (n + 1) - 1 = n
    BY <1>1
  <2>2. e \in Entry /\ StorableKey(e.key) /\ StorableValue(e.value) /\ PlainEntry(e)
    BY <1>1, <2>1 DEF Storable, Plain
  <2>3. f[n + 1] = f[n] \o Row(e) /\ f[n] \in Text
    BY <2>1 DEF RowsOf
  <2>4. Index(First(n), e.key) = 0
    <3>1. \A i \in 1..n : First(n)[i].key # e.key
      BY <1>1, <1>2, <2>1 DEF Storable
    <3>2. First(n) \in Lists /\ Len(First(n)) = n
      BY <1>2, <2>1
    <3> HIDE DEF First, e
    <3>3. /\ Index(First(n), e.key) \in 0..n
          /\ Index(First(n), e.key) # 0 => First(n)[Index(First(n), e.key)].key = e.key
      BY <3>2, IndexProperties
    <3> QED
      BY <2>1, <3>1, <3>3
  <2>5. list_set(First(n), e) = First(n + 1)
    <3>1. list_set(First(n), e) = Append(First(n), e)
      BY <2>4 DEF list_set
    <3>2. First(n + 1) = First(n) \o <<e>>
      BY <1>1, <2>1, SubSeqRecursiveSecond
    <3>3. First(n) \in Seq(Entry)
      BY <1>2, <2>1 DEF Lists, Entry
    <3> HIDE DEF First, e
    <3> QED
      BY <2>2, <3>1, <3>2, <3>3, AppendIsConcat
  <2>6. Row(e) \in Text
    BY <2>2, RowProperties
  <2> HIDE DEF e, First
  <2>7. f[n + 1] \o rest = f[n] \o (Row(e) \o rest)
    <3>1. (f[n] \o Row(e)) \o rest = f[n] \o (Row(e) \o rest)
      BY <2>3, <2>6, TextAssociative
    <3> QED
      BY <2>3, <3>1
  <2>8. Row(e) \o rest \in Text /\ scan[Row(e) \o rest][First(n)] = scan[rest][First(n + 1)]
    BY <1>2, <2>1, <2>2, <2>5, ScanRow
  <2>9. scan[f[n] \o (Row(e) \o rest)][EmptyList] = scan[Row(e) \o rest][First(n)]
    BY <2>1, <2>8
  <2> QED
    BY <2>7, <2>8, <2>9
<1>5. P = Nat
  <2>1. P \in SUBSET Nat
    OBVIOUS
  <2> HIDE DEF P
  <2> QED
    BY <1>3, <1>4, <2>1, NatSetInduction
<1>6. m \in P /\ m <= Len(l)
  BY <1>1, <1>5
<1> QED
  BY <1>2, <1>6

\* What is written of a storable list is read as this list.
LEMMA SerializeIsRead ==
    ASSUME NEW l, Storable(l), Plain(l)
    PROVE  populate_list(Serialize(l)) = l
<1>1. l \in Lists /\ l \in Seq(Entry) /\ Len(l) \in Nat /\ <<>> \in Text
  BY DEF Storable, Lists, Entry, Text
<1>2. PICK f : RowsOf(l, f) /\ Serialize(l) = f[Len(l)]
  BY <1>1, SerializeSteps
<1>3. SubSeq(l, 1, Len(l)) = l
  BY <1>1, SubSeqFull
<1>4. f[Len(l)] \o <<>> = f[Len(l)]
  <2>1. f[Len(l)] \in Text
    BY <1>1, <1>2 DEF RowsOf
  <2> QED
    BY <2>1, ConcatEmptySeq DEF Text
<1>5. scan[f[Len(l)] \o <<>>][EmptyList] = scan[<<>>][l]
  <2>1. Len(l) \in 0..Len(l)
    BY <1>1
  <2>2. scan[f[Len(l)] \o <<>>][EmptyList] = scan[<<>>][SubSeq(l, 1, Len(l))]
    BY <1>1, <1>2, <2>1, ScanRows
  <2> QED
    BY <1>3, <2>2
<1>6. scan[<<>>][l] = l
  BY <1>1, ScanRecursion DEF Scanned
<1> QED
  BY <1>2, <1>4, <1>5, <1>6 DEF populate_list

-----------------------------------------------------------------------------
(***************************************************************************)
(* Type correctness                                                        *)
(***************************************************************************)
\* What init makes of a section is a list, or the section is damaged.
LEMMA ContentType ==
    ASSUME NEW text \in Text \cup {Bare}
    PROVE  Content(text) \in Results
<1>1. EmptyList \in Lists
  BY DEF EmptyList, Lists
<1>2. CASE text = Bare
  BY <1>2 DEF Content, Results
<1>3. CASE text # Bare
  <2>1. scan[text][EmptyList] \in Results
    BY <1>1, <1>3, ScanType
  <2> QED
    BY <1>3, <2>1 DEF Content, populate_list
<1> QED
  BY <1>2, <1>3

\* A list without one of its entries is a list.
LEMMA RemoveProperties ==
    ASSUME NEW l \in Lists, NEW i \in 1..Len(l)
    PROVE  /\ RemoveAt(l, i) \in Lists
           /\ Len(RemoveAt(l, i)) = Len(l) - 1
           /\ \A j \in 1..Len(l) - 1 : RemoveAt(l, i)[j] = IF j < i THEN l[j] ELSE l[j + 1]
<1> DEFINE a == SubSeq(l, 1, i - 1)
           b == SubSeq(l, i + 1, Len(l))
<1>1. l \in Seq(Entry) /\ Len(l) \in Nat /\ i \in Nat /\ i - 1 \in Int /\ i + 1 \in Int
  BY DEF Lists, Entry
<1>2. /\ a \in Seq(Entry)
      /\ Len(a) = i - 1
      /\ \A j \in 1..i - 1 : a[j] = l[j]
  <2>1. \A j \in 1..i - 1 : l[j] \in Entry
    BY <1>1
  <2>2. /\ a \in Seq(Entry)
        /\ Len(a) = IF 1 <= i - 1 THEN (i - 1) - 1 + 1 ELSE 0
        /\ \A j \in 1..(i - 1) - 1 + 1 : a[j] = l[1 + j - 1]
    BY <1>1, <2>1, SubSeqProperties
  <2> HIDE DEF a
  <2> QED
    BY <1>1, <2>2
<1>3. /\ b \in Seq(Entry)
      /\ Len(b) = Len(l) - i
      /\ \A j \in 1..Len(l) - i : b[j] = l[i + j]
  <2> DEFINE m == i + 1
             c == SubSeq(l, m, Len(l))
  <2>1. m \in Int /\ \A j \in m..Len(l) : l[j] \in Entry
    BY <1>1
  <2>2. /\ c \in Seq(Entry)
        /\ Len(c) = IF m <= Len(l) THEN Len(l) - m + 1 ELSE 0
        /\ \A j \in 1..Len(l) - m + 1 : c[j] = l[m + j - 1]
    <3> HIDE DEF m
    <3> QED
      BY <1>1, <2>1, SubSeqProperties
  <2>3. c = b
    OBVIOUS
  <2> HIDE DEF b, c
  <2> QED
    BY <1>1, <2>2, <2>3
<1>4. RemoveAt(l, i) = a \o b
  BY DEF RemoveAt
<1> HIDE DEF a, b
<1>5. /\ a \o b \in Seq(Entry)
      /\ Len(a \o b) = Len(a) + Len(b)
      /\ \A j \in 1..Len(a) + Len(b) : (a \o b)[j] = IF j <= Len(a) THEN a[j] ELSE b[j - Len(a)]
  BY <1>2, <1>3, ConcatProperties
<1>6. Len(a) + Len(b) = Len(l) - 1
  BY <1>1, <1>2, <1>3
<1>7. ASSUME NEW j \in 1..Len(l) - 1
      PROVE  (a \o b)[j] = IF j < i THEN l[j] ELSE l[j + 1]
  <2>1. CASE j < i
    <3>1. j \in 1..i - 1 /\ j <= Len(a)
      BY <1>1, <1>2, <2>1
    <3> QED
      BY <1>2, <1>5, <1>6, <2>1, <3>1
  <2>2. CASE ~(j < i)
    <3>1. ~(j <= Len(a)) /\ j - Len(a) \in 1..Len(l) - i /\ i + (j - Len(a)) = j + 1
      BY <1>1, <1>2, <2>2
    <3> QED
      BY <1>3, <1>5, <1>6, <2>2, <3>1
  <2> QED
    BY <2>1, <2>2
<1> QED
  BY <1>4, <1>5, <1>6, <1>7 DEF Lists, Entry

\* What main hands to commit is the list with one attribute set or deleted.
LEMMA EditsAreChanges ==
    ASSUME NEW l \in Edits
    PROVE  \/ \E k \in Keys, v \in Values : l = list_set(list, [key |-> k, value |-> v])
           \/ \E i \in DOMAIN list : l = RemoveAt(list, i)
<1> DEFINE Set(k, v) == list_set(list, [key |-> k, value |-> v])
           Delete(i) == RemoveAt(list, i)
<1>1. Edits = {m \in {Set(k, v) : k \in Keys, v \in Values}
                      \cup {Delete(i) : i \in DOMAIN list} : Len(m) <= MaxEntries}
  BY DEF Edits
<1> HIDE DEF Set, Delete
<1>2. \/ \E k \in Keys, v \in Values : l = Set(k, v)
      \/ \E i \in DOMAIN list : l = Delete(i)
  BY <1>1
<1> QED
  BY <1>2 DEF Set, Delete

\* What main hands to commit is a list.
LEMMA EditsAreLists ==
    ASSUME list \in Lists, NEW l \in Edits
    PROVE  l \in Lists
<1>1. CASE \E k \in Keys, v \in Values : l = list_set(list, [key |-> k, value |-> v])
  <2>1. PICK k \in Keys, v \in Values : l = list_set(list, [key |-> k, value |-> v])
    BY <1>1
  <2>2. [key |-> k, value |-> v] \in Entry
    BY TextsAssumption DEF Entry
  <2> QED
    BY <2>1, <2>2, ListSetProperties
<1>2. CASE \E i \in DOMAIN list : l = RemoveAt(list, i)
  <2>1. DOMAIN list = 1..Len(list)
    BY DEF Lists
  <2> QED
    BY <1>2, <2>1, RemoveProperties
<1> QED
  BY <1>1, <1>2 DEF Edits

\* The stages of a write leave texts, or a variable that was created only.
LEMMA StagesAreTexts ==
    ASSUME TypeOK
    PROVE  /\ Prepared(medium) \subseteq Text \cup {Bare}
           /\ Serialize(list) \in Text
           /\ PartlyProgrammed(medium, Serialize(list)) \subseteq Text \cup {Bare}
           /\ Interrupted \subseteq Text \cup {Bare}
<1>1. <<>> \in Text
  BY DEF Text
<1>2. Prepared(medium) \subseteq Text \cup {Bare}
  BY <1>1 DEF Prepared, TypeOK
<1>3. Serialize(list) \in Text
  BY SerializeType DEF TypeOK
<1>4. Prefixes(Serialize(list)) \subseteq Text
  BY <1>3, Beginning DEF Prefixes
<1>5. PartlyProgrammed(medium, Serialize(list)) \subseteq Text \cup {Bare}
  BY <1>1, <1>4 DEF PartlyProgrammed, TypeOK
<1> QED
  BY <1>2, <1>3, <1>5 DEF Interrupted, TypeOK

\* Initial states are well typed.
LEMMA LegacyTypeInit == Init => TypeOK
BY TextsAssumption DEF Init, TypeOK, EmptyList, Lists

\* Steps lead from well-typed to well-typed states.
LEMMA LegacyTypeNext == TypeOK /\ [Next]_vars => TypeOK'
<1> SUFFICES ASSUME TypeOK, [Next]_vars PROVE TypeOK'
  OBVIOUS
<1>1. EmptyList \in Lists
  BY DEF EmptyList, Lists
<1>2. CASE legacy_init
  <2>1. Content(medium) \in Lists
    BY <1>2, ContentType DEF legacy_init, Openable, TypeOK, Results
  <2> QED
    BY <1>2, <2>1 DEF legacy_init, TypeOK
<1>3. CASE legacy_init_fails
  BY <1>3 DEF legacy_init_fails, TypeOK
<1>4. ASSUME NEW l \in Edits, legacy_commit(l) \/ legacy_commit_refused(l) PROVE TypeOK'
  <2>1. l \in Lists
    BY EditsAreLists DEF TypeOK
  <2> QED
    BY <1>4, <2>1 DEF legacy_commit, legacy_commit_refused, TypeOK
<1>5. CASE Prepare \/ PrepareFails
  BY <1>5, StagesAreTexts DEF Prepare, PrepareFails, TypeOK
<1>6. CASE Program \/ ProgramFails
  BY <1>6, StagesAreTexts DEF Program, ProgramFails, TypeOK
<1>7. CASE legacy_close
  BY <1>1, <1>7 DEF legacy_close, TypeOK
<1>8. CASE Kill
  BY <1>1, <1>8, StagesAreTexts DEF Kill, TypeOK
<1>9. CASE UNCHANGED vars
  BY <1>9 DEF vars, TypeOK
<1> QED
  BY <1>2, <1>3, <1>4, <1>5, <1>6, <1>7, <1>8, <1>9 DEF Next

(***************************************************************************)
(* Every reachable state of the legacy format is well typed: the scanner   *)
(* makes a list of any text or refuses it, and every stage of a write      *)
(* leaves a text.                                                          *)
(***************************************************************************)
THEOREM LegacyTypeCorrect == Spec => []TypeOK
BY LegacyTypeInit, LegacyTypeNext, PTL DEF Spec

-----------------------------------------------------------------------------
(***************************************************************************)
(* Rewriting                                                               *)
(***************************************************************************)
\* The empty list is storable, and so is every list that init returns.
LEMMA ContentStorable ==
    ASSUME NEW text \in Text \cup {Bare}, Content(text) # Damaged
    PROVE  Storable(Content(text))
<1>1. Storable(EmptyList)
  BY DEF Storable, EmptyList, Lists
<1>2. text \in Text /\ Content(text) = scan[text][EmptyList]
  BY DEF Content, populate_list
<1> QED
  BY <1>1, <1>2, ScanStorable

\* A storable list is not refused.
LEMMA StorableNotRefused ==
    ASSUME NEW l, Storable(l)
    PROVE  ~Refused(l)
<1>1. DOMAIN l = 1..Len(l)
  BY DEF Storable, Lists
<1>2. ASSUME NEW i \in 1..Len(l)
      PROVE  /\ find(l[i].key, "=") = 0
             /\ find(l[i].key, Newline) = 0
             /\ find(l[i].value, Newline) = 0
  <2>1. StorableKey(l[i].key) /\ StorableValue(l[i].value)
    BY DEF Storable
  <2> QED
    BY <2>1, FindNone DEF StorableKey, StorableValue
<1> QED
  BY <1>1, <1>2 DEF Refused, ToSet

\* What is printed of a storable key or value, if anything, is storable.
LEMMA PrintedBeginsKey ==
    ASSUME NEW k, StorableKey(k), Printed(k) # <<>>
    PROVE  StorableKey(Printed(k))
<1> DEFINE p == Printed(k)
<1>1. k \in Text /\ Len(k) \in Nat
  BY TextLength DEF StorableKey
<1>2. p \in Text /\ Len(p) <= Len(k) /\ \A i \in 1..Len(p) : p[i] = k[i]
  BY <1>1, PrintedProperties
<1> HIDE DEF p
<1>3. Len(p) \in Nat /\ Len(p) # 0
  BY <1>2, TextLength DEF p
<1>4. 1 \in 1..Len(p) /\ \A i \in 1..Len(p) : i \in 1..Len(k)
  BY <1>1, <1>2, <1>3
<1>5. p[1] \notin Skipped
  BY <1>2, <1>4 DEF StorableKey
<1>6. \A i \in 1..Len(p) : p[i] # "=" /\ p[i] # Newline
  BY <1>2, <1>4 DEF StorableKey
<1> QED
  BY <1>2, <1>5, <1>6 DEF StorableKey, p

LEMMA PrintedBeginsValue ==
    ASSUME NEW v, StorableValue(v), Printed(v) # <<>>
    PROVE  StorableValue(Printed(v))
<1> DEFINE p == Printed(v)
<1>1. v \in Text /\ Len(v) \in Nat
  BY TextLength DEF StorableValue
<1>2. p \in Text /\ Len(p) <= Len(v) /\ \A i \in 1..Len(p) : p[i] = v[i]
  BY <1>1, PrintedProperties
<1> HIDE DEF p
<1>3. Len(p) \in Nat
  BY <1>2, TextLength
<1>4. \A i \in 1..Len(p) : i \in 1..Len(v)
  BY <1>1, <1>2, <1>3
<1>5. \A i \in 1..Len(p) : p[i] # Newline
  BY <1>2, <1>4 DEF StorableValue
<1> QED
  BY <1>2, <1>5 DEF StorableValue, p

\* What is printed of a storable list that prints apart is storable and
\* without NULs, and is all that is written of the list.
LEMMA PrintedIsStorable ==
    ASSUME NEW l, Storable(l), PrintsApart(l)
    PROVE  /\ Storable(PrintedList(l))
           /\ Plain(PrintedList(l))
           /\ Serialize(PrintedList(l)) = Serialize(l)
<1> DEFINE p == PrintedList(l)
<1>1. Len(l) \in Nat /\ DOMAIN l = 1..Len(l) /\ \A i \in 1..Len(l) : l[i] \in Entry
  <2>1. l \in Seq(Entry)
    BY DEF Storable, Lists, Entry
  <2> QED
    BY <2>1
<1>2. p = [i \in 1..Len(l) |-> PrintedEntry(l[i])]
  BY <1>1 DEF PrintedList, PrintedEntry
<1> HIDE DEF p
<1>3. \A i \in 1..Len(l) :
        /\ PrintedEntry(l[i]) \in Entry
        /\ PlainEntry(PrintedEntry(l[i]))
        /\ Row(PrintedEntry(l[i])) = Row(l[i])
  BY <1>1, PrintedEntryProperties
<1>4. /\ p \in Lists
      /\ Len(p) = Len(l)
      /\ DOMAIN p = 1..Len(l)
      /\ \A i \in 1..Len(l) : p[i] = PrintedEntry(l[i])
  BY <1>1, <1>2, <1>3 DEF Lists, Entry
<1>5. \A i \in 1..Len(l) : StorableKey(p[i].key) /\ StorableValue(p[i].value)
  <2> SUFFICES ASSUME NEW i \in 1..Len(l)
               PROVE  StorableKey(p[i].key) /\ StorableValue(p[i].value)
    OBVIOUS
  <2> DEFINE k == l[i].key
             v == l[i].value
  <2>1. k \in Text /\ v \in Text /\ StorableKey(k) /\ StorableValue(v)
    BY <1>1 DEF Storable, Entry
  <2>2. p[i].key = Printed(k) /\ p[i].value = Printed(v)
    BY <1>4 DEF PrintedEntry
  <2>3. Printed(k) # <<>> /\ Printed(v) # <<>>
    BY <1>1 DEF PrintsApart
  <2> HIDE DEF k, v
  <2>4. StorableKey(Printed(k))
    BY <2>1, <2>3, PrintedBeginsKey
  <2>5. StorableValue(Printed(v))
    BY <2>1, <2>3, PrintedBeginsValue
  <2> QED
    BY <2>2, <2>4, <2>5
<1>6. \A i, j \in 1..Len(l) : p[i].key = p[j].key => i = j
  BY <1>1, <1>4 DEF PrintsApart, PrintedEntry
<1>7. Storable(p)
  BY <1>4, <1>5, <1>6 DEF Storable
<1>8. Plain(p)
  BY <1>3, <1>4 DEF Plain
<1>9. Serialize(p) = Serialize(l)
  <2>1. [i \in DOMAIN p |-> Row(p[i])] = [i \in DOMAIN l |-> Row(l[i])]
    BY <1>1, <1>3, <1>4
  <2> QED
    BY <2>1 DEF Serialize
<1> QED
  BY <1>7, <1>8, <1>9 DEF p

(***************************************************************************)
(* Whatever text init accepts, of any length, its list can be committed    *)
(* and is read back as it was, every key and value up to its first NUL,    *)
(* as long as NULs leave something of each and the keys distinct.          *)
(***************************************************************************)
THEOREM RewritesKeepLists == Spec => []RewriteKeepsList
<1>1. TypeOK => RewriteKeepsList
  <2> DEFINE read == Content(medium)
  <2> SUFFICES ASSUME TypeOK, read # Damaged
               PROVE  /\ ~Refused(read)
                      /\ PrintsApart(read) =>
                           populate_list(Serialize(read)) = PrintedList(read)
    BY DEF RewriteKeepsList
  <2>1. Storable(read)
    BY ContentStorable DEF TypeOK
  <2> HIDE DEF read
  <2>2. ASSUME PrintsApart(read)
        PROVE  populate_list(Serialize(read)) = PrintedList(read)
    <3>1. /\ Storable(PrintedList(read))
          /\ Plain(PrintedList(read))
          /\ Serialize(PrintedList(read)) = Serialize(read)
      BY <2>1, <2>2, PrintedIsStorable
    <3> QED
      BY <3>1, SerializeIsRead
  <2> QED
    BY <2>1, <2>2, StorableNotRefused
<1> QED
  BY <1>1, LegacyTypeCorrect, PTL

-----------------------------------------------------------------------------
(***************************************************************************)
(* What a text cut short reads as                                          *)
(***************************************************************************)
\* A row cut short is read as nothing, as its entry with a part of the value,
\* or makes the text unreadable.
LEMMA ScanTornRow ==
    ASSUME NEW e \in Entry, StorableKey(e.key), StorableValue(e.value), PlainEntry(e),
           NEW l \in Lists, Index(l, e.key) = 0,
           NEW j \in 0..Len(Row(e)) - 1
    PROVE  LET q == SubSeq(Row(e), 1, j)
           IN  \/ scan[q][l] = l
               \/ scan[q][l] = Damaged
               \/ \E v \in Prefixes(e.value) \ {<<>>} :
                    scan[q][l] = Append(l, [key |-> e.key, value |-> v])
<1> DEFINE K == Len(e.key)
           V == Len(e.value)
           q == SubSeq(Row(e), 1, j)
           i == j - (K + 1)
           v == SubSeq(e.value, 1, i)
<1>1. K \in Nat \ {0} /\ V \in Nat \ {0}
  <2>1. K \in Nat \ {0}
    BY TextLength DEF StorableKey
  <2>2. V \in Nat \ {0}
    BY TextLength DEF StorableValue
  <2> QED
    BY <2>1, <2>2
<1>2. /\ \A n \in 1..K : Row(e)[n] = e.key[n]
      /\ Row(e)[K + 1] = "="
      /\ \A n \in 1..V : Row(e)[K + 1 + n] = e.value[n]
  BY RowProperties
<1>3. Row(e) \in Text /\ Len(Row(e)) = K + 1 + V + 1
  BY RowProperties
<1> HIDE DEF K, V
<1>4. j \in 0..Len(Row(e)) /\ j \in Nat /\ j <= K + 1 + V
  BY <1>1, <1>3
<1>5. q \in Text /\ Len(q) = j
  BY <1>3, <1>4, Beginning
<1>6. \A n \in 1..j : q[n] = Row(e)[n]
  BY <1>3, <1>4, Beginning
<1> HIDE DEF q
<1>7. scan[q][l] = Scanned(q, l, scan)
  BY <1>5, ScanRecursion
<1>8. CASE j = 0
  <2>1. q = <<>>
    BY <1>5, <1>8, TextLength
  <2>2. scan[q][l] = l
    BY <1>7, <2>1 DEF Scanned
  <2> QED
    BY <2>2 DEF q
<1>9. ASSUME j # 0 PROVE q # <<>> /\ Head(q) \notin Skipped
  <2>1. q # <<>> /\ Head(q) = q[1]
    BY <1>5, <1>9, TextLength
  <2>2. 1 \in 1..j /\ 1 \in 1..K
    BY <1>1, <1>4, <1>9
  <2>3. q[1] = e.key[1]
    BY <1>2, <1>6, <2>2
  <2> QED
    BY <2>1, <2>3 DEF StorableKey
<1>10. CASE j # 0 /\ j <= K + 1
  <2>1. \A n \in 1..K : e.key[n] # "="
    BY DEF StorableKey, K
  <2>2. find_entry(q) = NoEntry
    <3>1. CASE j <= K
      <4>1. \A n \in 1..j : n \in 1..K
        BY <1>1, <1>4, <3>1
      <4>2. \A n \in 1..Len(q) : q[n] # "="
        BY <1>2, <1>5, <1>6, <2>1, <4>1
      <4>3. find(q, "=") = 0
        BY <1>5, <4>2, FindNone
      <4> QED
        BY <4>3 DEF find_entry
    <3>2. CASE ~(j <= K)
      <4>1. j = K + 1 /\ j \in 1..j /\ j \in 0..j /\ j - 1 = K
        BY <1>1, <1>4, <1>10, <3>2
      <4>2. q[j] = "=" /\ \A n \in 1..j - 1 : q[n] # "="
        <5>1. \A n \in 1..j - 1 : n \in 1..j /\ n \in 1..K
          BY <1>4, <4>1
        <5>2. q[j] = "="
          BY <1>2, <1>6, <4>1
        <5> QED
          BY <1>2, <1>6, <2>1, <5>1, <5>2
      <4>3. find(q, "=") = j
        BY <1>5, <4>1, <4>2, FindIs
      <4>4. SubSeq(q, j + 1, Len(q)) = <<>>
        <5>1. /\ SubSeq(q, j + 1, Len(q)) \in Text
              /\ Len(SubSeq(q, j + 1, Len(q))) = Len(q) - j
          BY <1>5, <4>1, Remainder
        <5>2. Len(q) - j = 0
          BY <1>4, <1>5
        <5> QED
          BY <5>1, <5>2, TextLength
      <4> QED
        BY <4>3, <4>4 DEF find_entry
    <3> QED
      BY <3>1, <3>2
  <2>3. scan[q][l] = Damaged
    BY <1>7, <1>9, <1>10, <2>2 DEF Scanned
  <2> QED
    BY <2>3 DEF q
<1>11. CASE ~(j <= K + 1)
  <2>1. i \in 0..V /\ i \in 1..V /\ i \in Nat /\ i # 0 /\ j = K + 1 + i
    BY <1>1, <1>4, <1>11
  <2>2. e.value \in Text /\ Len(e.value) = V
    BY DEF Entry, V
  <2> HIDE DEF i
  <2>3. v \in Text /\ Len(v) = i
    BY <2>1, <2>2, Beginning
  <2>4. \A n \in 1..i : v[n] = e.value[n]
    BY <2>1, <2>2, Beginning
  <2>5. v \in Prefixes(e.value)
    BY <2>1, <2>2 DEF Prefixes
  <2> HIDE DEF v
  <2>6. v # <<>> /\ StorableValue(v)
    <3>1. v # <<>>
      BY <2>1, <2>3, TextLength
    <3>2. \A n \in 1..V : e.value[n] # Newline
      BY DEF StorableValue, V
    <3>3. \A n \in 1..i : n \in 1..V
      BY <1>1, <2>1
    <3>4. \A n \in 1..Len(v) : v[n] # Newline
      BY <2>3, <2>4, <3>2, <3>3
    <3> QED
      BY <2>3, <3>1, <3>4 DEF StorableValue
  <2>7. StartsWith(q, e.key, v, j)
    <3>1. /\ \A n \in 1..K : n \in 1..j
          /\ K + 1 \in 1..j
          /\ \A n \in 1..i : K + 1 + n \in 1..j /\ n \in 1..V
      BY <1>1, <2>1
    <3>2. \A n \in 1..K : q[n] = e.key[n]
      BY <1>2, <1>6, <3>1
    <3>3. q[K + 1] = "="
      BY <1>2, <1>6, <3>1
    <3>4. \A n \in 1..i : q[K + 1 + n] = v[n]
      BY <1>2, <1>6, <2>4, <3>1
    <3>5. j <= Len(q) /\ ~(j < Len(q))
      BY <1>4, <1>5
    <3> QED
      BY <2>1, <2>3, <3>2, <3>3, <3>4, <3>5 DEF StartsWith, K
  <2>8. /\ find_entry(q) # NoEntry
        /\ find_entry(q).key = e.key
        /\ find_entry(q).value = v
        /\ find_entry(q).size = j
    BY <1>4, <1>5, <2>6, <2>7, FindEntryIs
  <2>9. SubSeq(q, j + 1, Len(q)) = <<>>
    <3>1. j \in 0..Len(q) /\ Len(q) - j = 0
      BY <1>4, <1>5
    <3>2. /\ SubSeq(q, j + 1, Len(q)) \in Text
          /\ Len(SubSeq(q, j + 1, Len(q))) = Len(q) - j
      BY <1>5, <3>1, Remainder
    <3> QED
      BY <3>1, <3>2, TextLength
  <2> DEFINE new == [key |-> e.key, value |-> v]
  <2>10. new \in Entry /\ new.key = e.key
    BY <2>3 DEF Entry
  <2> HIDE DEF new
  <2>11. list_set(l, new) = Append(l, new) /\ list_set(l, new) \in Lists
    BY <2>10, ListSetProperties
  <2>12. scan[q][l] = scan[<<>>][list_set(l, new)]
    <3>1. j # 0
      BY <1>1, <2>1
    <3>2. Scanned(q, l, scan) =
            scan[SubSeq(q, find_entry(q).size + 1, Len(q))]
                [list_set(l, [key |-> find_entry(q).key, value |-> find_entry(q).value])]
      BY <1>9, <2>8, <3>1 DEF Scanned
    <3> QED
      BY <1>7, <2>8, <2>9, <3>2 DEF new
  <2>13. scan[<<>>][list_set(l, new)] = list_set(l, new)
    <3>1. <<>> \in Text
      BY DEF Text
    <3> QED
      BY <2>11, <3>1, ScanRecursion DEF Scanned
  <2>14. scan[q][l] = Append(l, new)
    BY <2>11, <2>12, <2>13
  <2> QED
    BY <2>5, <2>6, <2>14 DEF q, new
<1> QED
  BY <1>4, <1>8, <1>10, <1>11

\* The beginnings of two texts, one after the other.
LEMMA BeginningOfConcatenation ==
    ASSUME NEW s \in Text, NEW t \in Text, NEW m \in 0..Len(s \o t)
    PROVE  /\ m <= Len(s) => SubSeq(s \o t, 1, m) = SubSeq(s, 1, m)
           /\ m > Len(s) => SubSeq(s \o t, 1, m) = s \o SubSeq(t, 1, m - Len(s))
<1> DEFINE u == s \o t
           b == SubSeq(u, 1, m)
<1>1. Len(s) \in Nat /\ Len(t) \in Nat
  BY TextLength
<1>2. u \in Text /\ Len(u) = Len(s) + Len(t)
  BY Concatenation
<1>3. /\ \A i \in 1..Len(s) : u[i] = s[i]
      /\ \A i \in 1..Len(t) : u[Len(s) + i] = t[i]
  BY Concatenation
<1> HIDE DEF u
<1>4. m \in 0..Len(u) /\ m \in Nat /\ m <= Len(s) + Len(t)
  BY <1>1, <1>2 DEF u
<1>5. b \in Text /\ Len(b) = m
  BY <1>2, <1>4, Beginning
<1>6. \A i \in 1..m : b[i] = u[i]
  BY <1>2, <1>4, Beginning
<1> HIDE DEF b
<1>7. ASSUME m <= Len(s) PROVE b = SubSeq(s, 1, m)
  <2> DEFINE c == SubSeq(s, 1, m)
  <2>1. m \in 0..Len(s) /\ \A i \in 1..m : i \in 1..Len(s)
    BY <1>1, <1>4, <1>7
  <2>2. c \in Text /\ Len(c) = m /\ \A i \in 1..m : c[i] = s[i]
    BY <2>1, Beginning
  <2> HIDE DEF c
  <2>3. \A i \in 1..m : b[i] = c[i]
    BY <1>3, <1>6, <2>1, <2>2
  <2>4. b = c
    BY <1>5, <2>2, <2>3, TextEqual
  <2> QED
    BY <2>4 DEF c
<1>8. ASSUME m > Len(s) PROVE b = s \o SubSeq(t, 1, m - Len(s))
  <2> DEFINE k == m - Len(s)
             c == SubSeq(t, 1, k)
             d == s \o c
  <2>1. k \in 0..Len(t) /\ Len(s) + k = m
    BY <1>1, <1>4, <1>8
  <2> HIDE DEF k
  <2>2. c \in Text /\ Len(c) = k /\ \A i \in 1..k : c[i] = t[i]
    BY <2>1, Beginning
  <2> HIDE DEF c
  <2>3. d \in Text /\ Len(d) = Len(s) + Len(c)
    BY <2>2, Concatenation
  <2>4. /\ \A i \in 1..Len(s) : d[i] = s[i]
        /\ \A i \in 1..Len(c) : d[Len(s) + i] = c[i]
    BY <2>2, Concatenation
  <2> HIDE DEF d
  <2>5. ASSUME NEW i \in 1..m PROVE b[i] = d[i]
    <3>1. CASE i <= Len(s)
      <4>1. i \in 1..Len(s)
        BY <1>1, <1>4, <3>1
      <4> QED
        BY <1>3, <1>6, <2>4, <4>1
    <3>2. CASE ~(i <= Len(s))
      <4> DEFINE n == i - Len(s)
      <4>1. n \in 1..k /\ n \in 1..Len(t) /\ Len(s) + n = i
        BY <1>1, <1>4, <2>1, <3>2
      <4> HIDE DEF n
      <4>2. d[i] = t[n]
        BY <2>2, <2>4, <4>1
      <4>3. b[i] = t[n]
        BY <1>3, <1>6, <4>1
      <4> QED
        BY <4>2, <4>3
    <3> QED
      BY <3>1, <3>2
  <2>6. Len(d) = m
    BY <1>1, <2>1, <2>2, <2>3
  <2>7. b = d
    BY <1>5, <2>3, <2>5, <2>6, TextEqual
  <2> QED
    BY <2>7 DEF c, d, k
<1> QED
  BY <1>7, <1>8 DEF b, u

\* The text of a storable list, cut short anywhere, reads as TornList says.
LEMMA TornIsRead ==
    ASSUME NEW l, Storable(l), Plain(l), NEW p \in Prefixes(Serialize(l))
    PROVE  populate_list(p) \in TornList(l)
<1>1. l \in Lists /\ l \in Seq(Entry) /\ Len(l) \in Nat /\ <<>> \in Text
  BY DEF Storable, Lists, Entry, Text
<1>2. PICK f : RowsOf(l, f) /\ Serialize(l) = f[Len(l)]
  BY <1>1, SerializeSteps
<1>3. \A n \in 0..Len(l) : SubSeq(l, 1, n) \in TornList(l)
  BY DEF TornList
<1>4. \A n \in 0..Len(l) : populate_list(f[n]) \in TornList(l)
  <2> SUFFICES ASSUME NEW n \in 0..Len(l) PROVE populate_list(f[n]) \in TornList(l)
    OBVIOUS
  <2>1. f[n] \in Text
    BY <1>2 DEF RowsOf
  <2>2. f[n] \o <<>> = f[n]
    BY <2>1, ConcatEmptySeq DEF Text
  <2>3. SubSeq(l, 1, n) \in Lists /\ scan[f[n] \o <<>>][EmptyList] = scan[<<>>][SubSeq(l, 1, n)]
    BY <1>1, <1>2, ScanRows
  <2>4. scan[<<>>][SubSeq(l, 1, n)] = SubSeq(l, 1, n)
    BY <1>1, <2>3, ScanRecursion DEF Scanned
  <2> QED
    BY <1>3, <2>2, <2>3, <2>4 DEF populate_list
<1> DEFINE P == {n \in Nat : n <= Len(l) => \A m \in 0..Len(f[n]) :
                               populate_list(SubSeq(f[n], 1, m)) \in TornList(l)}
<1>5. 0 \in P
  <2> SUFFICES ASSUME NEW m \in 0..Len(f[0])
               PROVE  populate_list(SubSeq(f[0], 1, m)) \in TornList(l)
    OBVIOUS
  <2>1. f[0] = <<>>
    BY <1>2 DEF RowsOf
  <2>2. m = 0
    BY <2>1
  <2>3. SubSeq(f[0], 1, m) = f[0]
    BY <2>1, <2>2, SubSeqEmpty
  <2>4. 0 \in 0..Len(l)
    BY <1>1
  <2> QED
    BY <1>4, <2>3, <2>4
<1>6. ASSUME NEW n \in P PROVE n + 1 \in P
  <2> SUFFICES ASSUME n + 1 <= Len(l), NEW m \in 0..Len(f[n + 1])
               PROVE  populate_list(SubSeq(f[n + 1], 1, m)) \in TornList(l)
    OBVIOUS
  <2> DEFINE e == l[n + 1]
             row == Row(e)
  <2>1. n + 1 \in 1..Len(l) /\ n + 1 \in 0..Len(l) /\ n \in 0..Len(l) /\ (n + 1) - 1 = n
    BY <1>1
  <2>2. e \in Entry /\ StorableKey(e.key) /\ StorableValue(e.value) /\ PlainEntry(e)
    BY <1>1, <2>1 DEF Storable, Plain
  <2>3. f[n + 1] = f[n] \o row /\ f[n] \in Text /\ f[n + 1] \in Text
    BY <1>2, <2>1 DEF RowsOf
  <2>4. row \in Text /\ Len(f[n]) \in Nat /\ Len(row) \in Nat /\ m \in Nat
    <3>1. row \in Text
      BY <2>2, RowProperties
    <3>2. Len(f[n + 1]) \in Nat
      BY <2>3, TextLength
    <3> HIDE DEF row
    <3> QED
      BY <2>3, <3>1, <3>2, TextLength
  <2>5. Len(f[n + 1]) = Len(f[n]) + Len(row)
    BY <2>3, <2>4, Concatenation
  <2>6. Index(SubSeq(l, 1, n), e.key) = 0 /\ SubSeq(l, 1, n) \in Lists
    <3> DEFINE first == SubSeq(l, 1, n)
    <3>1. first \in Lists
      BY <1>1, <1>2, <2>1, ScanRows
    <3>2. Len(first) = n /\ \A i \in 1..n : first[i] = l[i]
      <4>1. n \in Int /\ \A i \in 1..n : l[i] \in Entry
        BY <1>1, <2>1
      <4>2. /\ Len(first) = IF 1 <= n THEN n - 1 + 1 ELSE 0
            /\ \A i \in 1..n - 1 + 1 : first[i] = l[1 + i - 1]
        BY <4>1, SubSeqProperties
      <4> HIDE DEF first
      <4> QED
        BY <2>1, <4>1, <4>2
    <3>3. \A i \in 1..n : l[i].key # e.key
      BY <1>1, <2>1 DEF Storable
    <3> HIDE DEF first, e
    <3>4. /\ Index(first, e.key) \in 0..n
          /\ Index(first, e.key) # 0 => first[Index(first, e.key)].key = e.key
      BY <3>1, <3>2, IndexProperties
    <3>5. Index(first, e.key) = 0
      BY <2>1, <3>2, <3>3, <3>4
    <3> QED
      BY <3>1, <3>5 DEF first
  <2> HIDE DEF e, row
  <2>7. CASE m <= Len(f[n])
    <3>1. SubSeq(f[n + 1], 1, m) = SubSeq(f[n], 1, m)
      BY <2>3, <2>4, <2>7, BeginningOfConcatenation
    <3>2. m \in 0..Len(f[n]) /\ n <= Len(l)
      BY <1>1, <2>1, <2>4, <2>7
    <3> QED
      BY <3>1, <3>2
  <2>8. CASE m > Len(f[n]) /\ m # Len(f[n + 1])
    <3> DEFINE j == m - Len(f[n])
               q == SubSeq(row, 1, j)
               first == SubSeq(l, 1, n)
    <3>1. j \in 0..Len(row) - 1 /\ j \in 0..Len(row)
      BY <2>4, <2>5, <2>8
    <3>2. SubSeq(f[n + 1], 1, m) = f[n] \o q
      <4>1. m \in 0..Len(f[n] \o row)
        BY <2>3
      <4>2. SubSeq(f[n] \o row, 1, m) = f[n] \o SubSeq(row, 1, m - Len(f[n]))
        BY <2>3, <2>4, <2>8, <4>1, BeginningOfConcatenation
      <4> QED
        BY <2>3, <4>2
    <3> HIDE DEF j
    <3>3. q \in Text
      BY <2>4, <3>1, Beginning
    <3>4. populate_list(f[n] \o q) = scan[q][first]
      BY <1>2, <2>1, <3>3, ScanRows DEF populate_list
    <3>5. \/ scan[q][first] = first
          \/ scan[q][first] = Damaged
          \/ \E v \in Prefixes(e.value) \ {<<>>} :
               scan[q][first] = Append(first, [key |-> e.key, value |-> v])
      BY <2>2, <2>6, <3>1, ScanTornRow DEF row
    <3>6. first \in TornList(l) /\ Damaged \in TornList(l)
      BY <1>3, <2>1 DEF TornList
    <3>7. ASSUME NEW v \in Prefixes(e.value) \ {<<>>}
          PROVE  Append(first, [key |-> e.key, value |-> v]) \in TornList(l)
      <4>1. n + 1 \in DOMAIN l /\ e = l[n + 1]
        BY <1>1, <2>1 DEF e
      <4>2. v \in Text
        BY <2>2, Beginning DEF Prefixes, Entry
      <4>3. [key |-> e.key, value |-> v] \in Entry
        BY <2>2, <4>2 DEF Entry
      <4>4. first \in Seq(Entry)
        BY <2>6 DEF Lists, Entry
      <4>5. Append(first, [key |-> e.key, value |-> v]) = first \o <<[key |-> e.key, value |-> v]>>
        BY <4>3, <4>4, AppendIsConcat
      <4>6. first \o <<[key |-> e.key, value |-> v]>> = CutAt(l, n + 1, v)
        BY <2>1, <4>1 DEF CutAt
      <4>7. CutAt(l, n + 1, v) \in TornList(l)
        BY <4>1 DEF TornList
      <4> QED
        BY <4>5, <4>6, <4>7
    <3> HIDE DEF first, q
    <3> QED
      BY <3>2, <3>4, <3>5, <3>6, <3>7
  <2>9. CASE m = Len(f[n + 1])
    <3>1. SubSeq(f[n + 1], 1, m) = f[n + 1]
      BY <2>3, <2>9, SubSeqFull DEF Text
    <3> QED
      BY <1>4, <2>1, <3>1
  <2> QED
    BY <2>4, <2>7, <2>8, <2>9
<1>7. P = Nat
  <2>1. P \in SUBSET Nat
    OBVIOUS
  <2> HIDE DEF P
  <2> QED
    BY <1>5, <1>6, <2>1, NatSetInduction
<1>8. PICK m \in 0..Len(f[Len(l)]) : p = SubSeq(f[Len(l)], 1, m)
  BY <1>2 DEF Prefixes
<1>9. Len(l) \in P /\ Len(l) <= Len(l)
  <2> HIDE DEF P
  <2> QED
    BY <1>1, <1>7
<1> QED
  BY <1>8, <1>9

-----------------------------------------------------------------------------
(***************************************************************************)
(* What the format promises to its user                                    *)
(***************************************************************************)
\* No list that a first text is read as has a NUL in it.
PlainTexts == \A t \in Texts : Content(t) # Damaged => Plain(Content(t))

\* The arguments of --set that the format can hold, unless it refuses them.
StorableArguments ==
    /\ \A k \in Keys : k # <<>> /\ k[1] \notin Skipped
    /\ \A v \in Values : v # <<>>

\* The list of a session that goes well is one that can be read back.
ListStorable ==
    pc \in {"open", "prepare", "program", "committed"} => Storable(list)

LegacyInv == TypeOK /\ ListStorable

\* What legacy_commit accepts of the lists that main makes is storable.
LEMMA EditsStorable ==
    ASSUME StorableArguments, Storable(list), NEW l \in Edits, ~Refused(l)
    PROVE  Storable(l) /\ (Plain(list) => Plain(l))
<1>1. list \in Lists /\ Len(list) \in Nat /\ DOMAIN list = 1..Len(list)
  BY DEF Storable, Lists
<1>2. CASE \E k \in Keys, v \in Values : l = list_set(list, [key |-> k, value |-> v])
  <2>1. PICK k \in Keys, v \in Values : l = list_set(list, [key |-> k, value |-> v])
    BY <1>2
  <2> DEFINE e == [key |-> k, value |-> v]
             i == Index(list, e.key)
  <2>2. e \in Entry /\ e.key = k /\ e.value = v /\ k \in Text /\ v \in Text
    BY TextsAssumption DEF Entry
  <2>10. PlainEntry(e)
    BY <2>2, ArgumentsAssumption DEF PlainEntry
  <2>3. l = list_set(list, e)
    BY <2>1
  <2> HIDE DEF e
  <2>4. i \in 0..Len(list)
    BY <1>1, IndexProperties
  <2>5. /\ l \in Lists
        /\ i = 0 => Len(l) = Len(list) + 1 /\ l[Len(list) + 1] = e
        /\ i # 0 => Len(l) = Len(list) /\ l[i] = e
    <3>1. /\ l \in Lists
          /\ i = 0 => Len(l) = Len(list) + 1 /\ l[Len(list) + 1] = e
          /\ i # 0 => /\ Len(l) = Len(list)
                      /\ \A j \in 1..Len(list) : l[j] = IF j = i THEN e ELSE list[j]
      BY <1>1, <2>2, <2>3, ListSetProperties
    <3>2. i # 0 => i \in 1..Len(list)
      BY <1>1, <2>4
    <3> QED
      BY <3>1, <3>2
  <2> HIDE DEF i
  <2>6. e \in ToSet(l)
    <3>1. \A j \in 1..Len(l) : j \in DOMAIN l
      BY <2>5 DEF Lists
    <3>2. \E j \in 1..Len(l) : l[j] = e
      BY <1>1, <2>4, <2>5
    <3> QED
      BY <3>1, <3>2 DEF ToSet
  <2>7. find(k, "=") = 0 /\ find(k, Newline) = 0 /\ find(v, Newline) = 0
    BY <2>2, <2>6 DEF Refused
  <2>8. StorableKey(k)
    <3>1. k # <<>> /\ k[1] \notin Skipped
      BY DEF StorableArguments
    <3>2. \A j \in 1..Len(k) : k[j] # "=" /\ k[j] # Newline
      BY <2>2, <2>7, FindProperties
    <3> QED
      BY <2>2, <3>1, <3>2 DEF StorableKey
  <2>9. StorableValue(v)
    <3>1. v # <<>>
      BY DEF StorableArguments
    <3>2. \A j \in 1..Len(v) : v[j] # Newline
      BY <2>2, <2>7, FindProperties
    <3> QED
      BY <2>2, <3>1, <3>2 DEF StorableValue
  <2>11. ASSUME Plain(list) PROVE Plain(l)
    <3>1. /\ i = 0 => Len(l) = Len(list) + 1 /\ \A j \in 1..Len(list) : l[j] = list[j]
          /\ i # 0 => \A j \in 1..Len(list) : l[j] = IF j = i THEN e ELSE list[j]
      BY <1>1, <2>2, <2>3, ListSetProperties DEF i
    <3> QED
      BY <1>1, <2>4, <2>5, <2>10, <2>11, <3>1 DEF Plain
  <2> QED
    BY <2>2, <2>3, <2>8, <2>9, <2>11, ListSetStorable
<1>3. CASE \E i \in DOMAIN list : l = RemoveAt(list, i)
  <2>1. PICK i \in 1..Len(list) : l = RemoveAt(list, i)
    BY <1>1, <1>3
  <2>2. /\ l \in Lists
        /\ Len(l) = Len(list) - 1
        /\ \A j \in 1..Len(l) : l[j] = IF j < i THEN list[j] ELSE list[j + 1]
    BY <1>1, <2>1, RemoveProperties
  <2> DEFINE old(j) == IF j < i THEN j ELSE j + 1
  <2>3. \A j \in 1..Len(l) : old(j) \in 1..Len(list) /\ l[j] = list[old(j)]
    BY <1>1, <2>2
  <2>4. \A j, m \in 1..Len(l) : old(j) = old(m) => j = m
    BY <1>1, <2>2
  <2> HIDE DEF old
  <2>5. Storable(l)
    BY <2>2, <2>3, <2>4 DEF Storable
  <2>6. ASSUME Plain(list) PROVE \A j \in 1..Len(l) : PlainEntry(list[old(j)])
    BY <2>3, <2>6 DEF Plain
  <2>7. Plain(list) => Plain(l)
    BY <2>3, <2>6 DEF Plain
  <2> QED
    BY <2>5, <2>7
<1> QED
  BY <1>2, <1>3, EditsAreChanges

\* A stage of a write leaves what was there, or the new list or a part of it.
LEMMA StagesAreRead ==
    ASSUME TypeOK, Storable(list), Plain(list)
    PROVE  /\ \A t \in Prepared(medium) \cup PartlyProgrammed(medium, Serialize(list)) :
                Content(t) = Content(medium) \/ Content(t) \in TornList(list)
           /\ Content(Serialize(list)) = list
<1>1. Serialize(list) \in Text /\ list \in Lists
  BY SerializeType DEF Storable
<1>2. ASSUME NEW t \in Prefixes(Serialize(list)) PROVE Content(t) \in TornList(list)
  <2>1. t \in Text
    BY <1>1, <1>2, Beginning DEF Prefixes
  <2>2. t # Bare
    BY <2>1, MarkersAssumption
  <2> QED
    BY <2>2, TornIsRead DEF Content
<1>3. Content(<<>>) \in TornList(list)
  <2>1. SubSeq(Serialize(list), 1, 0) = <<>> /\ 0 \in 0..Len(Serialize(list))
    BY <1>1, SubSeqEmpty, TextLength
  <2>2. <<>> \in Prefixes(Serialize(list))
    BY <2>1 DEF Prefixes
  <2> QED
    BY <1>2, <2>2
<1>4. Content(Bare) \in TornList(list)
  BY DEF Content, TornList
<1>5. ASSUME NEW t \in Prepared(medium) \cup PartlyProgrammed(medium, Serialize(list))
      PROVE  Content(t) = Content(medium) \/ Content(t) \in TornList(list)
  BY <1>2, <1>3, <1>4 DEF Prepared, PartlyProgrammed
<1>6. Content(Serialize(list)) = list
  BY <1>1, SerializeIsRead, MarkersAssumption DEF Content
<1> QED
  BY <1>5, <1>6

\* What is left of a list without NULs has none either.
LEMMA TornIsPlain ==
    ASSUME NEW l, Storable(l), Plain(l), NEW t \in TornList(l), t # Damaged
    PROVE  Plain(t)
<1>1. l \in Seq(Entry) /\ Len(l) \in Nat /\ DOMAIN l = 1..Len(l)
  <2>1. l \in Seq(Entry)
    BY DEF Storable, Lists, Entry
  <2> QED
    BY <2>1
<1>2. ASSUME NEW n \in 0..Len(l)
      PROVE  /\ SubSeq(l, 1, n) \in Seq(Entry)
             /\ Len(SubSeq(l, 1, n)) = n
             /\ \A i \in 1..n : SubSeq(l, 1, n)[i] = l[i]
  <2> DEFINE first == SubSeq(l, 1, n)
  <2>1. n \in Int /\ \A i \in 1..n : l[i] \in Entry
    BY <1>1
  <2>2. /\ first \in Seq(Entry)
        /\ Len(first) = IF 1 <= n THEN n - 1 + 1 ELSE 0
        /\ \A i \in 1..n - 1 + 1 : first[i] = l[1 + i - 1]
    BY <2>1, SubSeqProperties
  <2> HIDE DEF first
  <2>3. Len(first) = n /\ \A i \in 1..n : first[i] = l[i]
    BY <1>1, <2>1, <2>2
  <2> QED
    BY <2>2, <2>3 DEF first
<1>3. ASSUME NEW n \in 0..Len(l) PROVE Plain(SubSeq(l, 1, n))
  <2>1. \A i \in 1..n : i \in 1..Len(l)
    BY <1>1
  <2> QED
    BY <1>2, <2>1 DEF Plain
<1>4. ASSUME NEW n \in DOMAIN l, NEW v \in Prefixes(l[n].value), t = CutAt(l, n, v)
      PROVE  Plain(t)
  <2> DEFINE e == [key |-> l[n].key, value |-> v]
             first == SubSeq(l, 1, n - 1)
  <2>1. n \in 1..Len(l) /\ n - 1 \in 0..Len(l) /\ l[n] \in Entry
    BY <1>1
  <2>2. first \in Seq(Entry) /\ Len(first) = n - 1 /\ \A i \in 1..n - 1 : first[i] = l[i]
    BY <1>2, <2>1
  <2>3. l[n].key \in Text /\ l[n].value \in Text /\ PlainEntry(l[n])
    BY <2>1 DEF Entry, Plain
  <2>4. PICK m \in 0..Len(l[n].value) : v = SubSeq(l[n].value, 1, m)
    BY DEF Prefixes
  <2>5. v \in Text /\ NulFree(v)
    <3> DEFINE w == l[n].value
    <3>1. w \in Text /\ find(w, Nul) = 0 /\ Len(w) \in Nat
      BY <2>3, TextLength DEF PlainEntry, NulFree
    <3>2. \A i \in 1..Len(w) : w[i] # Nul
      BY <3>1, FindProperties
    <3> HIDE DEF w
    <3>3. v \in Text /\ Len(v) = m /\ \A i \in 1..m : v[i] = w[i]
      BY <2>4, <3>1, Beginning DEF w
    <3>4. \A i \in 1..m : i \in 1..Len(w)
      BY <2>4, <3>1 DEF w
    <3> QED
      BY <3>2, <3>3, <3>4, FindNone DEF NulFree
  <2>6. e \in Entry /\ PlainEntry(e)
    BY <2>3, <2>5 DEF Entry, PlainEntry
  <2>7. t = Append(first, e)
    <3>1. t = first \o <<e>>
      BY <1>4 DEF CutAt
    <3> HIDE DEF first, e
    <3> QED
      BY <2>2, <2>6, <3>1, AppendIsConcat
  <2> HIDE DEF first, e
  <2>8. /\ Len(t) = n
        /\ t[n] = e
        /\ \A i \in 1..n - 1 : t[i] = first[i]
    BY <1>1, <2>1, <2>2, <2>6, <2>7, AppendProperties
  <2>9. \A i \in 1..n - 1 : PlainEntry(l[i])
    BY <1>1, <2>1 DEF Plain
  <2>10. \A i \in 1..n : i = n \/ i \in 1..n - 1
    BY <2>1
  <2> QED
    BY <2>2, <2>6, <2>8, <2>9, <2>10 DEF Plain
<1> QED
  BY <1>3, <1>4 DEF TornList

\* The invariant holds initially.
LEMMA LegacyInvInit == Init => LegacyInv
BY LegacyTypeInit DEF Init, LegacyInv, ListStorable

\* Every step preserves it.
LEMMA LegacyInvNext ==
    ASSUME StorableArguments
    PROVE  LegacyInv /\ [Next]_vars => LegacyInv'
<1> SUFFICES ASSUME LegacyInv, [Next]_vars PROVE ListStorable'
  BY LegacyTypeNext DEF LegacyInv
<1>1. TypeOK /\ ListStorable
  BY DEF LegacyInv
<1>2. CASE legacy_init
  <2>1. Storable(list')
    BY <1>1, <1>2, ContentStorable DEF legacy_init, Openable, TypeOK
  <2> QED
    BY <2>1 DEF ListStorable, Storable
<1>3. ASSUME NEW l \in Edits, legacy_commit(l) PROVE ListStorable'
  <2>1. Storable(l) /\ list' = l
    BY <1>1, <1>3, EditsStorable DEF legacy_commit, ListStorable
  <2> QED
    BY <2>1 DEF ListStorable, Storable
<1>4. CASE Prepare \/ Program
  BY <1>1, <1>4 DEF Prepare, Program, ListStorable, Storable
<1>5. ASSUME NEW l \in Edits, legacy_commit_refused(l) PROVE ListStorable'
  BY <1>5 DEF legacy_commit_refused, ListStorable
<1>6. CASE legacy_init_fails \/ PrepareFails \/ ProgramFails
  BY <1>6 DEF legacy_init_fails, PrepareFails, ProgramFails, ListStorable
<1>7. CASE legacy_close \/ Kill
  BY <1>7 DEF legacy_close, Kill, ListStorable
<1>8. CASE UNCHANGED vars
  BY <1>1, <1>8 DEF vars, ListStorable, Storable
<1> QED
  BY <1>2, <1>3, <1>4, <1>5, <1>6, <1>7, <1>8 DEF Next

\* What a step from a state without NULs leaves on the medium has none either.
LEMMA StoredStaysPlain ==
    ASSUME LegacyInv, PlainState, [Next]_vars
    PROVE  Content(medium') # Damaged => Plain(Content(medium'))
<1>1. /\ TypeOK /\ Plain(list)
      /\ Content(medium) # Damaged => Plain(Content(medium))
  BY DEF LegacyInv, PlainState
<1>2. ASSUME pc \in {"prepare", "program"},
             medium' \in Prepared(medium) \cup PartlyProgrammed(medium, Serialize(list))
                              \cup {Serialize(list)}
      PROVE  Content(medium') # Damaged => Plain(Content(medium'))
  <2>1. Storable(list)
    BY <1>2 DEF LegacyInv, ListStorable
  <2>2. \/ Content(medium') = Content(medium)
        \/ Content(medium') \in TornList(list)
        \/ Content(medium') = list
    BY <1>1, <1>2, <2>1, StagesAreRead
  <2> QED
    BY <1>1, <2>1, <2>2, TornIsPlain
<1>3. CASE Prepare \/ PrepareFails
  BY <1>1, <1>2, <1>3 DEF Prepare, PrepareFails
<1>4. CASE Program \/ ProgramFails
  BY <1>2, <1>4 DEF Program, ProgramFails
<1>5. CASE Kill
  BY <1>1, <1>2, <1>5 DEF Kill, Interrupted
<1>6. CASE legacy_init \/ legacy_init_fails \/ legacy_close \/ UNCHANGED vars
  BY <1>1, <1>6 DEF legacy_init, legacy_init_fails, legacy_close, vars
<1>7. ASSUME NEW l \in Edits, legacy_commit(l) \/ legacy_commit_refused(l)
      PROVE  Content(medium') # Damaged => Plain(Content(medium'))
  BY <1>1, <1>7 DEF legacy_commit, legacy_commit_refused
<1> QED
  BY <1>3, <1>4, <1>5, <1>6, <1>7 DEF Next

\* The list of the session has none either.
LEMMA StaysPlain ==
    ASSUME StorableArguments, LegacyInv, PlainState, [Next]_vars
    PROVE  PlainState'
<1>1. Plain(list) /\ TypeOK /\ ListStorable
  BY DEF PlainState, LegacyInv
<1>2. ASSUME legacy_init PROVE Plain(list')
  BY <1>2 DEF legacy_init, Openable, PlainState
<1>3. ASSUME NEW l \in Edits, legacy_commit(l) PROVE Plain(list')
  BY <1>1, <1>3, EditsStorable DEF legacy_commit, ListStorable
<1>4. ASSUME legacy_close \/ Kill PROVE Plain(list')
  <2>1. list' = <<>>
    BY <1>4 DEF legacy_close, Kill, EmptyList
  <2> QED
    BY <2>1 DEF Plain
<1>5. ASSUME UNCHANGED list PROVE Plain(list')
  BY <1>1, <1>5
<1>6. Plain(list')
  BY <1>2, <1>3, <1>4, <1>5
  DEF Next, vars, legacy_init_fails, legacy_commit_refused, Prepare, PrepareFails,
      Program, ProgramFails
<1> QED
  BY <1>6, StoredStaysPlain DEF PlainState, Plain

\* Initial states are initial states of NvramStore.
LEMMA LegacyStoreInit == Init => Store!Init
<1> SUFFICES ASSUME Init PROVE Store!Init
  OBVIOUS
<1>1. Content(medium) \in Lists \cup {Damaged}
  BY LegacyTypeInit, ContentType DEF TypeOK, Results
<1> QED
  BY <1>1 DEF Init, Store!Init, Store!Contents

\* Every step is a step of NvramStore or leaves its variables alone.
LEMMA LegacyStoreNext ==
    ASSUME LegacyInv, LegacyInv', Plain(list), [Next]_vars
    PROVE  [Store!Next]_Store!vars
<1> DEFINE stored == Content(medium)
           mode == IF pc \in {"prepare", "program"} THEN "commit" ELSE pc
<1>1. TypeOK /\ list \in Lists /\ list' \in Lists
  BY DEF LegacyInv, TypeOK
<1>2. stored \in Lists \cup {Damaged}
  BY <1>1, ContentType DEF TypeOK, Results
<1>3. ASSUME medium' = medium PROVE stored' = stored
  BY <1>3
<1>4. ASSUME pc \in {"prepare", "program"},
             medium' \in Prepared(medium) \cup PartlyProgrammed(medium, Serialize(list))
      PROVE  stored' = stored \/ stored' \in TornList(list)
  BY <1>1, <1>4, StagesAreRead DEF LegacyInv, ListStorable
<1>5. ASSUME pc \in {"prepare", "program"}, medium' = Serialize(list)
      PROVE  stored' = list
  <2>1. Storable(list) /\ Plain(list)
    BY <1>5 DEF LegacyInv, ListStorable
  <2>2. Content(Serialize(list)) = list
    BY <1>1, <2>1, StagesAreRead
  <2>3. stored' = Content(medium')
    OBVIOUS
  <2> QED
    BY <1>5, <2>2, <2>3
<1> SUFFICES \/ Store!Next
             \/ stored' = stored /\ mode' = mode /\ list' = list
  BY DEF Store!vars
<1>6. CASE legacy_init
  <2>1. Store!Open
    BY <1>2, <1>3, <1>6 DEF legacy_init, Openable, Store!Open
  <2> QED
    BY <2>1 DEF Store!Next
<1>7. CASE legacy_init_fails
  <2>1. Store!OpenFails
    BY <1>1, <1>3, <1>7 DEF legacy_init_fails, Store!OpenFails
  <2> QED
    BY <2>1 DEF Store!Next
<1>8. ASSUME NEW l \in Edits, legacy_commit(l) PROVE Store!Next
  <2>1. Store!Commit
    BY <1>1, <1>3, <1>8 DEF legacy_commit, Store!Commit
  <2> QED
    BY <2>1 DEF Store!Next
<1>9. ASSUME NEW l \in Edits, legacy_commit_refused(l) PROVE Store!Next
  <2>1. Store!CommitRefused
    BY <1>1, <1>3, <1>9 DEF legacy_commit_refused, Store!CommitRefused
  <2> QED
    BY <2>1 DEF Store!Next
<1>10. CASE Prepare
  <2>1. stored' = stored \/ stored' \in TornList(list)
    BY <1>4, <1>10 DEF Prepare
  <2>2. mode = "commit" /\ mode' = "commit" /\ list' = list
    BY <1>10 DEF Prepare
  <2>3. stored' \in TornList(list) => Store!TakeEffect
    BY <2>2 DEF Store!TakeEffect
  <2> QED
    BY <2>1, <2>2, <2>3 DEF Store!Next
<1>11. CASE PrepareFails
  <2>1. stored' = stored \/ stored' \in TornList(list)
    BY <1>3, <1>4, <1>11 DEF PrepareFails
  <2>2. Store!CommitFails
    BY <1>1, <1>11, <2>1 DEF PrepareFails, Store!CommitFails
  <2> QED
    BY <2>2 DEF Store!Next
<1>12. CASE Program
  <2>1. stored' = list
    BY <1>5, <1>12 DEF Program
  <2>2. Store!CommitOk
    BY <1>12, <2>1 DEF Program, Store!CommitOk
  <2> QED
    BY <2>2 DEF Store!Next
<1>13. CASE ProgramFails
  <2>1. stored' = stored \/ stored' \in TornList(list)
    BY <1>4, <1>13 DEF ProgramFails
  <2>2. Store!CommitFails
    BY <1>1, <1>13, <2>1 DEF ProgramFails, Store!CommitFails
  <2> QED
    BY <2>2 DEF Store!Next
<1>14. CASE legacy_close
  <2>1. Store!End
    BY <1>3, <1>14 DEF legacy_close, Store!End, EmptyList
  <2> QED
    BY <2>1 DEF Store!Next
<1>15. CASE Kill
  <2>1. stored' = stored \/ (mode = "commit" /\ stored' \in {list} \cup TornList(list))
    BY <1>3, <1>4, <1>5, <1>15 DEF Kill, Interrupted
  <2>2. Store!End
    BY <1>15, <2>1 DEF Kill, Store!End, EmptyList
  <2> QED
    BY <2>2 DEF Store!Next
<1>16. CASE UNCHANGED vars
  BY <1>3, <1>16 DEF vars
<1> QED
  BY <1>6, <1>7, <1>8, <1>9, <1>10, <1>11, <1>12, <1>13, <1>14, <1>15, <1>16 DEF Next

(***************************************************************************)
(* The legacy format does what NvramStore promises as long as no key that  *)
(* it is given is empty or starts with white space, no value is empty, and *)
(* neither the section nor the session holds a NUL; and it adds none: a    *)
(* session reads what the last commit stored, and a commit that fails or   *)
(* is interrupted leaves the old list, the new one, some first entries of  *)
(* the new one with the last value cut short, or a text that init refuses. *)
(***************************************************************************)
THEOREM LegacyImplementsStore ==
    ASSUME StorableArguments
    PROVE  Spec => LegacyStore
<1>1. Init => LegacyInv /\ Store!Init
  BY LegacyInvInit, LegacyStoreInit
<1>2. LegacyInv /\ [Next]_vars => LegacyInv'
  BY LegacyInvNext
<1>3. LegacyInv /\ LegacyInv' /\ [Next]_vars =>
        [PlainState => Store!Next /\ PlainState']_Store!vars
  BY LegacyStoreNext, StaysPlain DEF PlainState
<1> QED
  BY <1>1, <1>2, <1>3, PTL DEF Spec, LegacyStore

(***************************************************************************)
(* So with texts to start from that are read as lists without NULs, it     *)
(* implements NvramStore, whose only weaker promise is what may be torn.   *)
(***************************************************************************)
THEOREM PlainLegacyIsStore ==
    ASSUME StorableArguments, PlainTexts
    PROVE  Spec => Store!Spec
<1>1. Init => PlainState
  BY DEF Init, PlainState, PlainTexts, Plain, EmptyList
<1>2. PlainState /\ [PlainState => Store!Next /\ PlainState']_Store!vars =>
        PlainState' /\ [Store!Next]_Store!vars
  BY DEF PlainState, Plain, Store!vars
<1> QED
  BY <1>1, <1>2, LegacyImplementsStore, PTL DEF Spec, LegacyStore, Store!Spec
=============================================================================
