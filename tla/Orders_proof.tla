---------------------------- MODULE Orders_proof ----------------------------
(***************************************************************************)
(* Proofs about orders, written, spoken or photographed, and the types of  *)
(* all requests and stores.                                                *)
(*                                                                         *)
(* A recording.  The text so far is read off the recording in its order    *)
(* (Reads), and what lies in the part that was heard is in it (HeardUpTo). *)
(* Where a text and the text of the next chunk meet (Meet), joining them   *)
(* doubles and moves nothing, and what it drops of the old text has its    *)
(* word in the new one (MergeReads).                                       *)
(*                                                                         *)
(* An order.  Its place is that of a known district that lies in one       *)
(* governorate (OnlyPlace): the search of an address takes windows only    *)
(* (ScannedIs), and a window is a name with all of its governorates.  The  *)
(* rest is control: where a request may be, and what it holds then         *)
(* (RequestIs).                                                            *)
(***************************************************************************)
EXTENDS Stores_proof, Requests_proof

-----------------------------------------------------------------------------
(* Least elements, and what is done once for each of the first numbers. *)

LEMMA LeastOf ==
  ASSUME NEW S \in SUBSET Nat, S # {}
  PROVE  \E i \in S : \A j \in S : i <= j
<1> DEFINE Under == OpToRel(<, Nat)
<1>1. PICK i \in S : \A j \in S : ~(<<j, i>> \in Under)
  <2> HIDE DEF Under
  <2>1. IsWellFoundedOn(Under, Nat) BY NatLessThanWellFounded DEF Under
  <2> QED BY <2>1, WFMin
<1>2. ASSUME NEW j \in S PROVE i <= j
  <2>1. ~(j < i) => i <= j OBVIOUS
  <2>2. <<j, i>> \in Under <=> j < i
    <3>1. <<j, i>> \in Nat \X Nat /\ <<j, i>>[1] = j /\ <<j, i>>[2] = i OBVIOUS
    <3> QED BY ONLY <3>1 DEF OpToRel
  <2> QED BY <1>1, <2>1, <2>2
<1> QED BY <1>2

\* One after the other: a step for each place, from `base` on.
Iterated(f, n, base, step) == f[0] = base /\ \A i \in 1 .. n : f[i] = step[i][f[i - 1]]

LEMMA Iterates ==
  ASSUME NEW n \in Nat, NEW S, NEW base \in S, NEW step \in [1 .. n -> [S -> S]]
  PROVE  \E f \in [0 .. n -> S] : Iterated(f, n, base, step)
<1> DEFINE F(m) == \E f \in [0 .. m -> S] : Iterated(f, m, base, step)
           bad == {m \in 0 .. n : ~F(m)}
<1>1. SUFFICES ASSUME bad # {} PROVE FALSE
  <2>1. n \in 0 .. n OBVIOUS
  <2> QED BY <2>1
<1>2. bad \in SUBSET Nat OBVIOUS
<1>3. PICK m \in bad : \A j \in bad : m <= j BY <1>1, <1>2, LeastOf
<1>4. m \in 0 .. n /\ ~F(m) OBVIOUS
<1>5. CASE m = 0
  <2>1. [i \in 0 .. 0 |-> base] \in [0 .. 0 -> S] OBVIOUS
  <2>2. Iterated([i \in 0 .. 0 |-> base], 0, base, step) BY DEF Iterated
  <2> QED BY <1>4, <1>5, <2>1, <2>2
<1>6. CASE m # 0
  <2>1. m - 1 \in 0 .. n /\ ~(m <= m - 1) /\ m \in 1 .. n BY <1>4, <1>6
  <2>2. F(m - 1) BY <1>3, <2>1
  <2>3. PICK f \in [0 .. m - 1 -> S] : Iterated(f, m - 1, base, step) BY <2>2
  <2>4. m - 1 \in 0 .. m - 1 BY <2>1
  <2>5. step[m][f[m - 1]] \in S
    <3>1. step[m] \in [S -> S] BY <2>1
    <3>2. f[m - 1] \in S BY <2>4
    <3> QED BY <3>1, <3>2
  <2> DEFINE g == [i \in 0 .. m |-> IF i = m THEN step[m][f[m - 1]] ELSE f[i]]
  <2>6. g \in [0 .. m -> S]
    <3>1. \A i \in 0 .. m : i # m => i \in 0 .. m - 1 BY <2>1
    <3> QED BY <2>5, <3>1
  <2>7. g[0] = base BY <1>6, <2>1, <2>3 DEF Iterated
  <2>8. ASSUME NEW i \in 1 .. m PROVE g[i] = step[i][g[i - 1]]
    <3>1. i - 1 \in 0 .. m /\ i - 1 # m /\ i \in 0 .. m BY <2>1
    <3>2. g[i - 1] = f[i - 1] BY <3>1
    <3>3. CASE i = m BY <3>1, <3>2, <3>3
    <3>4. CASE i # m
      <4>1. i \in 1 .. m - 1 BY <2>1, <3>4
      <4>2. f[i] = step[i][f[i - 1]] BY <2>3, <4>1 DEF Iterated
      <4>3. g[i] = f[i] BY <3>1, <3>4
      <4> QED BY <3>2, <4>2, <4>3
    <3> QED BY <3>3, <3>4
  <2> HIDE DEF g
  <2>9. F(m) BY <2>6, <2>7, <2>8 DEF Iterated
  <2> QED BY <1>4, <2>9
<1> QED BY <1>5, <1>6

-----------------------------------------------------------------------------
(* A recording. *)

Recordings == Seq(Audio!Items)
IsWord(r, i) == r[i].word # Pause

LEMMA ItemsOf ==
  ASSUME Audio!AudioAssumption, NEW r \in Recordings
  PROVE  /\ Len(r) \in Nat
         /\ \A i \in 1 .. Len(r) : /\ r[i] \in Audio!Items /\ r[i].length \in 1 .. Overlap
                                   /\ IsWord(r, i) => r[i].word \in Vocabulary
<1>1. Len(r) \in Nat /\ \A i \in 1 .. Len(r) : r[i] \in Audio!Items
  BY LenProperties, ElementOfSeq DEF Recordings
<1>2. \A x \in Audio!Items : x.length \in Lengths /\ x.word \in Vocabulary \cup {Pause} BY DEF Audio!Items
<1>3. \A x \in Lengths : x \in Nat /\ x # 0 /\ x <= Overlap BY DEF Audio!AudioAssumption
<1>4. Overlap \in Nat BY DEF Audio!AudioAssumption
<1>5. ASSUME NEW x \in Lengths PROVE x \in 1 .. Overlap BY <1>3, <1>4
<1> QED BY <1>1, <1>2, <1>5 DEF IsWord

LEMMA EndsIs ==
  ASSUME Audio!AudioAssumption, NEW r \in Recordings
  PROVE  /\ Audio!Ends(r) \in [0 .. Len(r) -> Nat] /\ Audio!Ends(r)[0] = 0
         /\ \A i \in 1 .. Len(r) : Audio!Ends(r)[i] = Audio!Ends(r)[i - 1] + r[i].length
<1> DEFINE n == Len(r)
           E(f) == f = [i \in 0 .. n |-> IF i = 0 THEN 0 ELSE f[i - 1] + r[i].length]
           ending == CHOOSE f : E(f)
           step == [i \in 1 .. n |-> [x \in Nat |-> x + r[i].length]]
<1>1. n \in Nat /\ \A i \in 1 .. n : r[i].length \in Nat BY ItemsOf
<1>2. Audio!Ends(r) = ending BY DEF Audio!Ends
<1> HIDE DEF n
<1>3. step \in [1 .. n -> [Nat -> Nat]] BY <1>1
<1>4. PICK f \in [0 .. n -> Nat] : Iterated(f, n, 0, step)
  <2> HIDE DEF step
  <2> QED BY <1>1, <1>3, Iterates
<1>5. E(f)
  <2> DEFINE g == [i \in 0 .. n |-> IF i = 0 THEN 0 ELSE f[i - 1] + r[i].length]
  <2>1. ASSUME NEW i \in 0 .. n PROVE f[i] = g[i]
    <3>1. CASE i = 0 BY <1>4, <3>1 DEF Iterated
    <3>2. CASE i # 0
      <4>1. i \in 1 .. n /\ i - 1 \in 0 .. n BY <1>1, <3>2
      <4>2. f[i - 1] \in Nat BY <1>4, <4>1
      <4>3. f[i] = step[i][f[i - 1]] BY <1>4, <4>1 DEF Iterated
      <4>4. step[i][f[i - 1]] = f[i - 1] + r[i].length BY <4>1, <4>2
      <4> QED BY <3>2, <4>3, <4>4
    <3> QED BY <3>1, <3>2
  <2>2. g = [i \in 0 .. n |-> g[i]] /\ f = [i \in 0 .. n |-> f[i]] BY <1>4
  <2> HIDE DEF g
  <2>3. f = g BY <2>1, <2>2
  <2> QED BY <2>3 DEF g
<1>6. E(ending)
  <2> HIDE DEF E
  <2> QED BY <1>5
<1>7. \A i \in 0 .. n : ending[i] = IF i = 0 THEN 0 ELSE ending[i - 1] + r[i].length
  <2> DEFINE g == [i \in 0 .. n |-> IF i = 0 THEN 0 ELSE ending[i - 1] + r[i].length]
  <2>1. \A i \in 0 .. n : g[i] = IF i = 0 THEN 0 ELSE ending[i - 1] + r[i].length OBVIOUS
  <2>2. ending = g BY <1>6
  <2> HIDE DEF g, ending
  <2> QED BY <2>1, <2>2
<1>8. DOMAIN ending = 0 .. n /\ ending = [i \in 0 .. n |-> ending[i]]
  <2> DEFINE g == [i \in 0 .. n |-> IF i = 0 THEN 0 ELSE ending[i - 1] + r[i].length]
  <2>1. g = [i \in 0 .. n |-> g[i]] /\ DOMAIN g = 0 .. n OBVIOUS
  <2>2. ending = g BY <1>6
  <2> HIDE DEF g, ending
  <2> QED BY <2>1, <2>2
<1> HIDE DEF ending
<1>9. \A i \in 0 .. n : ending[i] \in Nat
  <2> DEFINE bad == {i \in 0 .. n : ending[i] \notin Nat}
  <2>1. SUFFICES ASSUME bad # {} PROVE FALSE OBVIOUS
  <2>2. bad \in SUBSET Nat BY <1>1
  <2>3. PICK m \in bad : \A j \in bad : m <= j BY <2>1, <2>2, LeastOf
  <2>4. m # 0 BY <1>1, <1>7, <2>3
  <2>5. m - 1 \in 0 .. n /\ ~(m <= m - 1) /\ m \in 1 .. n BY <1>1, <2>3, <2>4
  <2>6. ending[m - 1] \in Nat BY <2>3, <2>5
  <2>7. ending[m] = ending[m - 1] + r[m].length BY <1>7, <2>4, <2>5
  <2>8. r[m].length \in Nat BY <1>1, <2>5
  <2> HIDE DEF bad
  <2>9. ending[m] \in Nat BY <2>6, <2>7, <2>8
  <2> QED BY <2>3, <2>9 DEF bad
<1>10. ASSUME NEW i \in 1 .. n PROVE ending[i] = ending[i - 1] + r[i].length BY <1>1, <1>7
<1>11. ending[0] = 0 BY <1>1, <1>7
<1> QED BY <1>2, <1>8, <1>9, <1>10, <1>11 DEF n

\* Items end in their order.
LEMMA EndsRise ==
  ASSUME Audio!AudioAssumption, NEW r \in Recordings, NEW i \in 0 .. Len(r), NEW j \in 0 .. Len(r), i <= j
  PROVE  Audio!Ends(r)[i] <= Audio!Ends(r)[j]
<1> DEFINE n == Len(r)
           e == Audio!Ends(r)
           bad == {k \in i .. n : ~(e[i] <= e[k])}
<1>1. n \in Nat /\ \A k \in 1 .. n : r[k].length \in Nat BY ItemsOf
<1>2. e \in [0 .. n -> Nat] /\ \A k \in 1 .. n : e[k] = e[k - 1] + r[k].length BY EndsIs
<1> HIDE DEF n, e
<1>3. i \in 0 .. n /\ j \in 0 .. n BY DEF n
<1>4. SUFFICES ASSUME bad # {} PROVE FALSE BY <1>1, <1>3 DEF e
<1>5. bad \in SUBSET Nat BY <1>1, <1>3
<1>6. PICK m \in bad : \A k \in bad : m <= k BY <1>4, <1>5, LeastOf
<1>7. m # i BY <1>2, <1>3, <1>6
<1>8. m - 1 \in i .. n /\ ~(m <= m - 1) /\ m \in 1 .. n /\ m - 1 \in 0 .. n /\ m \in 0 .. n BY <1>1, <1>3, <1>6, <1>7
<1>9. e[i] <= e[m - 1] BY <1>6, <1>8
<1>10. e[m] = e[m - 1] + r[m].length /\ r[m].length \in Nat BY <1>1, <1>2, <1>8
<1>11. e[i] \in Nat /\ e[m - 1] \in Nat BY <1>2, <1>3, <1>8
<1> HIDE DEF bad
<1>12. e[i] <= e[m] BY <1>9, <1>10, <1>11
<1> QED BY <1>6, <1>12 DEF bad

\* Every item takes time.
LEMMA EndsSpread ==
  ASSUME Audio!AudioAssumption, NEW r \in Recordings, NEW i \in 0 .. Len(r), NEW j \in 0 .. Len(r), i <= j
  PROVE  Audio!Ends(r)[i] + (j - i) <= Audio!Ends(r)[j]
<1> DEFINE n == Len(r)
           e == Audio!Ends(r)
           bad == {k \in i .. n : ~(e[i] + (k - i) <= e[k])}
<1>1. n \in Nat /\ \A k \in 1 .. n : r[k].length \in Nat /\ r[k].length >= 1 BY ItemsOf
<1>2. e \in [0 .. n -> Nat] /\ \A k \in 1 .. n : e[k] = e[k - 1] + r[k].length BY EndsIs
<1> HIDE DEF n, e
<1>3. i \in 0 .. n /\ j \in 0 .. n BY DEF n
<1>4. SUFFICES ASSUME bad # {} PROVE FALSE BY <1>1, <1>3 DEF e
<1>5. bad \in SUBSET Nat BY <1>1, <1>3
<1>6. PICK m \in bad : \A k \in bad : m <= k BY <1>4, <1>5, LeastOf
<1>7. m # i BY <1>2, <1>3, <1>6
<1>8. m - 1 \in i .. n /\ ~(m <= m - 1) /\ m \in 1 .. n /\ m - 1 \in 0 .. n /\ m \in 0 .. n BY <1>1, <1>3, <1>6, <1>7
<1>9. e[i] + ((m - 1) - i) <= e[m - 1] BY <1>6, <1>8
<1>10. e[m] = e[m - 1] + r[m].length /\ r[m].length \in Nat /\ r[m].length >= 1 BY <1>1, <1>2, <1>8
<1>11. e[i] \in Nat /\ e[m - 1] \in Nat BY <1>2, <1>3, <1>8
<1>12. ~(e[i] + (m - i) <= e[m]) /\ m \in Nat /\ i \in Nat BY <1>3, <1>6, <1>8
<1> HIDE DEF bad
<1> DEFINE a == e[i]
           b == e[m - 1]
           c == r[m].length
<1>13. a + ((m - 1) - i) <= b /\ ~(a + (m - i) <= b + c) /\ a \in Nat /\ b \in Nat /\ c \in Nat /\ c >= 1
  BY <1>9, <1>10, <1>11, <1>12
<1> HIDE DEF a, b, c
<1> QED BY <1>12, <1>13

-----------------------------------------------------------------------------
(* A text read off a recording. *)

\* The words of `s` are the items `f` of the recording, in their order.
Reads(s, f, r) ==
  /\ s \in Seq(Vocabulary) /\ f \in Seq(1 .. Len(r)) /\ Len(f) = Len(s)
  /\ \A i, j \in 1 .. Len(f) : i < j => f[i] < f[j]
  /\ \A i \in 1 .. Len(f) : IsWord(r, f[i]) /\ s[i] = r[f[i]].word

On(f) == {f[i] : i \in 1 .. Len(f)}

LEMMA EmptyReads ==
  ASSUME NEW r \in Recordings
  PROVE  Reads(<<>>, <<>>, r) /\ On(<<>>) = {}
BY EmptySeq DEF Reads, On

LEMMA AppendReads ==
  ASSUME Audio!AudioAssumption, NEW r \in Recordings, NEW s, NEW f, Reads(s, f, r), NEW k \in 1 .. Len(r),
         \A i \in 1 .. Len(f) : f[i] < k, IsWord(r, k)
  PROVE  Reads(Append(s, r[k].word), Append(f, k), r) /\ On(Append(f, k)) = On(f) \cup {k}
<1> DEFINE t == Append(s, r[k].word)
           g == Append(f, k)
           n == Len(f)
<1>1. /\ s \in Seq(Vocabulary) /\ f \in Seq(1 .. Len(r)) /\ n = Len(s) BY DEF Reads
<1>2. n \in Nat /\ r[k].word \in Vocabulary BY <1>1, LenProperties, ItemsOf
<1>3. /\ t \in Seq(Vocabulary) /\ Len(t) = n + 1 /\ t[n + 1] = r[k].word
      /\ \A i \in 1 .. n : t[i] = s[i]
  BY <1>1, <1>2, AppendProperties
<1>4. /\ g \in Seq(1 .. Len(r)) /\ Len(g) = n + 1 /\ g[n + 1] = k
      /\ \A i \in 1 .. n : g[i] = f[i]
  BY <1>1, AppendProperties
<1> HIDE DEF t, g
<1>5. ASSUME NEW i \in 1 .. n + 1, NEW j \in 1 .. n + 1, i < j PROVE g[i] < g[j]
  <2>1. i \in 1 .. n /\ (j = n + 1 \/ j \in 1 .. n) BY <1>2, <1>5
  <2> QED BY <1>4, <2>1, <1>5 DEF Reads
<1>6. ASSUME NEW i \in 1 .. n + 1 PROVE IsWord(r, g[i]) /\ t[i] = r[g[i]].word
  <2>1. i = n + 1 \/ i \in 1 .. n BY <1>2
  <2> QED BY <1>3, <1>4, <2>1 DEF Reads
<1>7. On(g) = On(f) \cup {k}
  <2>1. \A i \in 1 .. n + 1 : i = n + 1 \/ i \in 1 .. n BY <1>2
  <2>2. n + 1 \in 1 .. n + 1 /\ \A i \in 1 .. n : i \in 1 .. n + 1 BY <1>2
  <2>3. On(g) = {g[i] : i \in 1 .. n + 1} BY <1>4 DEF On
  <2>4. On(f) = {f[i] : i \in 1 .. n} BY DEF On
  <2> QED BY <1>4, <2>1, <2>2, <2>3, <2>4
<1>8. Reads(t, g, r) BY <1>3, <1>4, <1>5, <1>6 DEF Reads
<1> QED BY <1>7, <1>8 DEF t, g

\* The words of the items in `set` are read off them.
LEMMA WordsOfIs ==
  ASSUME Audio!AudioAssumption, NEW r \in Recordings, NEW set
  PROVE  \E g : /\ Reads(Audio!WordsOf(r, set), g, r)
                /\ On(g) = {j \in 1 .. Len(r) : j \in set /\ IsWord(r, j)}
<1> DEFINE n == Len(r)
           After(i, x) == IF i \in set /\ r[i].word # Pause THEN Append(x, r[i].word) ELSE x
           E(f) == f = [i \in 0 .. n |-> IF i = 0 THEN <<>>
                                         ELSE IF i \in set /\ r[i].word # Pause THEN Append(f[i - 1], r[i].word)
                                         ELSE f[i - 1]]
           words == CHOOSE f : E(f)
           step == [i \in 1 .. n |-> [x \in Seq(Vocabulary) |-> After(i, x)]]
<1>1. n \in Nat /\ \A i \in 1 .. n : IsWord(r, i) => r[i].word \in Vocabulary BY ItemsOf
<1>2. Audio!WordsOf(r, set) = words[n] BY DEF Audio!WordsOf
<1> HIDE DEF n
<1>3. step \in [1 .. n -> [Seq(Vocabulary) -> Seq(Vocabulary)]]
  <2>1. ASSUME NEW i \in 1 .. n, NEW x \in Seq(Vocabulary) PROVE After(i, x) \in Seq(Vocabulary)
    BY <1>1, AppendProperties DEF IsWord
  <2> HIDE DEF After
  <2> QED BY <2>1
<1>4. PICK f \in [0 .. n -> Seq(Vocabulary)] : Iterated(f, n, <<>>, step)
  <2>1. <<>> \in Seq(Vocabulary) BY EmptySeq
  <2> HIDE DEF step
  <2> QED BY <1>1, <1>3, <2>1, Iterates
<1>5. E(f)
  <2> DEFINE g == [i \in 0 .. n |-> IF i = 0 THEN <<>>
                                    ELSE IF i \in set /\ r[i].word # Pause THEN Append(f[i - 1], r[i].word)
                                    ELSE f[i - 1]]
  <2>1. ASSUME NEW i \in 0 .. n PROVE f[i] = g[i]
    <3>1. CASE i = 0 BY <1>4, <3>1 DEF Iterated
    <3>2. CASE i # 0
      <4>1. i \in 1 .. n /\ i - 1 \in 0 .. n BY <1>1, <3>2
      <4>2. f[i - 1] \in Seq(Vocabulary) BY <1>4, <4>1
      <4>3. f[i] = step[i][f[i - 1]] BY <1>4, <4>1 DEF Iterated
      <4>4. step[i][f[i - 1]] = After(i, f[i - 1])
        <5> HIDE DEF After
        <5> QED BY <4>1, <4>2
      <4> QED BY <3>2, <4>3, <4>4
    <3> QED BY <3>1, <3>2
  <2>2. g = [i \in 0 .. n |-> g[i]] /\ f = [i \in 0 .. n |-> f[i]] BY <1>4
  <2> HIDE DEF g
  <2>3. f = g BY <2>1, <2>2
  <2> QED BY <2>3 DEF g
<1>6. E(words)
  <2> HIDE DEF E
  <2> QED BY <1>5
<1>7. \A i \in 0 .. n : words[i] = IF i = 0 THEN <<>> ELSE After(i, words[i - 1])
  <2> DEFINE g == [i \in 0 .. n |-> IF i = 0 THEN <<>>
                                    ELSE IF i \in set /\ r[i].word # Pause THEN Append(words[i - 1], r[i].word)
                                    ELSE words[i - 1]]
  <2>1. \A i \in 0 .. n : g[i] = IF i = 0 THEN <<>> ELSE After(i, words[i - 1]) OBVIOUS
  <2>2. words = g BY <1>6
  <2> HIDE DEF g, words
  <2> QED BY <2>1, <2>2
<1> HIDE DEF words
<1> DEFINE Told(i) == \E g : /\ Reads(words[i], g, r)
                             /\ On(g) = {j \in 1 .. i : j \in set /\ IsWord(r, j)}
<1>8. \A i \in 0 .. n : Told(i)
  <2> DEFINE bad == {i \in 0 .. n : ~Told(i)}
  <2>1. SUFFICES ASSUME bad # {} PROVE FALSE OBVIOUS
  <2>2. bad \in SUBSET Nat BY <1>1
  <2>3. PICK m \in bad : \A j \in bad : m <= j BY <2>1, <2>2, LeastOf
  <2>4. m \in 0 .. n /\ ~Told(m) OBVIOUS
  <2>5. m # 0
    <3>1. words[0] = <<>> BY <1>1, <1>7
    <3>2. ASSUME m = 0 PROVE Told(m)
      <4>1. On(<<>>) = {j \in 1 .. m : j \in set /\ IsWord(r, j)} BY <3>2, EmptyReads
      <4> QED BY <3>1, <3>2, <4>1, EmptyReads
    <3> QED BY <2>4, <3>2
  <2>6. m - 1 \in 0 .. n /\ ~(m <= m - 1) /\ m \in 1 .. n BY <1>1, <2>4, <2>5
  <2>7. Told(m - 1) BY <2>3, <2>6
  <2>8. PICK g : /\ Reads(words[m - 1], g, r)
                 /\ On(g) = {j \in 1 .. m - 1 : j \in set /\ IsWord(r, j)} BY <2>7
  <2>9. words[m] = After(m, words[m - 1]) BY <1>7, <2>4, <2>5
  <2>10. \A j \in 1 .. m : j = m \/ j \in 1 .. m - 1 BY <2>6
  <2>11. \A j \in 1 .. m - 1 : j \in 1 .. m /\ j < m BY <2>6
  <2>12. CASE m \in set /\ IsWord(r, m)
    <3>1. words[m] = Append(words[m - 1], r[m].word) BY <2>9, <2>12 DEF IsWord
    <3>2. \A i \in 1 .. Len(g) : g[i] < m
      <4>1. \A i \in 1 .. Len(g) : g[i] \in 1 .. m - 1 BY <2>8 DEF On
      <4> QED BY <2>11, <4>1
    <3>3. /\ Reads(Append(words[m - 1], r[m].word), Append(g, m), r)
          /\ On(Append(g, m)) = On(g) \cup {m}
      <4>1. m \in 1 .. Len(r) BY <2>6 DEF n
      <4> QED BY <2>8, <2>12, <3>2, <4>1, AppendReads
    <3>4. m \in 1 .. m BY <2>6
    <3>5. On(g) \cup {m} = {j \in 1 .. m : j \in set /\ IsWord(r, j)} BY <2>8, <2>10, <2>11, <2>12, <3>4
    <3>6. Told(m) BY <3>1, <3>3, <3>5
    <3> QED BY <2>4, <3>6
  <2>13. CASE ~(m \in set /\ IsWord(r, m))
    <3>1. words[m] = words[m - 1] BY <2>9, <2>13 DEF IsWord
    <3>2. On(g) = {j \in 1 .. m : j \in set /\ IsWord(r, j)} BY <2>8, <2>10, <2>11, <2>13
    <3>3. Told(m) BY <2>8, <3>1, <3>2
    <3> QED BY <2>4, <3>3
  <2> QED BY <2>12, <2>13
<1>9. Told(n) BY <1>1, <1>8
<1> QED BY <1>2, <1>9 DEF n

-----------------------------------------------------------------------------
(* The text of a chunk is joined to the text so far. *)

\* What both texts read up to where they meet is the same: no item behind one that the new text reads
\* is in one text only.
Meet(f, g) == \A i \in On(f), j \in On(g) : j <= i => i \in On(g) /\ j \in On(f)

LEMMA RisesTo ==
  ASSUME NEW r \in Recordings, NEW s, NEW f, Reads(s, f, r)
  PROVE  /\ Len(f) \in Nat /\ \A i \in 1 .. Len(f) : f[i] \in 1 .. Len(r) /\ f[i] \in Nat
         /\ \A i, j \in 1 .. Len(f) : i <= j => f[i] <= f[j]
         /\ \A i, j \in 1 .. Len(f) : f[i] < f[j] => i < j
<1>1. f \in Seq(1 .. Len(r)) BY DEF Reads
<1>2. Len(f) \in Nat /\ \A i \in 1 .. Len(f) : f[i] \in 1 .. Len(r) BY <1>1, LenProperties, ElementOfSeq
<1>3. \A i \in 1 .. Len(r) : i \in Nat OBVIOUS
<1>4. ASSUME NEW i \in 1 .. Len(f), NEW j \in 1 .. Len(f) PROVE (i <= j => f[i] <= f[j]) /\ (f[i] < f[j] => i < j)
  <2>1. f[i] \in Nat /\ f[j] \in Nat BY <1>2, <1>3
  <2>2. (i < j => f[i] < f[j]) /\ (j < i => f[j] < f[i]) BY DEF Reads
  <2>3. i < j \/ i = j \/ j < i BY <1>2
  <2>4. i \in Nat /\ j \in Nat OBVIOUS
  <2> QED BY <2>1, <2>2, <2>3, <2>4
<1> QED BY <1>2, <1>3, <1>4

\* Places that rise are as far apart as their numbers.
LEMMA Spread ==
  ASSUME NEW r \in Recordings, NEW s, NEW f, Reads(s, f, r), NEW i \in 1 .. Len(f), NEW j \in 1 .. Len(f), i <= j
  PROVE  f[j] - f[i] >= j - i
<1> DEFINE n == Len(f)
           Far(k) == f[k] - f[i] >= k - i
           bad == {k \in i .. n : ~Far(k)}
<1>1. n \in Nat /\ \A k \in 1 .. n : f[k] \in Nat BY RisesTo
<1>2. \A k, m \in 1 .. n : k < m => f[k] < f[m] BY DEF Reads
<1> HIDE DEF n
<1>3. i \in 1 .. n /\ j \in i .. n BY <1>1 DEF n
<1>4. SUFFICES ASSUME bad # {} PROVE FALSE BY <1>3
<1>5. bad \in SUBSET Nat BY <1>1, <1>3
<1>6. PICK m \in bad : \A k \in bad : m <= k BY <1>4, <1>5, LeastOf
<1>7. m \in i .. n /\ ~Far(m) /\ f[i] \in Nat BY <1>1, <1>3
<1>8. m # i BY <1>1, <1>3, <1>7
<1>9. m - 1 \in i .. n /\ ~(m <= m - 1) /\ m \in 1 .. n /\ m - 1 \in 1 .. n /\ m - 1 < m BY <1>1, <1>3, <1>7, <1>8
<1>10. Far(m - 1) BY <1>6, <1>9
<1>11. f[m - 1] < f[m] /\ f[m - 1] \in Nat /\ f[m] \in Nat BY <1>1, <1>2, <1>9
<1> HIDE DEF bad
<1> DEFINE x == f[m]
           y == f[m - 1]
           z == f[i]
<1>12. x \in Nat /\ y \in Nat /\ z \in Nat /\ y < x /\ y - z >= (m - 1) - i /\ ~(x - z >= m - i) BY <1>7, <1>10, <1>11
<1>13. m \in Int /\ i \in Int BY <1>3, <1>9
<1> HIDE DEF x, y, z
<1> QED BY <1>12, <1>13

\* From its item `k` on, f is how g begins.
Begins(f, g, k) == \A j \in 0 .. Len(f) - k : 1 + j <= Len(g) /\ f[k + j] = g[1 + j]

\* When a part of the old text lies behind the start of the new one, all of it from some place on is
\* the beginning of the new one.
LEMMA OldBeginsNew ==
  ASSUME NEW r \in Recordings, NEW left, NEW f, Reads(left, f, r), NEW right, NEW g, Reads(right, g, r),
         Meet(f, g), NEW d \in 1 .. Len(f), Len(g) # 0, g[1] <= f[d]
  PROVE  \E k \in 1 .. d : Begins(f, g, k)
<1> DEFINE n == Len(f)
           R == Len(g)
<1>1. n \in Nat /\ R \in Nat /\ 1 \in 1 .. R BY RisesTo
<1>2. \A i \in 1 .. n : f[i] \in Nat BY RisesTo
<1>3. \A i \in 1 .. R : g[i] \in Nat BY RisesTo
<1>4. \A i, j \in 1 .. n : (i <= j => f[i] <= f[j]) /\ (i < j => f[i] < f[j]) /\ (f[i] < f[j] => i < j)
  BY RisesTo DEF Reads
<1>5. \A i, j \in 1 .. R : (i <= j => g[i] <= g[j]) /\ (i < j => g[i] < g[j]) /\ (g[i] < g[j] => i < j)
  BY RisesTo DEF Reads
<1>6. \A i \in 1 .. n, j \in 1 .. R :
        g[j] <= f[i] => (\E a \in 1 .. R : g[a] = f[i]) /\ (\E b \in 1 .. n : f[b] = g[j])
  BY DEF Meet, On
<1> HIDE DEF n, R
<1>7. d \in 1 .. n BY DEF n
<1>8. PICK k \in 1 .. n : f[k] = g[1] BY <1>1, <1>6, <1>7
<1>9. k <= d
  <2>1. f[k] <= f[d] BY <1>8
  <2>2. ~(f[d] < f[k]) BY <1>2, <1>7, <2>1
  <2>3. ~(d < k) BY <1>4, <1>7, <2>2
  <2> QED BY <1>1, <1>7, <2>3
<1> DEFINE Same(j) == 1 + j <= R /\ f[k + j] = g[1 + j]
           bad == {j \in 0 .. n - k : ~Same(j)}
<1>10. bad = {}
  <2>1. SUFFICES ASSUME bad # {} PROVE FALSE OBVIOUS
  <2>2. bad \in SUBSET Nat BY <1>1
  <2>3. PICK m \in bad : \A j \in bad : m <= j BY <2>1, <2>2, LeastOf
  <2>4. m \in 0 .. n - k /\ ~Same(m) OBVIOUS
  <2>5. m # 0
    <3>1. k + 0 = k /\ 1 + 0 = 1 /\ 1 <= R BY <1>1
    <3> QED BY <1>8, <2>4, <3>1
  <2>6. m - 1 \in 0 .. n - k /\ ~(m <= m - 1) BY <1>1, <2>4, <2>5
  <2>7. Same(m - 1) BY <2>3, <2>6
  <2> HIDE DEF bad
  <2>8. /\ m \in Nat /\ m \in 1 .. R /\ k + (m - 1) \in 1 .. n /\ k + m \in 1 .. n
        /\ 1 + (m - 1) = m /\ k + (m - 1) < k + m /\ k <= k + m
    BY <1>1, <2>4, <2>5, <2>7
  <2>9. f[k + (m - 1)] = g[m] BY <2>7, <2>8
  <2>10. g[1] <= f[k + m] BY <1>4, <1>8, <2>8
  <2>11. PICK a \in 1 .. R : g[a] = f[k + m] BY <1>1, <1>6, <2>8, <2>10
  <2>12. g[m] < g[a] BY <1>4, <2>8, <2>9, <2>11
  <2>13. m < a BY <1>5, <2>8, <2>12
  <2>14. m + 1 \in 1 .. R /\ m + 1 <= a /\ m < m + 1 BY <1>1, <2>8, <2>13
  <2>15. g[m + 1] <= f[k + m] BY <1>5, <2>11, <2>14
  <2>16. PICK b \in 1 .. n : f[b] = g[m + 1] BY <1>6, <2>8, <2>14, <2>15
  <2>17. f[k + (m - 1)] < f[b] BY <1>5, <2>8, <2>9, <2>14, <2>16
  <2>18. k + (m - 1) < b BY <1>4, <2>8, <2>17
  <2>19. k + m <= b BY <1>1, <2>8, <2>18
  <2>20. f[k + m] <= g[m + 1] BY <1>4, <2>8, <2>16, <2>19
  <2>21. f[k + m] = g[m + 1] BY <1>2, <1>3, <2>8, <2>14, <2>15, <2>20
  <2>22. 1 + m = m + 1 /\ 1 + m <= R BY <1>1, <2>8, <2>14
  <2> QED BY <2>4, <2>21, <2>22
<1>11. \A j \in 0 .. n - k : Same(j) BY <1>10
<1>12. k \in 1 .. d BY <1>1, <1>7, <1>9
<1> QED BY <1>11, <1>12 DEF n, R, Begins

LEMMA PartOfText ==
  ASSUME NEW S, NEW s \in Seq(S), NEW a \in 1 .. Len(s) + 1, NEW c \in a - 1 .. Len(s)
  PROVE  /\ SubSeq(s, a, c) \in Seq(S) /\ Len(SubSeq(s, a, c)) = c - a + 1
         /\ \A i \in 1 .. c - a + 1 : SubSeq(s, a, c)[i] = s[a + i - 1]
<1>1. Len(s) \in Nat BY LenProperties
<1>2. \A i \in a .. c : s[i] \in S BY <1>1, ElementOfSeq
<1>3. a \in Int /\ c \in Int BY <1>1
<1>4. /\ SubSeq(s, a, c) \in Seq(S)
      /\ Len(SubSeq(s, a, c)) = IF a <= c THEN c - a + 1 ELSE 0
      /\ \A i \in 1 .. c - a + 1 : SubSeq(s, a, c)[i] = s[a + i - 1]
  BY <1>2, <1>3, SubSeqProperties
<1> QED BY <1>1, <1>4

\* Of the old text its first `d` words are followed by the new one.
Merged(left, right, d) ==
  LET t == Audio!MergeTranscript(left, right) IN
  /\ t \in Seq(Vocabulary) /\ Len(t) = d + Len(right)
  /\ \A i \in 1 .. d : t[i] = left[i]
  /\ \A p \in 1 .. Len(right) : t[d + p] = right[p]
  /\ \A p \in 1 .. Len(left) - d : p <= Len(right) /\ left[d + p] = right[p]
  /\ \A k \in 1 .. d : ~(/\ Len(left) - k + 1 <= Len(right) /\ Len(left) - k + 1 <= MaxShared
                         /\ \A j \in 0 .. Len(left) - k : left[k + j] = right[1 + j])

\* The overlap that is kept once: the longest end of the old text that begins the new one.
LEMMA MergeIs ==
  ASSUME NEW left \in Seq(Vocabulary), NEW right \in Seq(Vocabulary), MaxShared \in Nat
  PROVE  \E d \in 0 .. Len(left) : Merged(left, right, d)
<1> DEFINE L == Len(left)
           R == Len(right)
           same == {n \in 0 .. MaxShared : /\ n <= L /\ n <= R
                                           /\ SubSeq(left, L - n + 1, L) = SubSeq(right, 1, n)}
           o == CHOOSE n \in same : \A k \in same : k <= n
           d == L - o
           tail == SubSeq(right, o + 1, R)
           t == left \o tail
<1>1. L \in Nat /\ R \in Nat BY LenProperties
<1>2. Audio!MergeTranscript(left, right) = t BY DEF Audio!MergeTranscript
<1>3. \A n \in same : n \in 0 .. L /\ n \in 0 .. R BY <1>1
<1>4. ASSUME NEW n \in 0 .. L
      PROVE  /\ SubSeq(left, L - n + 1, L) \in Seq(Vocabulary) /\ Len(SubSeq(left, L - n + 1, L)) = n
             /\ \A i \in 1 .. n : SubSeq(left, L - n + 1, L)[i] = left[(L - n) + i]
  <2>1. L - n + 1 \in 1 .. L + 1 /\ L \in (L - n + 1) - 1 .. L /\ L - (L - n + 1) + 1 = n BY <1>1
  <2>2. \A i \in 1 .. n : (L - n + 1) + i - 1 = (L - n) + i BY <1>1
  <2>3. /\ SubSeq(left, L - n + 1, L) \in Seq(Vocabulary) /\ Len(SubSeq(left, L - n + 1, L)) = L - (L - n + 1) + 1
        /\ \A i \in 1 .. L - (L - n + 1) + 1 : SubSeq(left, L - n + 1, L)[i] = left[(L - n + 1) + i - 1]
    BY <2>1, PartOfText
  <2> QED BY <2>1, <2>2, <2>3
<1>5. ASSUME NEW n \in 0 .. R
      PROVE  /\ SubSeq(right, 1, n) \in Seq(Vocabulary) /\ Len(SubSeq(right, 1, n)) = n
             /\ \A i \in 1 .. n : SubSeq(right, 1, n)[i] = right[i]
  <2>1. 1 \in 1 .. R + 1 /\ n \in 1 - 1 .. R /\ n - 1 + 1 = n BY <1>1
  <2>2. \A i \in 1 .. n : 1 + i - 1 = i OBVIOUS
  <2>3. /\ SubSeq(right, 1, n) \in Seq(Vocabulary) /\ Len(SubSeq(right, 1, n)) = n - 1 + 1
        /\ \A i \in 1 .. n - 1 + 1 : SubSeq(right, 1, n)[i] = right[1 + i - 1]
    BY <2>1, PartOfText
  <2> QED BY <2>1, <2>2, <2>3
<1>6. 0 \in same
  <2>1. 0 \in 0 .. MaxShared /\ 0 <= L /\ 0 <= R /\ 0 \in 0 .. L /\ 0 \in 0 .. R BY <1>1
  <2>2. /\ SubSeq(left, L - 0 + 1, L) \in Seq(Vocabulary) /\ Len(SubSeq(left, L - 0 + 1, L)) = 0 BY <1>4, <2>1
  <2>3. /\ SubSeq(right, 1, 0) \in Seq(Vocabulary) /\ Len(SubSeq(right, 1, 0)) = 0 BY <1>5, <2>1
  <2>4. SubSeq(left, L - 0 + 1, L) = <<>> BY <2>2, EmptySeq
  <2>5. SubSeq(right, 1, 0) = <<>> BY <2>3, EmptySeq
  <2> QED BY <2>1, <2>4, <2>5
<1>7. MaxShared \in Nat /\ same \in SUBSET (0 .. MaxShared) OBVIOUS
<1> HIDE DEF L, R
<1>8. \E n \in same : \A k \in same : k <= n
  <2> DEFINE mirror == {MaxShared - n : n \in same}
  <2> HIDE DEF same
  <2>1. \A n \in same : MaxShared - n \in Nat BY <1>7
  <2>2. mirror \in SUBSET Nat BY <2>1
  <2>3. MaxShared - 0 \in mirror BY <1>6
  <2> HIDE DEF mirror
  <2>4. PICK m \in mirror : \A k \in mirror : m <= k BY <2>2, <2>3, LeastOf
  <2> USE DEF mirror
  <2>5. PICK n \in same : m = MaxShared - n BY <2>4
  <2>6. ASSUME NEW k \in same PROVE k <= n
    <3>1. MaxShared - n <= MaxShared - k BY <2>4, <2>5
    <3>2. n \in 0 .. MaxShared /\ k \in 0 .. MaxShared BY <1>7
    <3> QED BY <1>7, <3>1, <3>2
  <2> QED BY <2>6
<1>9. o \in same /\ \A k \in same : k <= o BY <1>8
<1> HIDE DEF o
<1>10. /\ o \in 0 .. L /\ o \in 0 .. R /\ SubSeq(left, L - o + 1, L) = SubSeq(right, 1, o)
  BY <1>3, <1>9
<1>11. d \in 0 .. L /\ L - d = o /\ d + o = L BY <1>1, <1>10
<1>12. \A p \in 1 .. o : p <= R /\ left[d + p] = right[p] BY <1>1, <1>4, <1>5, <1>10
<1>13. tail \in Seq(Vocabulary) /\ Len(tail) = R - o /\ \A i \in 1 .. R - o : tail[i] = right[o + i]
  <2>1. o + 1 \in 1 .. R + 1 /\ R \in (o + 1) - 1 .. R /\ R - (o + 1) + 1 = R - o BY <1>1, <1>10
  <2>2. \A i \in 1 .. R - o : (o + 1) + i - 1 = o + i BY <1>1, <1>10
  <2>3. /\ tail \in Seq(Vocabulary) /\ Len(tail) = R - (o + 1) + 1
        /\ \A i \in 1 .. R - (o + 1) + 1 : tail[i] = right[(o + 1) + i - 1]
    BY <2>1, PartOfText DEF R
  <2> HIDE DEF tail
  <2> QED BY <2>1, <2>2, <2>3
<1> HIDE DEF tail
<1>14. /\ t \in Seq(Vocabulary) /\ Len(t) = L + (R - o)
       /\ \A i \in 1 .. L + (R - o) : t[i] = IF i <= L THEN left[i] ELSE tail[i - L]
  BY <1>13, ConcatProperties DEF L
<1> HIDE DEF t
<1>15. L + (R - o) = d + R BY <1>1, <1>10
<1> HIDE DEF d
<1>16. ASSUME NEW i \in 1 .. d PROVE t[i] = left[i]
  <2>1. i \in 1 .. L + (R - o) /\ i <= L BY <1>1, <1>10, <1>11
  <2> QED BY <1>14, <2>1
<1>17. ASSUME NEW p \in 1 .. R PROVE t[d + p] = right[p]
  <2>1. d + p \in 1 .. L + (R - o) BY <1>1, <1>10, <1>11, <1>15
  <2>2. CASE p \in 1 .. o
    <3>1. d + p <= L BY <1>1, <1>11, <2>2
    <3> QED BY <1>12, <1>14, <2>1, <2>2, <3>1
  <2>3. CASE p \notin 1 .. o
    <3>1. ~(d + p <= L) /\ (d + p) - L = p - o /\ p - o \in 1 .. R - o /\ o + (p - o) = p
      BY <1>1, <1>10, <1>11, <2>3
    <3>2. t[d + p] = tail[(d + p) - L] BY <1>14, <2>1, <3>1
    <3>3. tail[p - o] = right[o + (p - o)] BY <1>13, <3>1
    <3> QED BY <3>1, <3>2, <3>3
  <2> QED BY <2>2, <2>3
<1>18. ASSUME NEW k \in 1 .. d, L - k + 1 <= R, L - k + 1 <= MaxShared,
              \A j \in 0 .. L - k : left[k + j] = right[1 + j]
       PROVE  FALSE
  <2> DEFINE n == L - k + 1
  <2>1. n \in 0 .. MaxShared /\ n <= L /\ n <= R /\ n \in 0 .. L /\ n \in 0 .. R BY <1>1, <1>7, <1>11, <1>18
  <2>2. \A i \in 1 .. n : left[(L - n) + i] = right[i]
    <3>1. ASSUME NEW i \in 1 .. n PROVE left[(L - n) + i] = right[i]
      <4>1. i - 1 \in 0 .. L - k /\ (L - n) + i = k + (i - 1) /\ 1 + (i - 1) = i BY <1>1, <1>11
      <4>2. left[k + (i - 1)] = right[1 + (i - 1)] BY <1>18, <4>1
      <4> QED BY <4>1, <4>2
    <3> QED BY <3>1
  <2> HIDE DEF n
  <2>3. /\ SubSeq(left, L - n + 1, L) \in Seq(Vocabulary) /\ Len(SubSeq(left, L - n + 1, L)) = n
        /\ \A i \in 1 .. n : SubSeq(left, L - n + 1, L)[i] = left[(L - n) + i]
    BY <1>4, <2>1
  <2>4. /\ SubSeq(right, 1, n) \in Seq(Vocabulary) /\ Len(SubSeq(right, 1, n)) = n
        /\ \A i \in 1 .. n : SubSeq(right, 1, n)[i] = right[i]
    BY <1>5, <2>1
  <2>5. SubSeq(left, L - n + 1, L) = SubSeq(right, 1, n)
    <3> DEFINE x == SubSeq(left, L - n + 1, L)
               y == SubSeq(right, 1, n)
    <3>1. x \in Seq(Vocabulary) /\ y \in Seq(Vocabulary) /\ Len(x) = Len(y) BY <2>3, <2>4
    <3>2. \A i \in 1 .. Len(x) : x[i] = y[i] BY <2>2, <2>3, <2>4
    <3> HIDE DEF x, y
    <3>3. x = y BY <3>1, <3>2, SeqEqual
    <3> QED BY <3>3 DEF x, y
  <2>6. n \in same BY <2>1, <2>5
  <2>7. n <= o BY <1>9, <2>6
  <2>8. n >= o + 1 BY <1>1, <1>11 DEF n
  <2>9. n \in Nat /\ o \in Nat BY <1>10, <2>1
  <2> QED BY <2>7, <2>8, <2>9
<1>19. \A p \in 1 .. L - d : p <= R /\ left[d + p] = right[p] BY <1>11, <1>12
<1>20. Len(t) = d + R /\ t \in Seq(Vocabulary) BY <1>14, <1>15
<1>21. d \in 0 .. L BY <1>11
<1> QED BY <1>2, <1>16, <1>17, <1>18, <1>19, <1>20, <1>21 DEF L, R, Merged

\* No more than MaxShared words of the old text lie behind the start of the new one.
FewMeet(f, g) == \A k \in 1 .. Len(f) : Len(g) # 0 /\ f[k] = g[1] => Len(f) - k + 1 <= MaxShared

\* Where old and new text meet, joining them neither doubles nor moves an item, and what it drops of
\* the old text has its word in the new one.
LEMMA MergeReads ==
  ASSUME Audio!AudioAssumption, NEW r \in Recordings, NEW left, NEW f, Reads(left, f, r),
         NEW right, NEW g, Reads(right, g, r), Meet(f, g), FewMeet(f, g)
  PROVE  \E h : /\ Reads(Audio!MergeTranscript(left, right), h, r)
                /\ On(g) \subseteq On(h) /\ On(h) \subseteq On(f) \cup On(g)
                /\ \A i \in On(f) : i \in On(h) \/ \E j \in On(g) : r[j].word = r[i].word
<1> DEFINE t == Audio!MergeTranscript(left, right)
           L == Len(f)
           R == Len(g)
<1>1. /\ left \in Seq(Vocabulary) /\ right \in Seq(Vocabulary) /\ Len(left) = L /\ Len(right) = R
      /\ \A i \in 1 .. L : IsWord(r, f[i]) /\ left[i] = r[f[i]].word
      /\ \A i \in 1 .. R : IsWord(r, g[i]) /\ right[i] = r[g[i]].word
  BY DEF Reads
<1>2. L \in Nat /\ R \in Nat BY RisesTo
<1>3. PICK d \in 0 .. L :
        /\ t \in Seq(Vocabulary) /\ Len(t) = d + R
        /\ \A i \in 1 .. d : t[i] = left[i]
        /\ \A p \in 1 .. R : t[d + p] = right[p]
        /\ \A p \in 1 .. L - d : p <= R /\ left[d + p] = right[p]
        /\ \A k \in 1 .. d : ~(/\ L - k + 1 <= R /\ L - k + 1 <= MaxShared
                               /\ \A j \in 0 .. L - k : left[k + j] = right[1 + j])
  <2>1. left \in Seq(Vocabulary) /\ right \in Seq(Vocabulary) /\ Len(left) = L /\ Len(right) = R BY <1>1
  <2>3. MaxShared \in Nat BY DEF Audio!AudioAssumption
  <2> HIDE DEF L, R
  <2>2. \E d \in 0 .. Len(left) : Merged(left, right, d) BY ONLY <2>1, <2>3, MergeIs
  <2> HIDE DEF t
  <2> QED BY <2>1, <2>2 DEF Merged, t
<1>4. ASSUME NEW a \in 1 .. d, NEW b \in 1 .. R PROVE f[a] < g[b]
  <2>1. \A i, j \in 1 .. L : i <= j => f[i] <= f[j] BY RisesTo
  <2>2. \A i, j \in 1 .. R : i <= j => g[i] <= g[j] BY RisesTo
  <2>3. \A i \in 1 .. L : f[i] \in Nat BY RisesTo
  <2>4. \A i \in 1 .. R : g[i] \in Nat BY RisesTo
  <2> HIDE DEF L, R, t
  <2>5. d \in 1 .. L /\ a \in 1 .. L /\ 1 \in 1 .. R /\ 1 <= b /\ a <= d /\ R # 0 BY <1>2
  <2>6. f[a] <= f[d] /\ g[1] <= g[b] BY <2>1, <2>2, <2>5
  <2>7. ~(g[1] <= f[d])
    <3>1. SUFFICES ASSUME g[1] <= f[d] PROVE FALSE OBVIOUS
    <3>2. PICK k \in 1 .. d : \A j \in 0 .. L - k : 1 + j <= R /\ f[k + j] = g[1 + j]
      <4>1. d \in 1 .. Len(f) /\ Len(g) # 0 BY <2>5 DEF L, R
      <4>2. \E k \in 1 .. d : Begins(f, g, k) BY <3>1, <4>1, OldBeginsNew
      <4> QED BY <4>2 DEF L, R, Begins
    <3>3. L - k + 1 <= R
      <4>1. L - k \in 0 .. L - k /\ 1 + (L - k) = L - k + 1 BY <1>2
      <4> QED BY <3>2, <4>1
    <3>4. ASSUME NEW j \in 0 .. L - k PROVE left[k + j] = right[1 + j]
      <4>1. k + j \in 1 .. L /\ 1 + j <= R /\ 1 + j \in 1 .. R BY <1>2, <3>2
      <4> QED BY <1>1, <3>2, <4>1
    <3>5. L - k + 1 <= MaxShared
      <4>1. 0 \in 0 .. L - k /\ k + 0 = k /\ 1 + 0 = 1 /\ k \in 1 .. L BY <1>2, <2>5
      <4>2. f[k] = g[1] BY <3>2, <4>1
      <4> QED BY <2>5, <4>1, <4>2 DEF FewMeet, L, R
    <3> QED BY <1>3, <3>3, <3>4, <3>5
  <2>8. f[a] \in Nat /\ f[d] \in Nat /\ g[1] \in Nat /\ g[b] \in Nat BY <2>3, <2>4, <2>5
  <2> QED BY <2>6, <2>7, <2>8
<1> DEFINE h == [i \in 1 .. d + R |-> IF i <= d THEN f[i] ELSE g[i - d]]
<1>5. \A i \in 1 .. L : f[i] \in 1 .. Len(r) BY RisesTo
<1>6. \A i \in 1 .. R : g[i] \in 1 .. Len(r) BY RisesTo
<1> HIDE DEF L, R, t
<1>7. \A i \in 1 .. d + R : (i <= d => i \in 1 .. d /\ i \in 1 .. L)
                            /\ (~(i <= d) => i - d \in 1 .. R /\ d + (i - d) = i)
  BY <1>2
<1>8. h \in Seq(1 .. Len(r)) /\ Len(h) = d + R
  <2>1. h \in [1 .. d + R -> 1 .. Len(r)] BY <1>5, <1>6, <1>7
  <2>2. d + R \in Nat BY <1>2
  <2> QED BY <2>1, <2>2
<1>9. \A i \in 1 .. d + R : (i <= d => h[i] = f[i]) /\ (~(i <= d) => h[i] = g[i - d]) OBVIOUS
<1> HIDE DEF h
<1>10. ASSUME NEW i \in 1 .. d + R, NEW j \in 1 .. d + R, i < j PROVE h[i] < h[j]
  <2>1. CASE j <= d
    <3>1. i <= d BY <1>2, <1>10, <2>1
    <3>2. f[i] < f[j] BY <1>7, <1>10, <2>1, <3>1 DEF Reads, L
    <3> QED BY <1>9, <2>1, <3>1, <3>2
  <2>2. CASE ~(j <= d) /\ i <= d BY <1>4, <1>7, <1>9, <2>2
  <2>3. CASE ~(j <= d) /\ ~(i <= d)
    <3>1. i - d < j - d BY <1>2, <1>10
    <3>2. g[i - d] < g[j - d] BY <1>7, <2>3, <3>1 DEF Reads, R
    <3> QED BY <1>9, <2>3, <3>2
  <2> QED BY <2>1, <2>2, <2>3
<1>11. ASSUME NEW i \in 1 .. d + R PROVE IsWord(r, h[i]) /\ t[i] = r[h[i]].word
  <2>1. CASE i <= d BY <1>1, <1>3, <1>7, <1>9, <2>1
  <2>2. CASE ~(i <= d)
    <3>1. i - d \in 1 .. R /\ d + (i - d) = i /\ h[i] = g[i - d] BY <1>7, <1>9, <2>2
    <3>2. t[d + (i - d)] = right[i - d] BY <1>3, <3>1
    <3> QED BY <1>1, <3>1, <3>2
  <2> QED BY <2>1, <2>2
<1>12. Reads(t, h, r) BY <1>3, <1>8, <1>10, <1>11 DEF Reads
<1>13. On(h) \subseteq On(f) \cup On(g)
  <2>1. ASSUME NEW i \in 1 .. d + R PROVE h[i] \in On(f) \cup On(g) BY <1>7, <1>9 DEF On, L, R
  <2> QED BY <1>8, <2>1 DEF On
<1>14. On(g) \subseteq On(h)
  <2>1. ASSUME NEW p \in 1 .. R PROVE g[p] \in On(h)
    <3>1. d + p \in 1 .. d + R /\ ~(d + p <= d) /\ (d + p) - d = p BY <1>2
    <3>2. h[d + p] = g[p] BY <1>9, <3>1
    <3> QED BY <1>8, <3>1, <3>2 DEF On
  <2> QED BY <2>1 DEF On, R
<1>15. ASSUME NEW i \in 1 .. L PROVE f[i] \in On(h) \/ \E j \in On(g) : r[j].word = r[f[i]].word
  <2>1. CASE i <= d
    <3>1. i \in 1 .. d + R BY <1>2, <2>1
    <3> QED BY <1>8, <1>9, <2>1, <3>1 DEF On
  <2>2. CASE ~(i <= d)
    <3>1. i - d \in 1 .. L - d /\ d + (i - d) = i BY <1>2, <2>2
    <3>2. i - d <= R /\ left[d + (i - d)] = right[i - d] BY <1>3, <3>1
    <3>3. i - d \in 1 .. R BY <1>2, <3>1, <3>2
    <3>4. r[g[i - d]].word = r[f[i]].word BY <1>1, <3>1, <3>2, <3>3
    <3>5. g[i - d] \in On(g) BY <3>3 DEF On, R
    <3> QED BY <3>4, <3>5
  <2> QED BY <2>1, <2>2
<1>16. \A i \in On(f) : i \in On(h) \/ \E j \in On(g) : r[j].word = r[i].word BY <1>15 DEF On, L
<1> QED BY <1>12, <1>13, <1>14, <1>16 DEF t

-----------------------------------------------------------------------------
(* One chunk after the other. *)

Finish(r, i) == Audio!Ends(r)[i]
Begin(r, i) == Audio!Ends(r)[i - 1]
SaidOnce(r, i) == IsWord(r, i) /\ \A j \in 1 .. Len(r) : IsWord(r, j) /\ r[j].word = r[i].word => j = i

\* What has been heard up to `to`, when the next chunk starts at `from`: nothing that begins later, all
\* words that end between the two, and every word that was said once.
HeardUpTo(r, f, from, to) ==
  /\ \A i \in On(f) : Begin(r, i) < to
  /\ \A i \in 1 .. Len(r) : IsWord(r, i) /\ from < Finish(r, i) /\ Finish(r, i) <= to => i \in On(f)
  /\ \A i \in 1 .. Len(r) : SaidOnce(r, i) /\ Finish(r, i) <= to => i \in On(f)

LEMMA ItemsLie ==
  ASSUME Audio!AudioAssumption, NEW r \in Recordings, NEW i \in 1 .. Len(r)
  PROVE  /\ Begin(r, i) \in Nat /\ Finish(r, i) \in Nat
         /\ Begin(r, i) < Finish(r, i) /\ Finish(r, i) <= Begin(r, i) + Overlap
         /\ \A j \in 1 .. Len(r) : j < i => Finish(r, j) <= Begin(r, i)
<1>1. Len(r) \in Nat /\ r[i].length \in 1 .. Overlap BY ItemsOf
<1>2. /\ Audio!Ends(r) \in [0 .. Len(r) -> Nat]
      /\ Finish(r, i) = Begin(r, i) + r[i].length
  BY EndsIs DEF Finish, Begin
<1>3. i \in 0 .. Len(r) /\ i - 1 \in 0 .. Len(r) BY <1>1
<1>4. Begin(r, i) \in Nat BY <1>2, <1>3 DEF Begin
<1>5. ASSUME NEW j \in 1 .. Len(r), j < i PROVE Finish(r, j) <= Begin(r, i)
  <2>1. j \in 0 .. Len(r) /\ j <= i - 1 BY <1>1, <1>5
  <2> QED BY <1>3, <2>1, EndsRise DEF Finish, Begin
<1>6. Overlap \in Nat BY DEF Audio!AudioAssumption
<1> HIDE DEF Recordings
<1>7. Begin(r, i) < Finish(r, i) /\ Finish(r, i) <= Begin(r, i) + Overlap /\ Finish(r, i) \in Nat
  <2> DEFINE len == r[i].length
             b == Begin(r, i)
  <2>1. len \in 1 .. Overlap /\ b \in Nat BY <1>1, <1>4
  <2> HIDE DEF len, b
  <2>2. b < b + len /\ b + len <= b + Overlap /\ b + len \in Nat BY <1>6, <2>1
  <2> QED BY <1>2, <2>2 DEF len, b
<1> QED BY <1>4, <1>5, <1>7

LEMMA ChunkHeard ==
  ASSUME Audio!AudioAssumption, NEW r \in Recordings, NEW left, NEW f, Reads(left, f, r),
         NEW from \in Nat, NEW to \in Nat, (from = 0 /\ to = 0) \/ to = from + Overlap,
         HeardUpTo(r, f, from, to), NEW set,
         \A i \in 1 .. Len(r) : from <= Begin(r, i) /\ Finish(r, i) <= from + ChunkSize => i \in set,
         \A i \in 1 .. Len(r) : i \in set => from < Finish(r, i) /\ Begin(r, i) < from + ChunkSize
  PROVE  \E h : /\ Reads(Audio!MergeTranscript(left, Audio!WordsOf(r, set)), h, r)
                /\ HeardUpTo(r, h, from + (ChunkSize - Overlap), from + ChunkSize)
<1> DEFINE right == Audio!WordsOf(r, set)
<1>1. PICK g : Reads(right, g, r) /\ On(g) = {j \in 1 .. Len(r) : j \in set /\ IsWord(r, j)}
  BY WordsOfIs
<1> HIDE DEF right
<1>2. Overlap \in Nat /\ ChunkSize \in Nat /\ 2 * Overlap <= ChunkSize BY DEF Audio!AudioAssumption
<1>3. \A i \in On(f) : i \in 1 .. Len(r) /\ IsWord(r, i) BY RisesTo DEF On, Reads
<1>4. \A i \in 1 .. Len(r) : /\ Begin(r, i) \in Nat /\ Finish(r, i) \in Nat
                             /\ Begin(r, i) < Finish(r, i) /\ Finish(r, i) <= Begin(r, i) + Overlap
  BY ItemsLie
<1>5. Meet(f, g)
  <2>1. SUFFICES ASSUME NEW i \in On(f), NEW j \in On(g), j <= i PROVE i \in On(g) /\ j \in On(f)
    BY DEF Meet
  <2>2. /\ i \in 1 .. Len(r) /\ IsWord(r, i) /\ j \in 1 .. Len(r) /\ j \in set /\ IsWord(r, j)
        /\ Begin(r, i) < to
    BY <1>1, <1>3 DEF HeardUpTo
  <2>3. to = from + Overlap /\ from < Finish(r, j) BY <1>4, <2>2
  <2>4. CASE i = j BY <2>4
  <2>5. CASE i # j
    <3>1. j < i BY <2>1, <2>2, <2>5
    <3>2. Finish(r, j) <= Begin(r, i) BY <2>2, <3>1, ItemsLie
    <3> DEFINE b == Begin(r, i)
               e == Finish(r, i)
               x == Finish(r, j)
    <3>3. b \in Nat /\ e \in Nat /\ x \in Nat /\ e <= b + Overlap BY <1>4, <2>2
    <3>4. x <= b /\ b < to /\ from < x BY <2>2, <2>3, <3>2
    <3> HIDE DEF b, e, x
    <3>5. from <= b /\ e <= from + ChunkSize /\ x <= to BY <1>2, <2>3, <3>3, <3>4
    <3>6. i \in set BY <2>2, <3>5 DEF b, e
    <3>7. j \in On(f) BY <2>2, <2>3, <3>5 DEF HeardUpTo, x
    <3> QED BY <1>1, <2>2, <3>6, <3>7
  <2> QED BY <2>4, <2>5
<1>12. FewMeet(f, g)
  <2>1. SUFFICES ASSUME NEW k \in 1 .. Len(f), Len(g) # 0, f[k] = g[1] PROVE Len(f) - k + 1 <= MaxShared
    BY DEF FewMeet
  <2> DEFINE L == Len(f)
             b == Begin(r, f[L])
             e == Finish(r, f[k])
  <2>2. L \in Nat /\ L \in 1 .. L /\ k <= L BY RisesTo
  <2>3. f[k] \in 1 .. Len(r) /\ f[L] \in 1 .. Len(r) /\ f[k] \in Nat /\ f[L] \in Nat BY <2>2, RisesTo
  <2>4. f[k] \in On(g)
    <3>1. Len(g) \in Nat BY RisesTo, <1>1
    <3>2. 1 \in 1 .. Len(g) BY <2>1, <3>1
    <3> QED BY <2>1, <3>2 DEF On
  <2>5. from < e BY <1>1, <2>4
  <2>6. b < to BY <2>2 DEF HeardUpTo, On
  <2>7. b \in Nat /\ e \in Nat BY <1>4, <2>3
  <2>8. to = from + Overlap BY <2>6, <2>7
  <2>9. Overlap <= MaxShared /\ MaxShared \in Nat BY DEF Audio!AudioAssumption
  <2>10. CASE k = L
    <3>1. Overlap # 0 BY <1>2, <2>5, <2>6, <2>7, <2>8, <1>4, <2>3, <2>10
    <3> QED BY <1>2, <2>2, <2>9, <2>10, <3>1
  <2>11. CASE k # L
    <3>1. k < L /\ k \in Nat BY <2>2, <2>11
    <3>2. f[L] - f[k] >= L - k BY <2>2, <3>1, Spread
    <3> DEFINE x == f[k]
               y == f[L]
    <3>3. x \in Nat /\ y \in Nat /\ x \in 0 .. Len(r) /\ y - 1 \in 0 .. Len(r) /\ x <= y - 1
      <4>1. x \in Nat /\ y \in Nat /\ x \in 1 .. Len(r) /\ y \in 1 .. Len(r) /\ y - x >= L - k BY <2>3, <3>2
      <4> HIDE DEF x, y, L
      <4>2. Len(r) \in Nat BY ItemsOf
      <4> QED BY <2>2, <3>1, <4>1, <4>2
    <3>4. e + ((y - 1) - x) <= b BY <3>3, EndsSpread DEF Begin, Finish
    <3>5. y - x >= L - k BY <3>2
    <3> HIDE DEF x, y, b, e, L
    <3>6. L - k + 1 <= Overlap BY <1>2, <2>2, <2>5, <2>6, <2>7, <2>8, <3>1, <3>3, <3>4, <3>5
    <3> QED BY <1>2, <2>2, <2>9, <3>1, <3>6 DEF L
  <2> QED BY <2>10, <2>11
<1>6. PICK h : /\ Reads(Audio!MergeTranscript(left, right), h, r)
               /\ On(g) \subseteq On(h) /\ On(h) \subseteq On(f) \cup On(g)
               /\ \A i \in On(f) : i \in On(h) \/ \E j \in On(g) : r[j].word = r[i].word
  BY <1>1, <1>5, <1>12, MergeReads
<1>7. ASSUME NEW i \in On(h) PROVE Begin(r, i) < from + ChunkSize
  <2>1. CASE i \in On(g) BY <1>1, <2>1
  <2>2. CASE i \in On(f)
    <3>1. Begin(r, i) < to /\ Begin(r, i) \in Nat BY <1>3, <1>4, <2>2 DEF HeardUpTo
    <3>2. to <= from + ChunkSize BY <1>2
    <3> QED BY <1>2, <3>1, <3>2
  <2> QED BY <1>6, <2>1, <2>2
<1>8. ASSUME NEW i \in 1 .. Len(r), IsWord(r, i), from < Finish(r, i) - Overlap \/ from = 0,
             Finish(r, i) <= from + ChunkSize
      PROVE  i \in On(h)
  <2> DEFINE b == Begin(r, i)
             e == Finish(r, i)
  <2>1. b \in Nat /\ e \in Nat /\ e <= b + Overlap BY <1>4
  <2>2. from < e - Overlap \/ from = 0 BY <1>8
  <2> HIDE DEF b, e
  <2>3. from <= b BY <1>2, <2>1, <2>2
  <2>4. i \in set BY <1>8, <2>3 DEF b
  <2> QED BY <1>1, <1>6, <1>8, <2>4
<1>9. ASSUME NEW i \in 1 .. Len(r), IsWord(r, i), from + (ChunkSize - Overlap) < Finish(r, i),
             Finish(r, i) <= from + ChunkSize
      PROVE  i \in On(h)
  <2> DEFINE e == Finish(r, i)
  <2>1. e \in Nat /\ from + (ChunkSize - Overlap) < e BY <1>4, <1>9
  <2> HIDE DEF e
  <2>2. from < e - Overlap BY <1>2, <2>1
  <2> QED BY <1>8, <1>9, <2>2 DEF e
<1>10. ASSUME NEW i \in 1 .. Len(r), SaidOnce(r, i), Finish(r, i) <= from + ChunkSize
       PROVE  i \in On(h)
  <2>1. IsWord(r, i) BY <1>10 DEF SaidOnce
  <2>2. CASE from = 0 /\ to = 0 BY <1>8, <1>10, <2>1, <2>2
  <2>3. CASE to = from + Overlap /\ Finish(r, i) <= to
    <3>1. i \in On(f) BY <1>10, <2>3 DEF HeardUpTo
    <3>2. i \in On(h) \/ \E j \in On(g) : r[j].word = r[i].word BY <1>6, <3>1
    <3>3. \A j \in On(g) : r[j].word = r[i].word => j = i BY <1>1, <1>10 DEF SaidOnce
    <3> QED BY <1>6, <3>2, <3>3
  <2>4. CASE to = from + Overlap /\ ~(Finish(r, i) <= to)
    <3> DEFINE e == Finish(r, i)
    <3>1. e \in Nat /\ ~(e <= to) BY <1>4, <2>4
    <3> HIDE DEF e
    <3>2. from < e - Overlap BY <1>2, <2>4, <3>1
    <3> QED BY <1>8, <1>10, <2>1, <3>2 DEF e
  <2> QED BY <2>2, <2>3, <2>4
<1>11. HeardUpTo(r, h, from + (ChunkSize - Overlap), from + ChunkSize) BY <1>7, <1>9, <1>10 DEF HeardUpTo
<1> QED BY <1>6, <1>11 DEF right

-----------------------------------------------------------------------------
(* The invariant of a recorded order. *)

FullLength(r) == Audio!Ends(r)[Len(r)]

AudioTypes ==
  /\ recording \in Recordings /\ Len(recording) <= MaxItems
  /\ decoding \in {"decode", "ffmpeg", "chunks", "done"} /\ ffmpeg \in BOOLEAN
  /\ start \in 0 .. FullLength(recording) + ChunkSize /\ heardTo \in 0 .. FullLength(recording) + ChunkSize
  /\ heard \in {"none", "ok", "bad_audio", "error"} /\ (heard = "none" <=> decoding # "done")

\* How far the chunks have come.
AudioPlace ==
  /\ (start = 0 /\ heardTo = 0) \/ heardTo = start + Overlap
  /\ decoding \in {"decode", "ffmpeg"} => start = 0 /\ heardTo = 0
  /\ decoding = "chunks" => FullLength(recording) > 0 /\ (heardTo = 0 \/ heardTo < FullLength(recording))
  /\ heard = "ok" => FullLength(recording) <= heardTo
  /\ ffmpeg => decoding = "ffmpeg"

\* The text so far is read off the recording.
TextIsRead == \E f : Reads(transcript, f, recording) /\ HeardUpTo(recording, f, start, heardTo)

AudioInv == AudioTypes /\ AudioPlace /\ TextIsRead

LEMMA AudioConstants ==
  /\ Audio!AudioAssumption /\ {MaxItems, ChunkSize, Overlap} \subseteq Nat
  /\ Overlap < ChunkSize /\ 2 * Overlap <= ChunkSize
BY RequestsAssumption DEF Audio!AudioAssumption

LEMMA RecordingsAre ==
  /\ Audio!BoundedSeq(Audio!Items, MaxItems) = BoundedSeq(Audio!Items, MaxItems)
  /\ \A r : r \in Audio!BoundedSeq(Audio!Items, MaxItems) <=> r \in Recordings /\ Len(r) <= MaxItems
<1>1. Audio!BoundedSeq(Audio!Items, MaxItems) = BoundedSeq(Audio!Items, MaxItems)
  BY DEF Audio!BoundedSeq, Audio!SeqOf, BoundedSeq, SeqOf
<1>2. MaxItems \in Nat BY AudioConstants
<1> QED BY <1>1, <1>2, BoundedIsSeq DEF Recordings

LEMMA LengthIs ==
  ASSUME NEW r \in Recordings
  PROVE  /\ FullLength(r) \in Nat /\ (FullLength(r) > 0 => Overlap > 0)
         /\ \A i \in 1 .. Len(r) : Finish(r, i) <= FullLength(r)
<1>1. Audio!AudioAssumption /\ Overlap \in Nat BY AudioConstants
<1>2. Len(r) \in Nat /\ \A i \in 1 .. Len(r) : r[i].length \in 1 .. Overlap BY <1>1, ItemsOf
<1>3. Audio!Ends(r) \in [0 .. Len(r) -> Nat] /\ Audio!Ends(r)[0] = 0 BY <1>1, EndsIs
<1>4. Len(r) \in 0 .. Len(r) BY <1>2
<1>5. FullLength(r) \in Nat BY <1>3, <1>4 DEF FullLength
<1>6. ASSUME FullLength(r) > 0 PROVE Overlap > 0
  <2>1. Len(r) # 0
    <3>1. ~(0 > 0) OBVIOUS
    <3> QED BY <1>3, <1>6, <3>1 DEF FullLength
  <2>2. 1 \in 1 .. Len(r) BY <1>2, <2>1
  <2>3. r[1].length \in 1 .. Overlap BY <1>2, <2>2
  <2> QED BY <1>1, <2>3
<1>7. ASSUME NEW i \in 1 .. Len(r) PROVE Finish(r, i) <= FullLength(r)
  <2>1. i \in 0 .. Len(r) /\ i <= Len(r) BY <1>2
  <2> QED BY <1>1, <1>4, <2>1, EndsRise DEF Finish, FullLength
<1> QED BY <1>5, <1>6, <1>7

LEMMA AudioStarts == Audio!Init => AudioInv
<1> SUFFICES ASSUME Audio!Init PROVE AudioInv OBVIOUS
<1>1. /\ recording \in Recordings /\ Len(recording) <= MaxItems
      /\ decoding = "decode" /\ ffmpeg = FALSE /\ start = 0 /\ heardTo = 0 /\ transcript = <<>> /\ heard = "none"
  BY RecordingsAre DEF Audio!Init
<1>2. FullLength(recording) \in Nat /\ ChunkSize \in Nat BY <1>1, LengthIs, AudioConstants
<1>3. 0 \in 0 .. FullLength(recording) + ChunkSize BY <1>2
<1>4. AudioTypes BY <1>1, <1>3 DEF AudioTypes
<1>5. AudioPlace BY <1>1 DEF AudioPlace
<1>6. TextIsRead
  <2>1. Reads(<<>>, <<>>, recording) /\ On(<<>>) = {} BY <1>1, EmptyReads
  <2>2. \A i \in 1 .. Len(recording) : ~(Finish(recording, i) <= 0)
    <3>1. ASSUME NEW i \in 1 .. Len(recording) PROVE ~(Finish(recording, i) <= 0)
      <4> DEFINE b == Begin(recording, i)
                 e == Finish(recording, i)
      <4>1. b \in Nat /\ e \in Nat /\ b < e BY <1>1, AudioConstants, ItemsLie
      <4> HIDE DEF b, e
      <4>2. ~(e <= 0) BY <4>1
      <4> QED BY <4>2 DEF e
    <3> QED BY <3>1
  <2>3. HeardUpTo(recording, <<>>, 0, 0) BY <2>1, <2>2 DEF HeardUpTo
  <2> QED BY <1>1, <2>1, <2>3 DEF TextIsRead
<1> QED BY <1>4, <1>5, <1>6 DEF AudioInv

\* When no cut word is taken for another, what is heard is of the recording as it is.
LEMMA NoneMisheard ==
  ASSUME Garbles = {}, recording \in Recordings, NEW cut, NEW items \in Audio!Misheard(cut)
  PROVE  items = recording
<1>1. PICK as : /\ \E some : as \in [some -> Garbles]
                /\ items = [i \in 1 .. Len(recording) |->
                     IF i \in DOMAIN as THEN [recording[i] EXCEPT !.word = as[i]] ELSE recording[i]]
  BY DEF Audio!Misheard
<1>2. DOMAIN as = {} BY <1>1
<1>3. items = [i \in 1 .. Len(recording) |-> recording[i]] BY <1>1, <1>2
<1>4. recording \in Seq(Audio!Items) BY DEF Recordings
<1> QED BY <1>3, <1>4

LEMMA ChunkKeeps ==
  ASSUME Garbles = {}, AudioInv, Audio!Chunk
  PROVE  AudioInv'
<1>1. /\ decoding = "chunks" /\ heardTo' = start + ChunkSize /\ start' = start + (ChunkSize - Overlap)
      /\ recording' = recording /\ ffmpeg' = ffmpeg
      /\ IF start + ChunkSize >= FullLength(recording) THEN decoding' = "done" /\ heard' = "ok"
         ELSE UNCHANGED <<decoding, heard>>
  BY DEF Audio!Chunk, Audio!NextStart, Audio!Step, Audio!LastChunk, Audio!Duration, Audio!EndOf, FullLength
<1>2. AudioTypes /\ AudioPlace BY DEF AudioInv
<1>3. /\ recording \in Recordings /\ start \in Nat /\ heardTo \in Nat
      /\ FullLength(recording) > 0 /\ (heardTo = 0 \/ heardTo < FullLength(recording))
  BY <1>1, <1>2, LengthIs, AudioConstants DEF AudioTypes, AudioPlace
<1>4. FullLength(recording) \in Nat /\ Overlap > 0 BY <1>3, LengthIs
<1>5. /\ ChunkSize \in Nat /\ Overlap \in Nat /\ Overlap < ChunkSize /\ 2 * Overlap <= ChunkSize
      /\ Audio!AudioAssumption
  BY AudioConstants
<1>6. (start = 0 /\ heardTo = 0) \/ heardTo = start + Overlap BY <1>2 DEF AudioPlace
<1> DEFINE w == FullLength(recording)
<1>7. w \in Nat /\ w > 0 /\ (heardTo = 0 \/ heardTo < w) BY <1>3, <1>4
<1>8. FullLength(recording') = w BY <1>1
<1> HIDE DEF w
<1>9. start < w BY <1>3, <1>4, <1>5, <1>6, <1>7
<1>10. start' \in 0 .. w + ChunkSize /\ heardTo' \in 0 .. w + ChunkSize /\ heardTo' = start' + Overlap
  BY <1>1, <1>3, <1>5, <1>7, <1>9
<1>11. IF heardTo' >= w THEN decoding' = "done" /\ heard' = "ok" ELSE UNCHANGED <<decoding, heard>>
  BY <1>1 DEF w
<1>12. AudioTypes' BY <1>1, <1>2, <1>8, <1>10, <1>11 DEF AudioTypes
<1>13. AudioPlace'
  <2>1. heard # "ok" /\ ~ffmpeg BY <1>1, <1>2 DEF AudioTypes, AudioPlace
  <2>2. heardTo' \in Nat /\ (heardTo' >= w => w <= heardTo') /\ (~(heardTo' >= w) => heardTo' < w)
    <3> DEFINE to == heardTo'
    <3>1. to \in 0 .. w + ChunkSize BY <1>10
    <3> HIDE DEF to
    <3>2. to \in Nat /\ (to >= w => w <= to) /\ (~(to >= w) => to < w) BY <1>5, <1>7, <3>1
    <3> QED BY <3>2 DEF to
  <2> QED BY <1>1, <1>7, <1>8, <1>10, <1>11, <2>1, <2>2 DEF AudioPlace
<1>14. TextIsRead'
  <2>1. PICK f : Reads(transcript, f, recording) /\ HeardUpTo(recording, f, start, heardTo)
    BY DEF AudioInv, TextIsRead
  <2> DEFINE inside == {i \in 1 .. Len(recording) : start <= Begin(recording, i)
                                                    /\ Finish(recording, i) <= start + ChunkSize}
             cut == {i \in 1 .. Len(recording) : Begin(recording, i) < start + ChunkSize
                                                 /\ start < Finish(recording, i)} \ inside
  <2>2. PICK more \in SUBSET cut :
          transcript' = Audio!MergeTranscript(transcript, Audio!WordsOf(recording, inside \cup more))
    <3>1. PICK items \in Audio!Misheard(cut), more \in SUBSET cut :
            transcript' = Audio!MergeTranscript(transcript, Audio!WordsOf(items, inside \cup more))
      <4> DEFINE Sound(items, more) == Audio!WordsOf(items, inside \cup more)
                 Hearings == Audio!Misheard(cut)
                 Some == SUBSET cut
      <4>1. PICK text \in Audio!HeardIn(start, start + ChunkSize) :
              transcript' = Audio!MergeTranscript(transcript, text)
        BY DEF Audio!Chunk
      <4>2. Audio!HeardIn(start, start + ChunkSize) = {Sound(items, more) : items \in Hearings, more \in Some}
        BY DEF Audio!HeardIn, Audio!StartOf, Audio!EndOf, Begin, Finish
      <4> HIDE DEF Sound, Hearings, Some
      <4>3. \E items \in Hearings, more \in Some : text = Sound(items, more)
        BY <4>1, <4>2
      <4> QED BY <4>1, <4>3, Zenon DEF Sound, Hearings, Some
    <3> HIDE DEF inside, cut
    <3>2. items = recording BY <1>3, <3>1, NoneMisheard
    <3> QED BY <3>1, <3>2
  <2> DEFINE set == inside \cup more
  <2>3. \A i \in 1 .. Len(recording) :
          start <= Begin(recording, i) /\ Finish(recording, i) <= start + ChunkSize => i \in set
    OBVIOUS
  <2>4. ASSUME NEW i \in 1 .. Len(recording), i \in set
        PROVE  start < Finish(recording, i) /\ Begin(recording, i) < start + ChunkSize
    <3>1. CASE i \in more
      <4>1. i \in cut BY <2>2, <3>1
      <4> QED BY <4>1
    <3>2. CASE i \in inside
      <4> DEFINE b == Begin(recording, i)
                 e == Finish(recording, i)
      <4>1. b \in Nat /\ e \in Nat /\ b < e BY <1>3, <1>5, ItemsLie
      <4>2. start <= b /\ e <= start + ChunkSize BY <3>2
      <4> HIDE DEF b, e
      <4>3. start < e /\ b < start + ChunkSize BY <1>3, <1>5, <4>1, <4>2
      <4> QED BY <4>3 DEF b, e
    <3> QED BY <2>4, <3>1, <3>2
  <2> HIDE DEF set, inside, cut
  <2>5. PICK h : /\ Reads(Audio!MergeTranscript(transcript, Audio!WordsOf(recording, set)), h, recording)
                 /\ HeardUpTo(recording, h, start + (ChunkSize - Overlap), start + ChunkSize)
    BY <1>3, <1>5, <1>6, <2>1, <2>3, <2>4, ChunkHeard
  <2>6. Reads(transcript', h, recording') /\ HeardUpTo(recording', h, start', heardTo')
    BY <1>1, <2>2, <2>5 DEF set
  <2> QED BY <2>6 DEF TextIsRead
<1> QED BY <1>12, <1>13, <1>14 DEF AudioInv

LEMMA AudioSteps ==
  ASSUME Garbles = {}
  PROVE  AudioInv /\ [Audio!Next]_(Audio!vars) => AudioInv'
<1> SUFFICES ASSUME AudioInv, [Audio!Next]_(Audio!vars) PROVE AudioInv' OBVIOUS
<1>1. ASSUME UNCHANGED <<recording, start, heardTo, transcript>>, AudioTypes', AudioPlace' PROVE AudioInv'
  <2>1. PICK f : Reads(transcript, f, recording) /\ HeardUpTo(recording, f, start, heardTo)
    BY DEF AudioInv, TextIsRead
  <2>2. Reads(transcript', f, recording') /\ HeardUpTo(recording', f, start', heardTo') BY <1>1, <2>1
  <2>3. TextIsRead' BY <2>2 DEF TextIsRead
  <2> QED BY <1>1, <2>3 DEF AudioInv
<1>2. AudioTypes /\ AudioPlace BY DEF AudioInv
<1>3. Audio!Duration = FullLength(recording) BY DEF Audio!Duration, Audio!EndOf, FullLength
<1>4. ASSUME UNCHANGED <<recording, start, heardTo, transcript>>, decoding \in {"decode", "ffmpeg"},
             ffmpeg' = FALSE, Audio!Decoded
      PROVE  AudioTypes' /\ AudioPlace'
  <2>1. start = 0 /\ heardTo = 0 /\ heard = "none" BY <1>2, <1>4 DEF AudioTypes, AudioPlace
  <2>2. CASE FullLength(recording) > 0 /\ decoding' = "chunks" /\ heard' = heard
    BY <1>2, <1>4, <2>1, <2>2 DEF AudioTypes, AudioPlace
  <2>3. CASE decoding' = "done" /\ heard' = "bad_audio"
    BY <1>2, <1>4, <2>1, <2>3 DEF AudioTypes, AudioPlace
  <2> QED BY <1>3, <1>4, <2>2, <2>3 DEF Audio!Decoded, Audio!End
<1>5. ASSUME decoding' = "done", heard' = "error", UNCHANGED <<recording, start, heardTo, transcript>>,
             ffmpeg' = FALSE
      PROVE  AudioInv'
  <2>1. AudioTypes' /\ AudioPlace' BY <1>2, <1>5 DEF AudioTypes, AudioPlace
  <2> QED BY <1>1, <1>5, <2>1
<1>6. CASE Audio!Decode
  <2>1. decoding = "decode" /\ ~ffmpeg BY <1>2, <1>6 DEF Audio!Decode, AudioPlace
  <2>2. UNCHANGED <<recording, start, heardTo, transcript>> BY <1>6 DEF Audio!Decode, Audio!Decoded, Audio!End
  <2>3. CASE Audio!Decoded /\ UNCHANGED ffmpeg
    <3>1. ffmpeg' = FALSE BY <1>2, <2>1, <2>3 DEF AudioTypes
    <3> QED BY <1>1, <1>4, <2>1, <2>2, <2>3, <3>1
  <2>4. CASE decoding' = "ffmpeg" /\ ffmpeg' = TRUE /\ UNCHANGED heard
    <3>1. AudioTypes' /\ AudioPlace' BY <1>2, <2>1, <2>2, <2>4 DEF AudioTypes, AudioPlace
    <3> QED BY <1>1, <2>2, <3>1
  <2> QED BY <1>6, <2>3, <2>4 DEF Audio!Decode
<1>7. CASE Audio!FfmpegEnds
  <2>1. decoding = "ffmpeg" /\ ffmpeg' = FALSE BY <1>7 DEF Audio!FfmpegEnds
  <2>2. UNCHANGED <<recording, start, heardTo, transcript>>
    BY <1>7 DEF Audio!FfmpegEnds, Audio!Decoded, Audio!End
  <2>3. CASE Audio!Decoded BY <1>1, <1>4, <2>1, <2>2, <2>3
  <2>4. CASE Audio!End("error") BY <1>5, <2>1, <2>2, <2>4 DEF Audio!End
  <2> QED BY <1>7, <2>3, <2>4 DEF Audio!FfmpegEnds
<1>8. CASE Audio!Chunk BY <1>8, ChunkKeeps
<1>9. CASE Audio!ChunkFails
  <2>1. ffmpeg' = FALSE BY <1>2, <1>9 DEF Audio!ChunkFails, AudioTypes, AudioPlace
  <2> QED BY <1>5, <1>9, <2>1 DEF Audio!ChunkFails, Audio!End
<1>10. CASE UNCHANGED Audio!vars
  <2>1. UNCHANGED <<recording, decoding, ffmpeg, start, heardTo, transcript, heard>>
    BY <1>10 DEF Audio!vars
  <2>2. AudioTypes' /\ AudioPlace' BY <1>2, <2>1 DEF AudioTypes, AudioPlace
  <2> QED BY <1>1, <2>1, <2>2
<1> QED BY <1>6, <1>7, <1>8, <1>9, <1>10 DEF Audio!Next

LEMMA SpokenIs ==
  ASSUME NEW r \in Recordings
  PROVE  \E g : /\ Reads(Audio!WordsOf(r, 1 .. Len(r)), g, r)
                /\ On(g) = {j \in 1 .. Len(r) : IsWord(r, j)}
<1>1. PICK g : /\ Reads(Audio!WordsOf(r, 1 .. Len(r)), g, r)
               /\ On(g) = {j \in 1 .. Len(r) : j \in 1 .. Len(r) /\ IsWord(r, j)}
  BY AudioConstants, WordsOfIs
<1>2. On(g) = {j \in 1 .. Len(r) : IsWord(r, j)} BY <1>1
<1> QED BY <1>1, <1>2

LEMMA AudioHolds ==
  AudioInv => /\ Audio!TypeOK /\ Audio!NothingAdded /\ Audio!WordsKept /\ Audio!ChunksAdvance /\ Audio!NoProcessLeft
<1> SUFFICES ASSUME AudioInv
             PROVE  /\ Audio!TypeOK /\ Audio!NothingAdded /\ Audio!WordsKept
                    /\ Audio!ChunksAdvance /\ Audio!NoProcessLeft
  OBVIOUS
<1> DEFINE r == recording
           spoken == Audio!WordsOf(r, 1 .. Len(r))
<1>1. AudioTypes /\ AudioPlace BY DEF AudioInv
<1>2. r \in Recordings BY <1>1 DEF AudioTypes
<1>3. PICK f : Reads(transcript, f, r) /\ HeardUpTo(r, f, start, heardTo) BY DEF AudioInv, TextIsRead
<1>4. PICK g : Reads(spoken, g, r) /\ On(g) = {j \in 1 .. Len(r) : IsWord(r, j)} BY <1>2, SpokenIs
<1>5. Audio!Spoken = spoken BY DEF Audio!Spoken
<1>6. Audio!Duration = FullLength(r) /\ FullLength(r) \in Nat BY <1>2, LengthIs DEF Audio!Duration, Audio!EndOf, FullLength
<1> HIDE DEF r, spoken
<1>7. /\ transcript \in Seq(Vocabulary) /\ spoken \in Seq(Vocabulary)
      /\ Len(transcript) = Len(f) /\ Len(spoken) = Len(g)
      /\ \A i \in 1 .. Len(f) : IsWord(r, f[i]) /\ transcript[i] = r[f[i]].word
      /\ \A i \in 1 .. Len(g) : IsWord(r, g[i]) /\ spoken[i] = r[g[i]].word
  BY <1>3, <1>4 DEF Reads
<1>8. Audio!TypeOK
  <2>1. r \in Audio!BoundedSeq(Audio!Items, MaxItems) BY <1>1, <1>2, RecordingsAre DEF AudioTypes, r
  <2>2. transcript \in Seq(Vocabulary \cup Garbles) BY <1>7
  <2> QED BY <1>1, <1>6, <2>1, <2>2 DEF AudioTypes, Audio!TypeOK, r
<1>9. Audio!NothingAdded
  <2> DEFINE n == Len(f)
             m == Len(g)
             F == [k \in 1 .. n |-> CHOOSE p \in 1 .. m : g[p] = f[k]]
  <2>1. ASSUME NEW k \in 1 .. n PROVE \E p \in 1 .. m : g[p] = f[k]
    <3>1. f[k] \in 1 .. Len(r) BY <1>2, <1>3, RisesTo
    <3>2. f[k] \in On(g) BY <1>4, <1>7, <3>1
    <3> QED BY <3>2 DEF On
  <2>2. \A k \in 1 .. n : F[k] \in 1 .. m /\ g[F[k]] = f[k] BY <2>1
  <2>3. F \in [1 .. n -> 1 .. m] BY <2>2
  <2> HIDE DEF F
  <2>4. ASSUME NEW i \in 1 .. n, NEW j \in 1 .. n, i < j PROVE F[i] < F[j]
    <3>1. f[i] < f[j] BY <1>3, <2>4 DEF Reads
    <3>2. g[F[i]] < g[F[j]] BY <2>2, <3>1
    <3>3. \A a, b \in 1 .. m : g[a] < g[b] => a < b BY <1>2, <1>4, RisesTo
    <3> QED BY <2>2, <3>2, <3>3
  <2>5. \A i \in 1 .. n : transcript[i] = spoken[F[i]] BY <1>7, <2>2
  <2>6. Len(transcript) = n /\ Len(spoken) = m BY <1>7
  <2> HIDE DEF n, m
  <2>7. \E e \in [1 .. n -> 1 .. m] : /\ \A i, j \in 1 .. n : i < j => e[i] < e[j]
                                      /\ \A i \in 1 .. n : transcript[i] = spoken[e[i]]
    BY <2>3, <2>4, <2>5
  <2> QED BY <1>5, <2>6, <2>7 DEF Audio!NothingAdded, Audio!Within
<1>10. Audio!WordsKept
  <2>1. SUFFICES ASSUME heard = "ok", NEW i \in DOMAIN spoken,
                        \A j \in DOMAIN spoken : spoken[j] = spoken[i] => j = i
                 PROVE  \E k \in DOMAIN transcript : transcript[k] = spoken[i]
    BY <1>5 DEF Audio!WordsKept
  <2>2. DOMAIN spoken = 1 .. Len(g) /\ DOMAIN transcript = 1 .. Len(f) BY <1>7
  <2>3. g[i] \in On(g) BY <2>1, <2>2 DEF On
  <2>4. g[i] \in 1 .. Len(r) /\ IsWord(r, g[i]) BY <1>4, <2>3
  <2>5. SaidOnce(r, g[i])
    <3>1. ASSUME NEW j \in 1 .. Len(r), IsWord(r, j), r[j].word = r[g[i]].word PROVE j = g[i]
      <4>1. j \in On(g) BY <1>4, <3>1
      <4>2. PICK p \in 1 .. Len(g) : g[p] = j BY <4>1 DEF On
      <4>3. spoken[p] = spoken[i] BY <1>7, <2>1, <2>2, <3>1, <4>2
      <4>4. p = i BY <2>1, <2>2, <4>3
      <4> QED BY <4>2, <4>4
    <3> QED BY <2>4, <3>1 DEF SaidOnce
  <2>6. Finish(r, g[i]) <= heardTo
    <3> DEFINE e == Finish(r, g[i])
               w == FullLength(r)
    <3>1. e \in Nat BY <1>2, <2>4, AudioConstants, ItemsLie
    <3>2. e <= w BY <1>2, <2>4, LengthIs
    <3>3. w <= heardTo BY <1>1, <2>1 DEF AudioPlace, r
    <3>4. w \in Nat /\ heardTo \in Nat BY <1>1, <1>6, AudioConstants DEF AudioTypes, r
    <3> HIDE DEF e, w
    <3>5. e <= heardTo BY <3>1, <3>2, <3>3, <3>4
    <3> QED BY <3>5 DEF e
  <2>7. g[i] \in On(f) BY <1>3, <2>4, <2>5, <2>6 DEF HeardUpTo
  <2>8. PICK k \in 1 .. Len(f) : f[k] = g[i] BY <2>7 DEF On
  <2>9. transcript[k] = spoken[i] BY <1>7, <2>1, <2>2, <2>8
  <2> QED BY <2>2, <2>9
<1>11. Audio!ChunksAdvance
  <2>1. SUFFICES ASSUME decoding = "chunks", heardTo > 0 PROVE start < heardTo /\ heardTo < FullLength(r)
    BY <1>6 DEF Audio!ChunksAdvance
  <2>2. /\ FullLength(r) > 0 /\ (heardTo = 0 \/ heardTo < FullLength(r)) /\ heardTo = start + Overlap
        /\ start \in Nat
    BY <1>1, <1>6, <2>1, AudioConstants DEF AudioPlace, AudioTypes, r
  <2>3. Overlap > 0 /\ Overlap \in Nat BY <1>2, <2>2, LengthIs, AudioConstants
  <2>4. start < start + Overlap BY <2>2, <2>3
  <2>5. heardTo # 0 BY <2>1
  <2> QED BY <2>2, <2>4, <2>5
<1>12. Audio!NoProcessLeft BY <1>1 DEF AudioTypes, AudioPlace, Audio!NoProcessLeft
<1> QED BY <1>8, <1>9, <1>10, <1>11, <1>12

\* A recorded order, for any recording and any chunks of which each overlap holds any item, when a cut
\* word is heard whole or not at all: no word is made up, doubled or moved, none that was said once is
\* lost where the chunks meet, each chunk goes on where the last one ended, and no ffmpeg is left
\* (transcribe.py:43-80).
THEOREM RecordingIsKept ==
  ASSUME Garbles = {}
  PROVE  Audio!Spec => []( Audio!TypeOK /\ Audio!NothingAdded /\ Audio!WordsKept
                           /\ Audio!ChunksAdvance /\ Audio!NoProcessLeft )
BY AudioStarts, AudioSteps, AudioHolds, PTL DEF Audio!Spec

-----------------------------------------------------------------------------
(* The place of an order. *)

LEMMA IntakeConstants ==
  /\ IsFiniteSet(Intake!States) /\ GovernorateOrder \in Seq(Intake!States) /\ MaxWords \in Nat \ {0}
  /\ None \notin Intake!States
  /\ \A d \in AllDistricts : d[2] \in Intake!States /\ [name |-> d[1], state |-> d[2]] # None
  /\ \A s \in Intake!States : Intake!StateOf(Governorates[s]) = s
  /\ "absent" \in CustomerNames /\ "absent" \in CustomerPhones
  /\ \A text \in Streets : Len(text) \in Nat
  /\ None \notin Intake!Planes /\ None \notin Intake!Messages
  /\ \A p \in Intake!Planes : Intake!ModelOrder(p) # None
<1>1. Intake!IntakeAssumption BY RequestsAssumption
<1>2. \A S : Intake!IsFiniteSet(S) <=> IsFiniteSet(S) BY DEF Intake!IsFiniteSet, IsFiniteSet
<1>3. ASSUME NEW text \in Streets PROVE Len(text) \in Nat
  <2>1. text \in Seq(Intake!Range(text)) BY <1>1 DEF Intake!IntakeAssumption
  <2> QED BY <2>1, LenProperties
<1> QED BY <1>1, <1>2, <1>3 DEF Intake!IntakeAssumption, Intake!LocationsAssumption, Intake!NamesApart

LEMMA LeastIs ==
  ASSUME NEW S \in SUBSET Nat, S # {}
  PROVE  Intake!Least(S) \in S /\ \A j \in S : Intake!Least(S) <= j
<1>1. \E i \in S : \A j \in S : i <= j BY LeastOf
<1> QED BY <1>1 DEF Intake!Least

LEMMA StateOfIs == \A key : Intake!StateOf(key) \in Intake!States \cup {None}
<1> TAKE key
<1> DEFINE places == {i \in 1 .. Len(GovernorateOrder) :
                        key \in Intake!PartsOf(Governorates[GovernorateOrder[i]])}
<1>1. CASE places = {} BY <1>1 DEF Intake!StateOf
<1>2. CASE places # {}
  <2>1. places \in SUBSET Nat OBVIOUS
  <2>2. Intake!Least(places) \in places BY <1>2, <2>1, LeastIs
  <2>3. Intake!Least(places) \in 1 .. Len(GovernorateOrder) BY <2>2
  <2>4. GovernorateOrder[Intake!Least(places)] \in Intake!States BY <2>3, IntakeConstants, ElementOfSeq
  <2>5. Intake!StateOf(key) = GovernorateOrder[Intake!Least(places)] BY <1>2 DEF Intake!StateOf
  <2> QED BY <2>4, <2>5
<1> QED BY <1>1, <1>2

LEMMA CanonicalIs ==
  /\ \A text : Intake!CanonicalState(text) \in Intake!Codes
  /\ \A s \in Intake!States : Intake!CanonicalState(Governorates[s]) = s
<1>1. ASSUME NEW text PROVE Intake!CanonicalState(text) \in Intake!Codes
  BY StateOfIs DEF Intake!CanonicalState, Intake!Codes
<1>2. ASSUME NEW s \in Intake!States PROVE Intake!CanonicalState(Governorates[s]) = s
  <2> DEFINE text == Governorates[s]
             v == Intake!Variants(text)
             exact == {i \in DOMAIN v : Intake!StateOf(v[i]) # None}
  <2>1. v[1] = text /\ 1 \in DOMAIN v /\ DOMAIN v \in SUBSET Nat /\ \A i \in DOMAIN v : 1 <= i
    BY DEF Intake!Variants
  <2>2. Intake!StateOf(text) = s /\ s # None BY IntakeConstants
  <2> HIDE DEF text, v
  <2>3. 1 \in exact /\ exact \in SUBSET Nat BY <2>1, <2>2
  <2>4. Intake!Least(exact) \in exact /\ Intake!Least(exact) <= 1 BY <2>3, LeastIs
  <2>5. Intake!Least(exact) = 1
    <3>1. Intake!Least(exact) \in Nat /\ 1 <= Intake!Least(exact) BY <2>1, <2>4
    <3> QED BY <2>4, <3>1
  <2>6. exact # {} BY <2>3
  <2>7. Intake!CanonicalState(text) = Intake!StateOf(v[Intake!Least(exact)]) BY <2>6 DEF Intake!CanonicalState, v
  <2> QED BY <2>1, <2>2, <2>5, <2>7 DEF text
<1> QED BY <1>1, <1>2

\* The name of a district that lies in one governorate only, with it.
OnlyPlace(d) == \E key : \E s \in Intake!States : d = [name |-> key, state |-> s] /\ Intake!StatesWith(key) = {s}

LEMMA OnlyOne ==
  ASSUME NEW key, Intake!Cardinality(Intake!StatesWith(key)) = 1
  PROVE  LET d == [name |-> key, state |-> CHOOSE s \in Intake!StatesWith(key) : TRUE] IN
         d # None /\ OnlyPlace(d)
<1> DEFINE S == Intake!StatesWith(key)
<1>1. S \in SUBSET Intake!States BY DEF Intake!StatesWith
<1>2. IsFiniteSet(S) BY <1>1, IntakeConstants, FS_Subset
<1>3. Intake!Cardinality(S) = Cardinality(S) BY DEF Intake!Cardinality, Cardinality
<1>4. PICK s : S = {s} BY <1>2, <1>3, FS_Singleton
<1>5. (CHOOSE x \in S : TRUE) = s BY <1>4
<1>6. s \in Intake!States /\ <<key, s>> \in AllDistricts BY <1>4 DEF Intake!StatesWith
<1> HIDE DEF S
<1>7. [name |-> key, state |-> s] # None
  <2>1. <<key, s>>[1] = key /\ <<key, s>>[2] = s OBVIOUS
  <2>2. [name |-> <<key, s>>[1], state |-> <<key, s>>[2]] # None BY <1>6, IntakeConstants
  <2> QED BY <2>1, <2>2
<1>8. OnlyPlace([name |-> key, state |-> s]) BY <1>4, <1>6 DEF OnlyPlace, S
<1> QED BY <1>5, <1>7, <1>8 DEF S

LEMMA DistrictIs ==
  ASSUME NEW text
  PROVE  /\ Intake!StateForDistrict(text) # None => OnlyPlace(Intake!StateForDistrict(text))
         /\ Intake!Cardinality(Intake!StatesWith(text)) = 1 => Intake!StateForDistrict(text) # None
<1> DEFINE key == IF Intake!StatesWith(text) = {} /\ text \in DOMAIN NearDistrict
                  THEN NearDistrict[text] ELSE text
           d == [name |-> key, state |-> CHOOSE s \in Intake!StatesWith(key) : TRUE]
<1>1. Intake!StateForDistrict(text) = IF Intake!Cardinality(Intake!StatesWith(key)) = 1 THEN d ELSE None
  BY DEF Intake!StateForDistrict
<1>2. Intake!Cardinality(Intake!StatesWith(text)) = 1 => key = text
  <2>1. Intake!Cardinality({}) = 0
    <3>1. Intake!Cardinality({}) = Cardinality({}) BY DEF Intake!Cardinality, Cardinality
    <3> QED BY <3>1, FS_EmptySet
  <2> QED BY <2>1
<1> HIDE DEF key
<1>3. Intake!Cardinality(Intake!StatesWith(key)) = 1 => d # None /\ OnlyPlace(d) BY OnlyOne
<1> QED BY <1>1, <1>2, <1>3

-----------------------------------------------------------------------------
(* The search of an address. *)

WindowsOf(n) == [fuzzy : BOOLEAN, from : 1 .. n, to : 1 .. n]

\* Some window is scanned before all others.
LEMMA FirstWindow ==
  ASSUME NEW n \in Nat, NEW open \in SUBSET WindowsOf(n), open # {}
  PROVE  \E w \in open : \A v \in open \ {w} : Intake!Before(w, v)
<1> DEFINE exact == {w \in open : ~w.fuzzy}
           first == IF exact # {} THEN exact ELSE open
           long == {n - (w.to - w.from) : w \in first}
<1>1. \A w \in open : /\ w.fuzzy \in BOOLEAN /\ w.from \in 1 .. n /\ w.to \in 1 .. n
                      /\ w = [fuzzy |-> w.fuzzy, from |-> w.from, to |-> w.to]
  BY DEF WindowsOf
<1>2. first # {} /\ first \subseteq open OBVIOUS
<1>3. \A w \in first, v \in open \ first : ~w.fuzzy /\ v.fuzzy OBVIOUS
<1>4. \A w, v \in first : w.fuzzy = v.fuzzy BY <1>1
<1> HIDE DEF first, exact
<1>5. \A w \in first : w.from \in 1 .. n /\ w.to \in 1 .. n BY <1>1, <1>2
<1>6. \A a, b \in 1 .. n : n - (b - a) \in Nat OBVIOUS
<1>7. \A w \in first : n - (w.to - w.from) \in Nat BY <1>5, <1>6
<1>8. long \in SUBSET Nat /\ long # {} BY <1>2, <1>7
<1>9. PICK m \in long : \A k \in long : m <= k BY <1>8, LeastOf
<1> DEFINE longest == {w \in first : n - (w.to - w.from) = m}
           starts == {w.from : w \in longest}
<1>10. longest # {} BY <1>9
<1>11. \A w \in longest : w.from \in Nat BY <1>5
<1>12. starts \in SUBSET Nat /\ starts # {} BY <1>10, <1>11
<1>13. PICK a \in starts : \A k \in starts : a <= k BY <1>12, LeastOf
<1>14. PICK w \in longest : w.from = a BY <1>13
<1>15. w \in open /\ w \in first BY <1>2, <1>14
<1>16. ASSUME NEW v \in open \ {w} PROVE Intake!Before(w, v)
  <2>1. CASE v \notin first
    <3>1. ~w.fuzzy /\ v.fuzzy BY <1>3, <1>15, <2>1
    <3>2. w.fuzzy # v.fuzzy BY <3>1
    <3> QED BY <3>1, <3>2 DEF Intake!Before
  <2>2. CASE v \in first
    <3>1. w.fuzzy = v.fuzzy BY <1>4, <1>15, <2>2
    <3>2. n - (w.to - w.from) = m /\ m <= n - (v.to - v.from) BY <1>9, <1>14, <2>2
    <3> DEFINE wf == w.from
               wt == w.to
               vf == v.from
               vt == v.to
    <3>3. wf \in 1 .. n /\ wt \in 1 .. n /\ vf \in 1 .. n /\ vt \in 1 .. n BY <1>5, <1>15, <2>2
    <3>4. n - (wt - wf) <= n - (vt - vf) BY <3>2
    <3> HIDE DEF wf, wt, vf, vt
    <3>5. wt - wf # vt - vf => wt - wf > vt - vf BY <3>3, <3>4
    <3>6. ASSUME wt - wf = vt - vf PROVE wf < vf
      <4>1. v \in longest BY <2>2, <3>2, <3>6 DEF wf, wt, vf, vt
      <4>2. wf <= vf BY <1>13, <1>14, <4>1 DEF wf, vf
      <4>3. wf # vf
        <5>1. SUFFICES ASSUME wf = vf PROVE FALSE OBVIOUS
        <5>2. wt = vt BY <3>3, <3>6, <5>1
        <5>3. v = w BY <1>1, <1>15, <3>1, <5>1, <5>2 DEF wf, wt, vf, vt
        <5> QED BY <1>16, <5>3
      <4> QED BY <3>3, <4>2, <4>3
    <3> QED BY <3>1, <3>5, <3>6 DEF Intake!Before, wf, wt, vf, vt
  <2> QED BY <2>1, <2>2
<1> QED BY <1>15, <1>16

\* The scan takes windows only.
LEMMA ScannedIs ==
  ASSUME NEW m \in Nat, NEW windows \in SUBSET WindowsOf(m), NEW n \in Nat
  PROVE  Intake!Scanned(windows, n) \in Seq(windows)
<1> DEFINE first(open) == CHOOSE w \in open : \A v \in open \ {w} : Intake!Before(w, v)
           left(taken) == {w \in windows : \A i \in 1 .. Len(taken) : Intake!Apart(w, taken[i])}
           After(taken) == IF left(taken) = {} THEN taken ELSE Append(taken, first(left(taken)))
           E(f) == f = [k \in 0 .. n |-> IF k = 0 THEN <<>> ELSE After(f[k - 1])]
           took == CHOOSE f : E(f)
           step == [k \in 1 .. n |-> [x \in Seq(windows) |-> After(x)]]
<1>1. Intake!Scanned(windows, n) = took[n] BY DEF Intake!Scanned
<1>2. ASSUME NEW x \in Seq(windows) PROVE After(x) \in Seq(windows)
  <2>1. CASE left(x) = {} BY <2>1
  <2>2. CASE left(x) # {}
    <3> DEFINE open == left(x)
    <3>1. open \in SUBSET windows /\ open \in SUBSET WindowsOf(m) OBVIOUS
    <3> HIDE DEF open
    <3>0. open # {} BY <2>2 DEF open
    <3>2. \E w \in open : \A v \in open \ {w} : Intake!Before(w, v) BY <3>0, <3>1, FirstWindow
    <3>3. first(open) \in open BY <3>2
    <3>4. first(open) \in windows BY <3>1, <3>3
    <3> HIDE DEF first
    <3>5. Append(x, first(open)) \in Seq(windows) BY <3>4, AppendProperties
    <3> QED BY <2>2, <3>5 DEF open
  <2> QED BY <2>1, <2>2
<1> HIDE DEF After
<1>3. step \in [1 .. n -> [Seq(windows) -> Seq(windows)]] BY <1>2
<1>4. PICK f \in [0 .. n -> Seq(windows)] : Iterated(f, n, <<>>, step)
  <2>1. <<>> \in Seq(windows) BY EmptySeq
  <2> HIDE DEF step
  <2> QED BY <1>3, <2>1, Iterates
<1>5. E(f)
  <2> DEFINE g == [k \in 0 .. n |-> IF k = 0 THEN <<>> ELSE After(f[k - 1])]
  <2>1. ASSUME NEW i \in 0 .. n PROVE f[i] = g[i]
    <3>1. CASE i = 0 BY <1>4, <3>1 DEF Iterated
    <3>2. CASE i # 0
      <4>1. i \in 1 .. n /\ i - 1 \in 0 .. n BY <3>2
      <4>2. f[i - 1] \in Seq(windows) BY <1>4, <4>1
      <4>3. f[i] = step[i][f[i - 1]] BY <1>4, <4>1 DEF Iterated
      <4>4. step[i][f[i - 1]] = After(f[i - 1]) BY <4>1, <4>2
      <4> QED BY <3>2, <4>3, <4>4
    <3> QED BY <3>1, <3>2
  <2>2. g = [i \in 0 .. n |-> g[i]] /\ f = [i \in 0 .. n |-> f[i]] BY <1>4
  <2> HIDE DEF g
  <2>3. f = g BY <2>1, <2>2
  <2> QED BY <2>3 DEF g
<1>6. E(took)
  <2> HIDE DEF E
  <2> QED BY <1>5
<1>7. \A k \in 0 .. n : took[k] = IF k = 0 THEN <<>> ELSE After(took[k - 1])
  <2> DEFINE g == [k \in 0 .. n |-> IF k = 0 THEN <<>> ELSE After(took[k - 1])]
  <2>1. \A k \in 0 .. n : g[k] = IF k = 0 THEN <<>> ELSE After(took[k - 1]) OBVIOUS
  <2>2. took = g BY <1>6
  <2> HIDE DEF g, took
  <2> QED BY <2>1, <2>2
<1> HIDE DEF took
<1>8. \A k \in 0 .. n : took[k] \in Seq(windows)
  <2> DEFINE bad == {k \in 0 .. n : took[k] \notin Seq(windows)}
  <2>1. SUFFICES ASSUME bad # {} PROVE FALSE OBVIOUS
  <2>2. bad \in SUBSET Nat OBVIOUS
  <2>3. PICK k \in bad : \A j \in bad : k <= j BY <2>1, <2>2, LeastOf
  <2>4. k \in 0 .. n /\ took[k] \notin Seq(windows) OBVIOUS
  <2>5. k # 0 BY <1>7, <2>4, EmptySeq
  <2>6. k - 1 \in 0 .. n /\ ~(k <= k - 1) BY <2>4, <2>5
  <2>7. took[k - 1] \in Seq(windows) BY <2>3, <2>6
  <2> QED BY <1>2, <1>7, <2>4, <2>5, <2>7
<1>9. n \in 0 .. n OBVIOUS
<1> QED BY <1>1, <1>8, <1>9

\* What a window written in full names, if it is no governorate, is a district with all of its governorates.
LEMMA HitIs ==
  ASSUME NEW text, NEW w, ~w.fuzzy, Intake!Hit(text, w) # None, Intake!Hit(text, w).district # None
  PROVE  Intake!Hit(text, w).in = Intake!StatesWith(Intake!Hit(text, w).district)
<1> DEFINE key == SubSeq(text, w.from, w.to)
           v == Intake!Variants(key)
           named(name) == IF Intake!StatesWith(name) # {} THEN Intake!DistrictHit(name)
                          ELSE IF Intake!StateOf(name) # None THEN Intake!StateHit(Intake!StateOf(name))
                          ELSE Intake!DistrictHit(name)
           known == {i \in DOMAIN v : named(v[i]).in # {}}
<1>1. Intake!Hit(text, w) = IF known = {} THEN None ELSE named(v[Intake!Least(known)])
  BY DEF Intake!Hit, Intake!MatchExact
<1>2. \A name : named(name) = Intake!DistrictHit(name) \/ named(name).district = None
  BY DEF Intake!StateHit
<1>3. \A name : Intake!DistrictHit(name).in = Intake!StatesWith(Intake!DistrictHit(name).district)
  BY DEF Intake!DistrictHit
<1> HIDE DEF named, known, v
<1> QED BY <1>1, <1>2, <1>3

LEMMA PlaceIs ==
  ASSUME NEW p \in Intake!Planes
  PROVE  /\ Intake!Place(p) # None => OnlyPlace(Intake!Place(p))
         /\ Intake!Cardinality(Intake!StatesWith(p.district)) = 1 => Intake!Place(p) # None
<1> DEFINE text == p.address
           took == Intake!Search(text, 3)
           hit(i) == Intake!Hit(text, took[i])
           known == {i \in DOMAIN took : /\ ~took[i].fuzzy /\ hit(i).district # None
                                         /\ Intake!Cardinality(hit(i).in) = 1}
           first == hit(Intake!Least(known))
           other == [name |-> first.district, state |-> CHOOSE s \in first.in : TRUE]
<1>1. Intake!Place(p) = IF Intake!StateForDistrict(p.district) # None THEN Intake!StateForDistrict(p.district)
                        ELSE IF p.district = <<>> /\ known # {} THEN other
                        ELSE None
  BY DEF Intake!Place
<1>2. ASSUME known # {} PROVE other # None /\ OnlyPlace(other)
  <2>1. Len(text) \in Nat
    <3>1. text \in Streets BY DEF Intake!Planes
    <3> QED BY <3>1, IntakeConstants
  <2>2. Intake!Windows(text) \in SUBSET WindowsOf(Len(text)) BY DEF Intake!Windows, WindowsOf
  <2> HIDE DEF text
  <2>3. took \in Seq(Intake!Windows(text)) BY <2>1, <2>2, ScannedIs DEF Intake!Search
  <2> HIDE DEF took
  <2>4. DOMAIN took = 1 .. Len(took) /\ \A i \in DOMAIN took : took[i] \in Intake!Windows(text)
    BY <2>3, LenProperties, ElementOfSeq
  <2>5. known \in SUBSET Nat BY <2>4
  <2> DEFINE i == Intake!Least(known)
  <2>6. i \in known BY <1>2, <2>5, LeastIs
  <2>7. i \in DOMAIN took /\ ~took[i].fuzzy /\ hit(i).district # None /\ Intake!Cardinality(hit(i).in) = 1
    BY <2>6
  <2>8. hit(i) # None BY <2>4, <2>7 DEF Intake!Windows
  <2> HIDE DEF known, i
  <2>9. hit(i).in = Intake!StatesWith(hit(i).district) BY <2>7, <2>8, HitIs
  <2> HIDE DEF hit
  <2>10. Intake!Cardinality(Intake!StatesWith(hit(i).district)) = 1 BY <2>7, <2>9
  <2>11. LET d == [name |-> hit(i).district,
                   state |-> CHOOSE s \in Intake!StatesWith(hit(i).district) : TRUE]
         IN  d # None /\ OnlyPlace(d)
    BY <2>10, OnlyOne
  <2> QED BY <2>9, <2>11 DEF i
<1> HIDE DEF known, other
<1>3. p.district = p.district OBVIOUS
<1> QED BY <1>1, <1>2, DistrictIs

\* The governorate, its code and the district of an order made of what the model read agree, and only a
\* district that lies in one governorate overrules the city.
LEMMA OrderAgrees ==
  ASSUME NEW p \in Intake!Planes, NEW o, o = Intake!ModelOrder(p)
  PROVE  /\ o.code # None => o.city = Governorates[o.code]
         /\ Intake!Cardinality(Intake!StatesWith(o.district)) = 1 => o.code \in Intake!StatesWith(o.district)
         /\ Intake!CanonicalState(p.city) \notin {None, o.code} => Intake!StatesWith(o.district) = {o.code}
         /\ o.code \in Intake!Codes /\ o.items \subseteq Intake!Items
         /\ o.phone \in CustomerPhones /\ o.name \in CustomerNames
<1> DEFINE q == Intake!CorrectLocation(p)
           c == Intake!CanonicalState(p.city)
<1>1. /\ o.code = Intake!CanonicalState(q.city) /\ o.city = q.city /\ o.district = q.district
      /\ o.items = q.items /\ o.phone = q.phone /\ o.name = q.name
  BY DEF Intake!ModelOrder, Intake!OrderOf
<1>2. q = IF Intake!Place(p) # None
          THEN [p EXCEPT !.city = Governorates[Intake!Place(p).state], !.district = Intake!Place(p).name]
          ELSE IF c # None THEN [p EXCEPT !.city = Governorates[c]]
          ELSE p
  BY DEF Intake!CorrectLocation
<1>3. /\ p = [name |-> p.name, phone |-> p.phone, city |-> p.city, district |-> p.district,
              address |-> p.address, items |-> p.items, price |-> p.price]
      /\ p.items \subseteq Intake!Items /\ p.phone \in CustomerPhones /\ p.name \in CustomerNames
  BY DEF Intake!Planes
<1>4. c \in Intake!Codes BY CanonicalIs
<1> HIDE DEF q, c
<1>5. q.items = p.items /\ q.phone = p.phone /\ q.name = p.name BY <1>2, <1>3
<1>6. o.code \in Intake!Codes BY <1>1, CanonicalIs
<1>7. CASE Intake!Place(p) # None
  <2>0. OnlyPlace(Intake!Place(p)) BY <1>7, PlaceIs
  <2>1. PICK key : \E s \in Intake!States : Intake!Place(p) = [name |-> key, state |-> s] /\ Intake!StatesWith(key) = {s}
    BY <2>0 DEF OnlyPlace
  <2>9. PICK s \in Intake!States : Intake!Place(p) = [name |-> key, state |-> s] /\ Intake!StatesWith(key) = {s}
    BY <2>1
  <2>2. q.city = Governorates[s] /\ q.district = key BY <1>2, <1>3, <1>7, <2>9
  <2>3. o.code = s BY <1>1, <2>2, CanonicalIs
  <2> QED BY <1>1, <1>3, <1>5, <1>6, <2>9, <2>2, <2>3
<1>8. CASE Intake!Place(p) = None
  <2>1. q.district = p.district BY <1>2, <1>3, <1>8
  <2>2. Intake!Cardinality(Intake!StatesWith(o.district)) # 1 BY <1>1, <1>8, <2>1, PlaceIs
  <2>3. CASE c # None
    <3>1. q.city = Governorates[c] BY <1>2, <1>3, <1>8, <2>3
    <3>2. o.code = c BY <1>1, <1>4, <2>3, <3>1, CanonicalIs DEF Intake!Codes
    <3> QED BY <1>1, <1>3, <1>5, <1>6, <2>2, <3>1, <3>2 DEF c
  <2>4. CASE c = None
    <3>1. q = p BY <1>2, <1>8, <2>4
    <3>2. o.code = None BY <1>1, <2>4, <3>1 DEF c
    <3> QED BY <1>1, <1>3, <1>5, <1>6, <2>2, <2>4, <3>2 DEF c
  <2> QED BY <2>3, <2>4
<1> QED BY <1>7, <1>8

-----------------------------------------------------------------------------
(* The requests. *)

Early == {"new", "hearing", "looking", "asking"}
ReplyCodes == {200, 400, 422, 500, 501, 502}

\* An order with a reading is made of it, one without is made of a text.
MadeOf(o, p) ==
  IF p # None THEN p \in Intake!Planes /\ o = Intake!ModelOrder(p)
  ELSE \E m \in Intake!Messages : \E ph \in {"absent", m.phone} : o = Intake!TextOrder(m, ph)

RequestIs(a, m, p, o, code, out) ==
  /\ m # None => m \in Intake!Messages
  /\ a \in Early => p = None /\ o = None /\ code = 0 /\ out = <<>>
  /\ a = "sending" => MadeOf(o, p) /\ p # None /\ Intake!Blockers(o) = {} /\ code = 0 /\ out = <<>>
  /\ a = "done" => /\ code \in ReplyCodes
                   /\ IF code = 200
                      THEN /\ MadeOf(o, p) /\ (m # None \/ p # None)
                           /\ out = IF Intake!Blockers(o) = {} THEN <<o>> ELSE <<>>
                      ELSE p = None /\ o = None /\ out = <<>>

IntakeInv ==
  /\ ready \in BOOLEAN /\ at \in [Requests -> Early \cup {"sending", "done"}]
  /\ said = [r \in Requests |-> said[r]] /\ plane = [r \in Requests |-> plane[r]]
  /\ draft = [r \in Requests |-> draft[r]] /\ status = [r \in Requests |-> status[r]]
  /\ sent = [r \in Requests |-> sent[r]]
  /\ \A r \in Requests : RequestIs(at[r], said[r], plane[r], draft[r], status[r], sent[r])

\* A step takes one request there.
Goes(r, a, m, p, o, code, out) ==
  /\ at' = [at EXCEPT ![r] = a] /\ said' = [said EXCEPT ![r] = m] /\ plane' = [plane EXCEPT ![r] = p]
  /\ draft' = [draft EXCEPT ![r] = o] /\ status' = [status EXCEPT ![r] = code]
  /\ sent' = [sent EXCEPT ![r] = out]

LEMMA SameSlot ==
  ASSUME NEW f, NEW r \in Requests, f = [s \in Requests |-> f[s]]
  PROVE  f = [f EXCEPT ![r] = f[r]]
<1> DEFINE g == [f EXCEPT ![r] = f[r]]
<1>1. g = [s \in Requests |-> g[s]] OBVIOUS
<1>2. \A s \in Requests : g[s] = f[s] OBVIOUS
<1> HIDE DEF g
<1>3. f = g BY <1>1, <1>2
<1> QED BY <1>3 DEF g

LEMMA NewSlot ==
  ASSUME NEW f, NEW g, NEW r \in Requests, NEW v, f = [s \in Requests |-> f[s]], g = [f EXCEPT ![r] = v]
  PROVE  g = [s \in Requests |-> g[s]] /\ g[r] = v /\ \A s \in Requests \ {r} : g[s] = f[s]
OBVIOUS

LEMMA Went ==
  ASSUME IntakeInv, NEW r \in Requests, NEW a \in Early \cup {"sending", "done"}, NEW m, NEW p, NEW o, NEW code, NEW out,
         RequestIs(a, m, p, o, code, out), Goes(r, a, m, p, o, code, out), ready' \in BOOLEAN
  PROVE  IntakeInv'
<1>1. at' \in [Requests -> Early \cup {"sending", "done"}] BY DEF IntakeInv, Goes
<1>2. at'[r] = a /\ \A s \in Requests \ {r} : at'[s] = at[s] BY DEF IntakeInv, Goes
<1>3. said' = [s \in Requests |-> said'[s]] /\ said'[r] = m /\ \A s \in Requests \ {r} : said'[s] = said[s]
  BY DEF IntakeInv, Goes
<1>4. plane' = [s \in Requests |-> plane'[s]] /\ plane'[r] = p /\ \A s \in Requests \ {r} : plane'[s] = plane[s]
  BY DEF IntakeInv, Goes
<1>5. draft' = [s \in Requests |-> draft'[s]] /\ draft'[r] = o /\ \A s \in Requests \ {r} : draft'[s] = draft[s]
  BY DEF IntakeInv, Goes
<1>6. /\ status' = [s \in Requests |-> status'[s]] /\ status'[r] = code
      /\ \A s \in Requests \ {r} : status'[s] = status[s]
  BY DEF IntakeInv, Goes
<1>7. sent' = [s \in Requests |-> sent'[s]] /\ sent'[r] = out /\ \A s \in Requests \ {r} : sent'[s] = sent[s]
  BY DEF IntakeInv, Goes
<1>8. ASSUME NEW s \in Requests PROVE RequestIs(at'[s], said'[s], plane'[s], draft'[s], status'[s], sent'[s])
  <2>1. CASE s = r BY <1>2, <1>3, <1>4, <1>5, <1>6, <1>7, <2>1
  <2>2. CASE s # r
    <3>1. RequestIs(at[s], said[s], plane[s], draft[s], status[s], sent[s]) BY DEF IntakeInv
    <3> QED BY <1>2, <1>3, <1>4, <1>5, <1>6, <1>7, <2>2, <3>1
  <2> QED BY <2>1, <2>2
<1> QED BY <1>1, <1>3, <1>4, <1>5, <1>6, <1>7, <1>8 DEF IntakeInv

\* An early request has no reading, order or reply.
LEMMA EarlyIs ==
  ASSUME IntakeInv, NEW r \in Requests, at[r] \in Early
  PROVE  /\ plane[r] = None /\ draft[r] = None /\ status[r] = 0 /\ sent[r] = <<>>
         /\ said[r] # None => said[r] \in Intake!Messages
         /\ plane = [plane EXCEPT ![r] = None] /\ draft = [draft EXCEPT ![r] = None]
         /\ status = [status EXCEPT ![r] = 0] /\ sent = [sent EXCEPT ![r] = <<>>]
         /\ said = [said EXCEPT ![r] = said[r]]
<1>1. RequestIs(at[r], said[r], plane[r], draft[r], status[r], sent[r]) BY DEF IntakeInv
<1>2. plane[r] = None /\ draft[r] = None /\ status[r] = 0 /\ sent[r] = <<>> BY <1>1 DEF RequestIs
<1>3. said[r] # None => said[r] \in Intake!Messages BY <1>1 DEF RequestIs
<1>4. /\ plane = [plane EXCEPT ![r] = plane[r]] /\ draft = [draft EXCEPT ![r] = draft[r]]
      /\ status = [status EXCEPT ![r] = status[r]] /\ sent = [sent EXCEPT ![r] = sent[r]]
      /\ said = [said EXCEPT ![r] = said[r]]
  BY SameSlot DEF IntakeInv
<1> QED BY <1>2, <1>3, <1>4

\* A request waits on, is answered without an order, or has an order: each keeps the invariant.
LEMMA AwaitKeeps ==
  ASSUME IntakeInv, NEW r \in Requests, at[r] \in Early, NEW what \in Early, NEW m, m # None => m \in Intake!Messages,
         Intake!Await(r, what), said' = [said EXCEPT ![r] = m], UNCHANGED <<ready, plane>>
  PROVE  IntakeInv'
<1>1. RequestIs(what, m, None, None, 0, <<>>) BY DEF RequestIs, Early
<1>2. Goes(r, what, m, None, None, 0, <<>>) BY EarlyIs DEF Goes, Intake!Await
<1>3. ready' \in BOOLEAN BY DEF IntakeInv
<1> QED BY <1>1, <1>2, <1>3, Went

LEMMA ReplyKeeps ==
  ASSUME IntakeInv, NEW r \in Requests, at[r] \in Early, NEW code \in ReplyCodes \ {200},
         Intake!Reply(r, code), UNCHANGED <<ready, said, plane>>
  PROVE  IntakeInv'
<1>1. RequestIs("done", said[r], None, None, code, <<>>) BY EarlyIs DEF RequestIs, Early, ReplyCodes
<1>2. Goes(r, "done", said[r], None, None, code, <<>>) BY EarlyIs DEF Goes, Intake!Reply
<1>3. ready' \in BOOLEAN BY DEF IntakeInv
<1> QED BY <1>1, <1>2, <1>3, Went

LEMMA ResolveKeeps ==
  ASSUME IntakeInv, NEW r \in Requests, at[r] \in Early, NEW m, NEW p, NEW o, m # None => m \in Intake!Messages,
         m # None \/ p # None, MadeOf(o, p), Intake!Blockers(o) = {} => p # None,
         Intake!Resolve(r, o), said' = [said EXCEPT ![r] = m], plane' = [plane EXCEPT ![r] = p], UNCHANGED ready
  PROVE  IntakeInv'
<1>1. ready' \in BOOLEAN BY DEF IntakeInv
<1>2. CASE Intake!Blockers(o) = {}
  <2>1. RequestIs("sending", m, p, o, 0, <<>>) BY <1>2 DEF RequestIs, Early
  <2>2. Goes(r, "sending", m, p, o, 0, <<>>) BY <1>2, EarlyIs DEF Goes, Intake!Resolve
  <2> QED BY <1>1, <2>1, <2>2, Went
<1>3. CASE Intake!Blockers(o) # {}
  <2>1. RequestIs("done", m, p, o, 200, <<>>) BY <1>3 DEF RequestIs, Early, ReplyCodes
  <2>2. Goes(r, "done", m, p, o, 200, <<>>) BY <1>3, EarlyIs DEF Goes, Intake!Resolve
  <2> QED BY <1>1, <2>1, <2>2, Went
<1> QED BY <1>2, <1>3

\* A text alone is never sent: it has no name.
LEMMA TextKeeps ==
  ASSUME IntakeInv, NEW r \in Requests, at[r] \in Early, NEW m \in Intake!Messages, NEW ph \in {"absent", m.phone},
         Intake!Resolve(r, Intake!TextOrder(m, ph)), said' = [said EXCEPT ![r] = m], UNCHANGED <<ready, plane>>
  PROVE  IntakeInv'
<1> DEFINE o == Intake!TextOrder(m, ph)
<1>1. m # None BY IntakeConstants
<1>2. "name" \in Intake!Blockers(o) BY DEF Intake!Blockers, Intake!TextOrder
<1>3. MadeOf(o, None) BY DEF MadeOf
<1>4. plane' = [plane EXCEPT ![r] = None] BY EarlyIs
<1> HIDE DEF o
<1> QED BY <1>1, <1>2, <1>3, <1>4, ResolveKeeps DEF o

LEMMA AskKeeps ==
  ASSUME IntakeInv, NEW r \in Requests, at[r] \in Early, NEW m \in Intake!Messages, Intake!Ask(r, m)
  PROVE  IntakeInv'
<1>1. said' = [said EXCEPT ![r] = m] /\ UNCHANGED <<ready, plane>> BY DEF Intake!Ask
<1>2. CASE ready
  <2>1. Intake!Await(r, "asking") BY <1>2 DEF Intake!Ask
  <2> QED BY <1>1, <2>1, AwaitKeeps DEF Early
<1>3. CASE ~ready
  <2>1. Intake!Resolve(r, Intake!TextOrder(m, "absent")) BY <1>3 DEF Intake!Ask
  <2> QED BY <1>1, <2>1, TextKeeps
<1> QED BY <1>2, <1>3

LEMMA IntakeStep ==
  ASSUME IntakeInv, NEW r \in Requests, Intake!Step(r)
  PROVE  IntakeInv'
<1>1. CASE Intake!Text(r)
  <2>1. PICK m \in Intake!Messages : Intake!Ask(r, m) BY <1>1 DEF Intake!Text
  <2>2. at[r] \in Early BY <1>1 DEF Intake!Text, Early
  <2> QED BY <2>1, <2>2, AskKeeps
<1>2. CASE Intake!Upload(r)
  <2>1. at[r] \in Early /\ UNCHANGED <<ready, said, plane>> BY <1>2 DEF Intake!Upload, Early
  <2>2. said' = [said EXCEPT ![r] = said[r]] /\ (said[r] # None => said[r] \in Intake!Messages) BY <2>1, EarlyIs
  <2>3. Intake!Await(r, "hearing") \/ Intake!Await(r, "looking") \/ Intake!Reply(r, 400) BY <1>2 DEF Intake!Upload
  <2>4. CASE Intake!Await(r, "hearing") BY <2>1, <2>2, <2>4, AwaitKeeps DEF Early
  <2>5. CASE Intake!Await(r, "looking") BY <2>1, <2>2, <2>5, AwaitKeeps DEF Early
  <2>6. CASE Intake!Reply(r, 400) BY <2>1, <2>6, ReplyKeeps DEF ReplyCodes
  <2> QED BY <2>3, <2>4, <2>5, <2>6
<1>3. CASE Intake!Heard(r)
  <2>1. at[r] \in Early BY <1>3 DEF Intake!Heard, Early
  <2>2. CASE \E m \in Intake!Messages : Intake!Ask(r, m) BY <2>1, <2>2, AskKeeps
  <2>3. CASE \E code \in {422, 500} : Intake!Reply(r, code) /\ UNCHANGED <<ready, said, plane>>
    <3>1. PICK code \in {422, 500} : Intake!Reply(r, code) /\ UNCHANGED <<ready, said, plane>> BY <2>3
    <3>2. code \in ReplyCodes \ {200} BY DEF ReplyCodes
    <3> QED BY <2>1, <3>1, <3>2, ReplyKeeps
  <2> QED BY <1>3, <2>2, <2>3 DEF Intake!Heard
<1>4. CASE Intake!Looked(r)
  <2>1. at[r] \in Early /\ UNCHANGED <<ready, said, plane>> BY <1>4 DEF Intake!Looked, Early
  <2>2. said' = [said EXCEPT ![r] = said[r]] /\ (said[r] # None => said[r] \in Intake!Messages) BY <2>1, EarlyIs
  <2>3. Intake!Await(r, "asking") \/ Intake!Reply(r, 500) \/ Intake!Reply(r, 501) BY <1>4 DEF Intake!Looked
  <2>4. CASE Intake!Await(r, "asking") BY <2>1, <2>2, <2>4, AwaitKeeps DEF Early
  <2>5. CASE Intake!Reply(r, 500) BY <2>1, <2>5, ReplyKeeps DEF ReplyCodes
  <2>6. CASE Intake!Reply(r, 501) BY <2>1, <2>6, ReplyKeeps DEF ReplyCodes
  <2> QED BY <2>3, <2>4, <2>5, <2>6
<1>5. CASE Intake!Extracted(r)
  <2>1. at[r] \in Early /\ UNCHANGED <<ready, said>> BY <1>5 DEF Intake!Extracted, Early
  <2>2. said' = [said EXCEPT ![r] = said[r]] /\ (said[r] # None => said[r] \in Intake!Messages) BY <2>1, EarlyIs
  <2>3. CASE Intake!Read(r)
    <3>1. PICK p \in Intake!Planes : plane' = [plane EXCEPT ![r] = p] /\ Intake!Resolve(r, Intake!ModelOrder(p))
      BY <2>3 DEF Intake!Read
    <3>2. p # None BY IntakeConstants
    <3>3. MadeOf(Intake!ModelOrder(p), p) BY <3>2 DEF MadeOf
    <3> QED BY <2>1, <2>2, <3>1, <3>2, <3>3, ResolveKeeps
  <2>4. CASE Intake!Unread(r) /\ UNCHANGED plane
    <3>1. CASE said[r] = None
      <4>1. Intake!Reply(r, 422) BY <2>4, <3>1 DEF Intake!Unread
      <4> QED BY <2>1, <2>4, <4>1, ReplyKeeps DEF ReplyCodes
    <3>2. CASE said[r] # None
      <4>1. Intake!Resolve(r, Intake!TextOrder(said[r], said[r].phone)) BY <2>4, <3>2 DEF Intake!Unread
      <4> QED BY <2>1, <2>2, <2>4, <3>2, <4>1, TextKeeps
    <3> QED BY <3>1, <3>2
  <2>5. CASE Intake!Reply(r, 502) /\ UNCHANGED plane BY <2>1, <2>5, ReplyKeeps DEF ReplyCodes
  <2> QED BY <1>5, <2>3, <2>4, <2>5 DEF Intake!Extracted
<1>6. CASE Intake!Submitted(r)
  <2>1. RequestIs(at[r], said[r], plane[r], draft[r], status[r], sent[r]) BY DEF IntakeInv
  <2>2. at[r] = "sending" BY <1>6 DEF Intake!Submitted
  <2>3. plane[r] # None /\ Intake!Blockers(draft[r]) = {} /\ sent[r] = <<>> BY <2>1, <2>2 DEF RequestIs
  <2>4. Append(sent[r], draft[r]) = <<draft[r]>> BY <2>3
  <2>5. RequestIs("done", said[r], plane[r], draft[r], 200, <<draft[r]>>)
    BY <2>1, <2>2, <2>3 DEF RequestIs, Early, ReplyCodes
  <2>6. /\ plane = [plane EXCEPT ![r] = plane[r]] /\ draft = [draft EXCEPT ![r] = draft[r]]
        /\ said = [said EXCEPT ![r] = said[r]]
    BY SameSlot DEF IntakeInv
  <2>7. sent' = [sent EXCEPT ![r] = Append(sent[r], draft[r])]
    BY <1>6 DEF Intake!Submitted
  <2>8. Goes(r, "done", said[r], plane[r], draft[r], 200, <<draft[r]>>)
    BY <1>6, <2>4, <2>6, <2>7 DEF Goes, Intake!Submitted
  <2>9. ready' \in BOOLEAN BY <1>6 DEF IntakeInv, Intake!Submitted
  <2> QED BY <2>5, <2>8, <2>9, Went
<1> QED BY <1>1, <1>2, <1>3, <1>4, <1>5, <1>6 DEF Intake!Step

LEMMA IntakeInductive == Intake!Spec => []IntakeInv
<1>1. ASSUME Intake!Init PROVE IntakeInv
  <2>1. ASSUME NEW r \in Requests PROVE RequestIs(at[r], said[r], plane[r], draft[r], status[r], sent[r])
    BY <1>1 DEF Intake!Init, RequestIs, Early
  <2> QED BY <1>1, <2>1 DEF Intake!Init, IntakeInv, Early
<1>2. ASSUME IntakeInv, [Intake!Next]_(Intake!vars) PROVE IntakeInv'
  <2>1. CASE Intake!ReadyFlips BY <1>2, <2>1 DEF IntakeInv, Intake!ReadyFlips, Intake!request
  <2>2. CASE \E r \in Requests : Intake!Step(r) BY <1>2, <2>2, IntakeStep
  <2>3. CASE UNCHANGED Intake!vars BY <1>2, <2>3 DEF IntakeInv, Intake!vars, Intake!request
  <2> QED BY <1>2, <2>1, <2>2, <2>3 DEF Intake!Next
<1> QED BY <1>1, <1>2, PTL DEF Intake!Spec

LEMMA IntakeServes ==
  ASSUME IntakeInv
  PROVE  /\ Intake!TypeOK /\ Intake!GuessNeverSent /\ Intake!ImageIsReadOrRefused /\ Intake!CompleteIsSentOnce
         /\ Intake!PlaceAgrees /\ Intake!CityOverruledByDistrictOnly
<1> DEFINE Is(r) == RequestIs(at[r], said[r], plane[r], draft[r], status[r], sent[r])
<1>1. \A r \in Requests : Is(r) /\ at[r] \in Early \cup {"sending", "done"} BY DEF IntakeInv
<1>2. ASSUME NEW r \in Requests
      PROVE  /\ draft[r] # None \/ plane[r] # None => MadeOf(draft[r], plane[r])
             /\ at[r] \in Early => status[r] = 0 /\ sent[r] = <<>>
             /\ at[r] = "sending" => status[r] = 0 /\ sent[r] = <<>> /\ plane[r] # None
             /\ at[r] = "done" => status[r] \in ReplyCodes
             /\ status[r] = 200 => /\ MadeOf(draft[r], plane[r]) /\ (said[r] # None \/ plane[r] # None)
                                   /\ sent[r] = IF Intake!Blockers(draft[r]) = {} THEN <<draft[r]>> ELSE <<>>
             /\ sent[r] # <<>> => status[r] = 200
  <2>1. CASE at[r] \in Early
    <3>1. draft[r] = None /\ plane[r] = None /\ status[r] = 0 /\ sent[r] = <<>> BY <1>1, <2>1 DEF RequestIs
    <3>2. at[r] # "sending" /\ at[r] # "done" BY <2>1 DEF Early
    <3> QED BY <3>1, <3>2
  <2>2. CASE at[r] = "sending"
    <3>1. MadeOf(draft[r], plane[r]) /\ plane[r] # None /\ status[r] = 0 /\ sent[r] = <<>> BY <1>1, <2>2 DEF RequestIs
    <3> QED BY <2>2, <3>1
  <2>3. CASE at[r] = "done"
    <3>1. status[r] \in ReplyCodes BY <1>1, <2>3 DEF RequestIs
    <3>2. at[r] \notin Early BY <2>3 DEF Early
    <3>3. CASE status[r] = 200
      <4>1. /\ MadeOf(draft[r], plane[r]) /\ (said[r] # None \/ plane[r] # None)
            /\ sent[r] = IF Intake!Blockers(draft[r]) = {} THEN <<draft[r]>> ELSE <<>>
        BY <1>1, <2>3, <3>3 DEF RequestIs
      <4> QED BY <2>3, <3>1, <3>2, <3>3, <4>1
    <3>4. CASE status[r] # 200
      <4>1. draft[r] = None /\ plane[r] = None /\ sent[r] = <<>> BY <1>1, <2>3, <3>4 DEF RequestIs
      <4> QED BY <2>3, <3>1, <3>2, <3>4, <4>1
    <3> QED BY <3>3, <3>4
  <2> QED BY <1>1, <2>1, <2>2, <2>3
<1>3. ASSUME NEW r \in Requests, plane[r] # None
      PROVE  plane[r] \in Intake!Planes /\ draft[r] = Intake!ModelOrder(plane[r]) /\ draft[r] # None
  <2>1. plane[r] \in Intake!Planes /\ draft[r] = Intake!ModelOrder(plane[r]) BY <1>2, <1>3 DEF MadeOf
  <2> QED BY <2>1, IntakeConstants
<1>4. Intake!TypeOK
  <2>1. ASSUME NEW r \in Requests, draft[r] # None
        PROVE  /\ draft[r].items \subseteq Intake!Items /\ draft[r].code \in Intake!Codes
               /\ draft[r].phone \in CustomerPhones /\ draft[r].name \in CustomerNames
    <3>1. CASE plane[r] # None BY <1>3, <3>1, OrderAgrees
    <3>2. CASE plane[r] = None
      <4>1. PICK m \in Intake!Messages : \E ph \in {"absent", m.phone} : draft[r] = Intake!TextOrder(m, ph)
        BY <1>2, <2>1, <3>2 DEF MadeOf
      <4>2. PICK ph \in {"absent", m.phone} : draft[r] = Intake!TextOrder(m, ph) BY <4>1
      <4>3. m.item \in Intake!Items /\ m.phone \in CustomerPhones BY DEF Intake!Messages
      <4>4. ph \in CustomerPhones BY <4>3, IntakeConstants
      <4> QED BY <4>2, <4>3, <4>4, IntakeConstants DEF Intake!TextOrder, Intake!Codes
    <3> QED BY <3>1, <3>2
  <2>2. ASSUME NEW r \in Requests
        PROVE  /\ said[r] # None => said[r] \in Intake!Messages
               /\ plane[r] # None => plane[r] \in Intake!Planes
               /\ status[r] \in {0, 200, 400, 422, 500, 501, 502}
               /\ (status[r] # 0) = (at[r] = "done") /\ (at[r] = "sending" => draft[r] # None)
    <3>1. at[r] = "sending" => draft[r] # None BY <1>2, <1>3
    <3>2. said[r] # None => said[r] \in Intake!Messages BY <1>1 DEF RequestIs
    <3>3. plane[r] # None => plane[r] \in Intake!Planes BY <1>3
    <3>4. CASE at[r] = "done"
      <4>1. status[r] \in ReplyCodes BY <1>2, <3>4
      <4>2. status[r] # 0 /\ status[r] \in {0, 200, 400, 422, 500, 501, 502} BY <4>1 DEF ReplyCodes
      <4> QED BY <3>1, <3>2, <3>3, <3>4, <4>2
    <3>5. CASE at[r] # "done"
      <4>1. status[r] = 0 BY <1>1, <1>2, <3>5
      <4> QED BY <3>1, <3>2, <3>3, <3>5, <4>1
    <3> QED BY <3>4, <3>5
  <2> QED BY <2>1, <2>2 DEF IntakeInv, Intake!TypeOK, Early
<1>5. Intake!GuessNeverSent
  <2>1. SUFFICES ASSUME NEW r \in Requests, sent[r] # <<>>, plane[r] = None PROVE FALSE
    BY DEF Intake!GuessNeverSent
  <2>2. MadeOf(draft[r], plane[r]) /\ Intake!Blockers(draft[r]) = {} BY <1>2, <2>1
  <2>3. PICK m \in Intake!Messages : \E ph \in {"absent", m.phone} : draft[r] = Intake!TextOrder(m, ph)
    BY <2>1, <2>2 DEF MadeOf
  <2>4. draft[r].name = "absent" BY <2>3 DEF Intake!TextOrder
  <2>5. "name" \in Intake!Blockers(draft[r]) BY <2>4 DEF Intake!Blockers
  <2> QED BY <2>2, <2>5
<1>6. Intake!ImageIsReadOrRefused BY <1>2 DEF Intake!ImageIsReadOrRefused
<1>7. Intake!CompleteIsSentOnce
  <2>1. SUFFICES ASSUME NEW r \in Requests, status[r] = 200
                 PROVE  LET o == draft[r]
                            complete == /\ o.name # "absent" /\ o.phone = "good" /\ "product" \in o.items
                                        /\ \E place \in {o.city, o.district, o.address} : place # <<>>
                        IN  sent[r] = IF complete THEN <<o>> ELSE <<>>
    BY DEF Intake!CompleteIsSentOnce
  <2>2. sent[r] = IF Intake!Blockers(draft[r]) = {} THEN <<draft[r]>> ELSE <<>> BY <1>2, <2>1
  <2> DEFINE o == draft[r]
             complete == /\ o.name # "absent" /\ o.phone = "good" /\ "product" \in o.items
                         /\ \E place \in {o.city, o.district, o.address} : place # <<>>
  <2>3. complete <=> Intake!Blockers(o) = {}
    <3>1. complete <=> /\ o.name # "absent" /\ o.phone = "good" /\ "product" \in o.items
                       /\ ~(o.city = <<>> /\ o.district = <<>> /\ o.address = <<>>)
      OBVIOUS
    <3> HIDE DEF complete, o
    <3>2. /\ "phone" \in Intake!Blockers(o) <=> o.phone # "good"
          /\ "name" \in Intake!Blockers(o) <=> o.name = "absent"
          /\ "location" \in Intake!Blockers(o) <=> o.city = <<>> /\ o.district = <<>> /\ o.address = <<>>
          /\ "items" \in Intake!Blockers(o) <=> "product" \notin o.items
          /\ Intake!Blockers(o) \subseteq {"phone", "name", "location", "items"}
      BY DEF Intake!Blockers
    <3> QED BY <3>1, <3>2
  <2> QED BY <2>2, <2>3
<1>8. ASSUME NEW r \in Requests, Intake!Placed(r)
      PROVE  LET o == draft[r] IN
             /\ o.code # None => o.city = Governorates[o.code]
             /\ Intake!Cardinality(Intake!StatesWith(o.district)) = 1 => o.code \in Intake!StatesWith(o.district)
             /\ Intake!CanonicalState(plane[r].city) \notin {None, o.code} => Intake!StatesWith(o.district) = {o.code}
  <2>1. plane[r] # None BY <1>8 DEF Intake!Placed
  <2> QED BY <1>3, <2>1, OrderAgrees
<1>9. Intake!PlaceAgrees BY <1>8 DEF Intake!PlaceAgrees
<1>10. Intake!CityOverruledByDistrictOnly BY <1>8 DEF Intake!CityOverruledByDistrictOnly
<1> QED BY <1>4, <1>5, <1>6, <1>7, <1>9, <1>10

-----------------------------------------------------------------------------
(* All parts. *)

\* A request for an order: its reply, what was posted for it and its place are as the customer's message
\* says, whatever becomes of the model meanwhile (service.py:45-131, extraction.py:19-56).
THEOREM OrdersAreSound ==
  Intake!Spec => []( Intake!TypeOK /\ Intake!GuessNeverSent /\ Intake!ImageIsReadOrRefused
                     /\ Intake!CompleteIsSentOnce /\ Intake!PlaceAgrees /\ Intake!CityOverruledByDistrictOnly )
BY IntakeInductive, IntakeServes, PTL

\* An order is what the customer said, by text, image or voice, when a cut word is heard whole or not at
\* all (service.py:45-131, extraction.py:19-56, transcribe.py:43-80).
THEOREM OrderStaysWhatWasSaid ==
  ASSUME Garbles = {}
  PROVE  Together => []OrderIsWhatWasSaid
<1>1. /\ Intake!GuessNeverSent /\ Intake!ImageIsReadOrRefused /\ Intake!CompleteIsSentOnce
      /\ Intake!PlaceAgrees /\ Intake!CityOverruledByDistrictOnly
      /\ Audio!NothingAdded /\ Audio!WordsKept /\ Audio!ChunksAdvance /\ Audio!NoProcessLeft
      => OrderIsWhatWasSaid
  BY DEF OrderIsWhatWasSaid
<1> QED BY OrdersAreSound, RecordingIsKept, <1>1, PTL DEF Together

LEMMA ImportIsTyped ==
  ASSUME ImportInv
  PROVE  Import!TypeOK
<1>1. ASSUME NEW p \in Import!Importers
      PROVE  /\ imp[p].pc \in Import!Stages /\ imp[p].file \in Import!Inodes \cup {None}
             /\ imp[p].left \subseteq imp[p].pairs /\ imp[p].pairs \subseteq Companies
             /\ imp[p].file # None => imp[p].pc \in {"build", "commit"}
             /\ p = Cli => imp[p].pc \notin {"load", "up"}
  BY DEF ImportInv, ImportTypes, Imports, NamesApart, NamesOf
<1>2. ASSUME NEW i \in Import!Inodes PROVE store[i].newer \subseteq Import!Files /\ store[i].blind \in BOOLEAN
  BY DEF ImportInv, ImportTypes
<1>3. {db, dbTmp} \subseteq Import!Inodes \cup {None} /\ (db # None => db # dbTmp)
  BY DEF ImportInv, ImportTypes, NamesApart
<1> QED BY <1>1, <1>2, <1>3 DEF ImportInv, ImportTypes, ServedRight, Import!TypeOK

\* Type correctness of all parts, when one importer at a time builds the database, and a cut word is
\* heard whole or not at all.
THEOREM AllKeepTheirTypes ==
  ASSUME Alone, Garbles = {}
  PROVE  Together => []TypesHold
<1>1. Import!Spec => []ImportInv BY ImportCorrect
<1>2. ImportInv => Import!TypeOK BY ImportIsTyped
<1>3. FilesInv /\ ToolsInv /\ OperatorInv /\ ChatInv
      => Files!TypeOK /\ Tools!TypeOK /\ Operator!TypeOK /\ Chat!TypeOK
  BY DEF FilesInv, ToolsInv, OperatorInv, ChatInv
<1>4. /\ TypeOK /\ Files!TypeOK /\ Import!TypeOK /\ Intake!TypeOK /\ Audio!TypeOK /\ Tools!TypeOK
      /\ Operator!TypeOK /\ Chat!TypeOK
      => TypesHold
  BY DEF TypesHold
<1> QED BY <1>1, <1>2, <1>3, <1>4, TypeCorrect, FilesCorrect, OrdersAreSound, RecordingIsKept,
           ToolsAreSound, OperatorIsSound, ChatIsSound, PTL DEF Together
=============================================================================
