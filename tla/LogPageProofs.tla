----------------------------- MODULE LogPageProofs -----------------------------
(***************************************************************************)
(* The log in the browser, for any texts, any lengths of what is compared, *)
(* fetched and kept, and any bounds.                                       *)
(*                                                                         *)
(* The argument: a merge ends as the answer does as far as it looks back   *)
(* (MergedEnds), and a fresh answer ends as the log does.  Every line of   *)
(* the page is one of the log, and an answer is a stretch of it (PageInv); *)
(* so if the texts compared occur once, the match is the very lines that   *)
(* the page ends with (MergedStretch).                                     *)
(***************************************************************************)
EXTENDS LogPage, DataLemmas

\* The last n elements of p and q, from the end, have the same texts.
AlikeAtEnd(p, q, n) ==
    \A j \in 0..(n - 1) : Texts[p[Len(p) - j].n] = Texts[q[Len(q) - j].n]

\* The lines from i on have the texts of the block.
SameTexts(lines, i, block) ==
    \A k \in 1..Len(block) : Texts[lines[i + k - 1].n] = Texts[block[k].n]

\* The lines of all logs carry their numbers.
Numbered(all) == \A i \in 1..Len(all) : all[i].n = i

-----------------------------------------------------------------------------
(* Ends of sequences.                                                      *)

LEMMA LastLinesAre ==
  ASSUME NEW S, NEW q \in Seq(S), NEW n \in Nat
  PROVE  /\ LastLines(q, n) \in Seq(S)
         /\ Len(LastLines(q, n)) = Least(n, Len(q))
         /\ \A i \in 1..Least(n, Len(q)) :
                LastLines(q, n)[i] = q[Len(q) - Least(n, Len(q)) + i]
         /\ \A j \in 0..(Least(n, Len(q)) - 1) :
                LastLines(q, n)[Least(n, Len(q)) - j] = q[Len(q) - j]
<1> DEFINE l == Len(q)
<1> DEFINE m == l - n + 1
<1> DEFINE s == SubSeq(q, m, l)
<1> DEFINE k == Least(n, l)
<1>1. l \in Nat
  BY LenProperties
<1>2. CASE ~ (l > n)
  <2>1. LastLines(q, n) = q /\ k = l
    BY <1>1, <1>2 DEF LastLines, Least
  <2>2. /\ \A i \in 1..l : l - l + i = i
        /\ \A j \in 0..(l - 1) : l - j = l - j
    BY <1>1
  <2> HIDE DEF k, l
  <2>3. /\ \A i \in 1..k : LastLines(q, n)[i] = q[l - k + i]
        /\ \A j \in 0..(k - 1) : LastLines(q, n)[k - j] = q[l - j]
    BY <2>1, <2>2
  <2> QED
    BY <2>1, <2>3 DEF l, k
<1>3. CASE l > n
  <2>1. k = n /\ LastLines(q, n) = s
    BY <1>1, <1>3 DEF LastLines, Least
  <2>2. m \in Int /\ l \in Int /\ l - m + 1 = n /\ (m <= l \/ n = 0)
        /\ \A i \in m..l : i \in 1..l
    BY <1>1, <1>3
  <2>3. \A i \in m..l : q[i] \in S
    BY <2>2, ElementOfSeq
  <2> HIDE DEF m
  <2>4. /\ s \in Seq(S) /\ Len(s) = IF m <= l THEN l - m + 1 ELSE 0
        /\ \A i \in 1..(l - m + 1) : s[i] = q[m + i - 1]
    BY <2>2, <2>3, SubSeqProperties
  <2> HIDE DEF s
  <2>5. Len(s) = n
    BY <2>2, <2>4
  <2>6. \A i \in 1..n : s[i] = q[l - n + i]
    <3>1. \A i \in 1..n : m + i - 1 = l - n + i
      BY <1>1 DEF m
    <3> QED
      BY <2>2, <2>4, <3>1
  <2>7. \A j \in 0..(n - 1) : s[n - j] = q[l - j]
    <3>1. \A j \in 0..(n - 1) : n - j \in 1..n /\ l - n + (n - j) = l - j
      BY <1>1
    <3> QED
      BY <2>6, <3>1
  <2> HIDE DEF l, k
  <2>8. /\ LastLines(q, n) \in Seq(S) /\ Len(LastLines(q, n)) = k
        /\ \A i \in 1..k : LastLines(q, n)[i] = q[l - k + i]
        /\ \A j \in 0..(k - 1) : LastLines(q, n)[k - j] = q[l - j]
    BY <2>1, <2>4, <2>5, <2>6, <2>7
  <2> QED
    BY <2>8 DEF l, k
<1> QED
  BY <1>2, <1>3

\* Sequences that are alike at their ends have the same texts there.
LEMMA TextsOfEnds ==
  ASSUME NEW p \in Seq(Line), NEW q \in Seq(Line), NEW n \in Nat,
         n <= Len(p), n <= Len(q), AlikeAtEnd(p, q, n)
  PROVE  TextOf(LastLines(p, n)) = TextOf(LastLines(q, n))
<1>1. Len(p) \in Nat /\ Len(q) \in Nat /\ Least(n, Len(p)) = n /\ Least(n, Len(q)) = n
  BY LenProperties DEF Least
<1> DEFINE a == LastLines(p, n)
<1> DEFINE b == LastLines(q, n)
<1>2. /\ a \in Seq(Line) /\ Len(a) = n /\ \A j \in 0..(n - 1) : a[n - j] = p[Len(p) - j]
      /\ b \in Seq(Line) /\ Len(b) = n /\ \A j \in 0..(n - 1) : b[n - j] = q[Len(q) - j]
  <2>1. \A r \in Seq(Line) : Least(n, Len(r)) = n =>
             /\ LastLines(r, n) \in Seq(Line) /\ Len(LastLines(r, n)) = n
             /\ \A j \in 0..(n - 1) : LastLines(r, n)[n - j] = r[Len(r) - j]
    <3> SUFFICES ASSUME NEW r \in Seq(Line), Least(n, Len(r)) = n
                 PROVE  /\ LastLines(r, n) \in Seq(Line) /\ Len(LastLines(r, n)) = n
                        /\ \A j \in 0..(n - 1) : LastLines(r, n)[n - j] = r[Len(r) - j]
      OBVIOUS
    <3>1. /\ LastLines(r, n) \in Seq(Line) /\ Len(LastLines(r, n)) = Least(n, Len(r))
          /\ \A j \in 0..(Least(n, Len(r)) - 1) :
                 LastLines(r, n)[Least(n, Len(r)) - j] = r[Len(r) - j]
      BY LastLinesAre
    <3> QED
      BY <3>1, Zenon
  <2> QED
    BY <1>1, <2>1, Zenon
<1>3. DOMAIN a = 1..n /\ DOMAIN b = 1..n
  BY <1>2, LenProperties
<1> HIDE DEF a, b
<1>4. \A i \in 1..n : Texts[a[i].n] = Texts[b[i].n]
  <2> SUFFICES ASSUME NEW i \in 1..n PROVE Texts[a[i].n] = Texts[b[i].n]
    OBVIOUS
  <2>1. PICK j \in 0..(n - 1) : n - j = i
    <3>1. n - i \in 0..(n - 1) /\ n - (n - i) = i
      OBVIOUS
    <3> QED
      BY <3>1
  <2>2. a[i] = p[Len(p) - j] /\ b[i] = q[Len(q) - j]
    BY <1>2, <2>1
  <2> QED
    BY <2>2 DEF AlikeAtEnd
<1> QED
  BY <1>3, <1>4 DEF TextOf, a, b

\* Being alike at the end passes on, and passes to shorter ends.
LEMMA AlikePassesOn ==
  ASSUME NEW p, NEW q, NEW r, NEW n \in Nat, NEW m \in Nat, NEW k \in Nat,
         AlikeAtEnd(p, q, m), AlikeAtEnd(q, r, k), n <= m, n <= k
  PROVE  AlikeAtEnd(p, r, n)
<1>1. \A j \in 0..(n - 1) : j \in 0..(m - 1) /\ j \in 0..(k - 1)
  OBVIOUS
<1> QED
  BY <1>1, Zenon DEF AlikeAtEnd

LEMMA LastLinesAlike ==
  ASSUME NEW q \in Seq(Line), NEW n \in Nat
  PROVE  AlikeAtEnd(LastLines(q, n), q, Least(n, Len(q)))
<1>1. /\ Len(LastLines(q, n)) = Least(n, Len(q))
      /\ \A j \in 0..(Least(n, Len(q)) - 1) :
             LastLines(q, n)[Least(n, Len(q)) - j] = q[Len(q) - j]
  BY LastLinesAre
<1> QED
  BY <1>1, Zenon DEF AlikeAtEnd

-----------------------------------------------------------------------------
(* mergeInitialLogs.                                                       *)

\* What the block and the place of a match have to do with each other.
LEMMA OverlapIs ==
  ASSUME NEW local \in Seq(Line), NEW lines \in Seq(Line)
  PROVE  /\ Overlap(local, lines) \in Nat
         /\ Overlap(local, lines) <= OverlapMax
         /\ Overlap(local, lines) <= Len(local) /\ Overlap(local, lines) <= Len(lines)
         /\ Overlap(local, lines) \in {OverlapMax, Len(local), Len(lines)}
         /\ Len(LastLines(local, Overlap(local, lines))) = Overlap(local, lines)
<1>1. /\ OverlapMax \in Nat /\ Len(local) \in Nat /\ Len(lines) \in Nat
  BY LenProperties, PageAssumption
<1>2. /\ Overlap(local, lines) \in Nat
      /\ Overlap(local, lines) <= OverlapMax
      /\ Overlap(local, lines) <= Len(local) /\ Overlap(local, lines) <= Len(lines)
      /\ Overlap(local, lines) \in {OverlapMax, Len(local), Len(lines)}
  BY <1>1 DEF Overlap, Least
<1>3. Least(Overlap(local, lines), Len(local)) = Overlap(local, lines)
  BY <1>1, <1>2 DEF Least
<1> QED
  BY <1>2, <1>3, LastLinesAre

\* The lines of a match have the texts of the block.
LEMMA MatchedTexts ==
  ASSUME NEW block \in Seq(Line), NEW lines \in Seq(Line), NEW i \in Matches(block, lines)
  PROVE  /\ i \in 1..(Len(lines) - Len(block) + 1)
         /\ \A k \in 1..Len(block) : Texts[lines[i + k - 1].n] = Texts[block[k].n]
<1> DEFINE l == Len(block)
<1> DEFINE s == SubSeq(lines, i, i + l - 1)
<1>1. /\ l \in Nat /\ Len(lines) \in Nat /\ DOMAIN block = 1..l
      /\ i \in 1..(Len(lines) - l + 1) /\ TextOf(s) = TextOf(block)
  BY LenProperties DEF Matches
<1> HIDE DEF l
<1>2. /\ i \in Int /\ i + l - 1 \in Int /\ (i + l - 1) - i + 1 = l
      /\ \A k \in i..(i + l - 1) : k \in 1..Len(lines)
  BY <1>1
<1>3. \A k \in i..(i + l - 1) : lines[k] \in Line
  BY <1>2, ElementOfSeq
<1>4. /\ s \in Seq(Line)
      /\ Len(s) = IF i <= i + l - 1 THEN (i + l - 1) - i + 1 ELSE 0
      /\ \A k \in 1..((i + l - 1) - i + 1) : s[k] = lines[i + k - 1]
  BY <1>2, <1>3, SubSeqProperties
<1> HIDE DEF s
<1>5. Len(s) = l /\ DOMAIN s = 1..l
  BY <1>1, <1>2, <1>4, LenProperties
<1>6. \A k \in 1..l : Texts[s[k].n] = Texts[block[k].n]
  BY <1>1, <1>5, Zenon DEF TextOf
<1>7. \A k \in 1..l : Texts[lines[i + k - 1].n] = Texts[block[k].n]
  BY <1>2, <1>4, <1>6
<1> QED
  BY <1>1, <1>7 DEF l

\* The lines of the page, continued after a match, end like the answer.
LEMMA JoinedEnds ==
  ASSUME NEW local \in Seq(Line), NEW lines \in Seq(Line),
         NEW overlap \in Nat, overlap <= Len(local),
         NEW first \in Matches(LastLines(local, overlap), lines)
  PROVE  /\ local \o From(lines, first, overlap) \in Seq(Line)
         /\ first \in 1..(Len(lines) - overlap + 1)
         /\ Len(local \o From(lines, first, overlap))
              = Len(local) + (Len(lines) - first - overlap + 1)
         /\ \A i \in 1..Len(local) : (local \o From(lines, first, overlap))[i] = local[i]
         /\ \A i \in 1..(Len(lines) - first - overlap + 1) :
                (local \o From(lines, first, overlap))[Len(local) + i]
                    = lines[first + overlap + i - 1]
         /\ AlikeAtEnd(local \o From(lines, first, overlap), lines, Len(lines) - first + 1)
<1> DEFINE h == Len(local)
<1> DEFINE l == Len(lines)
<1> DEFINE block == LastLines(local, overlap)
<1> DEFINE rest == From(lines, first, overlap)
<1> DEFINE w == local \o rest
<1> DEFINE r == l - first - overlap + 1
<1>1. h \in Nat /\ l \in Nat
  BY LenProperties
<1>2. /\ block \in Seq(Line) /\ Len(block) = overlap
      /\ \A k \in 1..overlap : block[k] = local[h - overlap + k]
  <2>1. Least(overlap, h) = overlap
    BY <1>1 DEF Least
  <2>2. /\ block \in Seq(Line) /\ Len(block) = Least(overlap, h)
        /\ \A k \in 1..Least(overlap, h) : block[k] = local[h - Least(overlap, h) + k]
    BY LastLinesAre
  <2> QED
    BY <2>1, <2>2, Zenon
<1>3. /\ first \in 1..(l - overlap + 1)
      /\ \A k \in 1..overlap : Texts[lines[first + k - 1].n] = Texts[block[k].n]
  <2>1. /\ first \in 1..(l - Len(block) + 1)
        /\ \A k \in 1..Len(block) : Texts[lines[first + k - 1].n] = Texts[block[k].n]
    BY <1>2, MatchedTexts, Zenon
  <2> QED
    BY <1>2, <2>1, Zenon
<1> HIDE DEF block
<1>4. /\ rest \in Seq(Line) /\ Len(rest) = r /\ r \in Nat
      /\ \A i \in 1..r : rest[i] = lines[first + overlap + i - 1]
  <2>1. /\ first + overlap \in Int /\ l \in Int /\ r = l - (first + overlap) + 1 /\ r \in Nat
        /\ \A i \in (first + overlap)..l : i \in 1..l
    BY <1>1, <1>3
  <2>2. \A i \in (first + overlap)..l : lines[i] \in Line
    BY <2>1, ElementOfSeq
  <2>3. /\ rest \in Seq(Line)
        /\ Len(rest) = IF first + overlap <= l THEN l - (first + overlap) + 1 ELSE 0
        /\ \A i \in 1..(l - (first + overlap) + 1) : rest[i] = lines[first + overlap + i - 1]
    BY <2>1, <2>2, SubSeqProperties DEF From
  <2> HIDE DEF rest, l
  <2>4. Len(rest) = r
    BY <1>1, <1>3, <2>1, <2>3
  <2> HIDE DEF r
  <2>5. \A i \in 1..r : rest[i] = lines[first + overlap + i - 1]
    BY <2>1, <2>3
  <2> QED
    BY <2>1, <2>3, <2>4, <2>5
<1> HIDE DEF rest, r, h, l
<1>5. /\ w \in Seq(Line) /\ Len(w) = h + r
      /\ \A i \in 1..(h + r) : w[i] = IF i <= h THEN local[i] ELSE rest[i - h]
  <2>1. /\ w \in Seq(Line) /\ Len(w) = Len(local) + Len(rest)
        /\ \A i \in 1..(Len(local) + Len(rest)) :
               w[i] = IF i <= Len(local) THEN local[i] ELSE rest[i - Len(local)]
    BY <1>4, ConcatProperties
  <2> QED
    BY <1>4, <2>1, Zenon DEF h
<1> HIDE DEF w
<1>6. \A i \in 1..h : w[i] = local[i]
  <2>1. \A i \in 1..h : i \in 1..(h + r) /\ i <= h
    BY <1>1, <1>4
  <2> QED
    BY <1>5, <2>1, Zenon
<1>7. \A i \in 1..r : w[h + i] = lines[first + overlap + i - 1]
  <2>1. \A i \in 1..r : h + i \in 1..(h + r) /\ ~ (h + i <= h) /\ (h + i) - h = i
    BY <1>1, <1>4
  <2> QED
    BY <1>4, <1>5, <2>1
<1>8. AlikeAtEnd(w, lines, l - first + 1)
  <2> DEFINE m == l - first + 1
  <2>1. ASSUME NEW j \in 0..(m - 1)
        PROVE  Texts[w[Len(w) - j].n] = Texts[lines[l - j].n]
    <3>0. Len(w) = h + r /\ j \in Nat /\ j <= l - first
      BY <1>1, <1>3, <1>5
    <3>1. CASE j < r
      <4>1. /\ r - j \in 1..r /\ h + (r - j) = Len(w) - j
            /\ first + overlap + (r - j) - 1 = l - j
        BY <1>1, <1>3, <1>4, <3>0, <3>1 DEF r
      <4>2. w[h + (r - j)] = lines[first + overlap + (r - j) - 1]
        BY <1>7, <4>1, Zenon
      <4> QED
        BY <4>1, <4>2, Zenon
    <3>2. CASE j >= r
      <4> DEFINE k == overlap - (j - r)
      <4>1. k \in 1..overlap /\ first + k - 1 = l - j
        BY <1>1, <1>3, <1>4, <3>0, <3>2 DEF r
      <4>2. h - overlap + k = Len(w) - j
        BY <1>1, <1>4, <3>0
      <4>3. overlap <= h
        BY DEF h
      <4> HIDE DEF k
      <4>4. h - overlap + k \in 1..h
        BY <1>1, <4>1, <4>3
      <4>5. w[h - overlap + k] = block[k] /\ Texts[lines[first + k - 1].n] = Texts[block[k].n]
        BY <1>2, <1>3, <1>6, <4>1, <4>4, Zenon
      <4> QED
        BY <4>1, <4>2, <4>5, Zenon
    <3> QED
      BY <1>4, <3>0, <3>1, <3>2
  <2>2. \A j \in 0..(m - 1) : Texts[w[Len(w) - j].n] = Texts[lines[l - j].n]
    BY <2>1, Zenon
  <2> HIDE DEF m
  <2>3. AlikeAtEnd(w, lines, m)
    BY <2>2, Zenon DEF AlikeAtEnd, l
  <2> QED
    BY <2>3 DEF m
<1> QED
  BY <1>3, <1>5, <1>6, <1>7, <1>8 DEF w, rest, r, h, l

\* The two ways of a merge.
LEMMA MergedIs ==
  ASSUME NEW local \in Seq(Line), NEW lines \in Seq(Line)
  PROVE  \/ Merged(local, lines) = Kept(lines)
         \/ /\ local # <<>>
            /\ \E first \in Matches(LastLines(local, Overlap(local, lines)), lines) :
                   Merged(local, lines) = Kept(local \o From(lines, first, Overlap(local, lines)))
<1> DEFINE overlap == Overlap(local, lines)
<1> DEFINE found == Matches(LastLines(local, overlap), lines)
<1> DEFINE first == CHOOSE i \in found : \A j \in found : i <= j
<1>1. CASE local = <<>> \/ found = {}
  BY <1>1, Zenon DEF Merged
<1>2. CASE ~ (local = <<>> \/ found = {})
  <2>1. found \in SUBSET Nat
    BY DEF Matches
  <2>2. \E i \in found : \A j \in found : i <= j
    BY <1>2, <2>1, LeastNatural
  <2>3. first \in found
    BY <2>2, Zenon
  <2>4. Merged(local, lines) = Kept(local \o From(lines, first, overlap))
    BY <1>2, Zenon DEF Merged
  <2> QED
    BY <1>2, <2>3, <2>4, Zenon
<1> QED
  BY <1>1, <1>2

\* A merge with the end of the log ends as the log does.
LEMMA MergedEnds ==
  ASSUME NEW local \in Seq(Line), NEW log \in Seq(Line), NEW lines, NEW m, NEW n,
         lines = LastLines(log, FetchLines), m = Merged(local, lines),
         n = Least(OverlapMax, Least(Len(m), Len(log)))
  PROVE  /\ m \in Seq(Line) /\ Len(m) <= CacheLimit
         /\ TextOf(LastLines(m, n)) = TextOf(LastLines(log, n))
<1> DEFINE overlap == Overlap(local, lines)
<1>0. /\ OverlapMax \in Nat /\ FetchLines \in Nat /\ CacheLimit \in Nat
      /\ OverlapMax <= FetchLines /\ FetchLines <= CacheLimit
      /\ Len(local) \in Nat /\ Len(log) \in Nat
  BY PageAssumption, LenProperties
<1>1. /\ lines \in Seq(Line) /\ Len(lines) = Least(FetchLines, Len(log))
      /\ AlikeAtEnd(lines, log, Len(lines))
  <2>1. lines \in Seq(Line) /\ Len(lines) = Least(FetchLines, Len(log))
    BY <1>0, LastLinesAre
  <2>2. AlikeAtEnd(lines, log, Least(FetchLines, Len(log)))
    BY <1>0, LastLinesAlike
  <2> QED
    BY <2>1, <2>2, Zenon
<1>2. Len(lines) \in Nat
  BY <1>1, LenProperties
<1>3. /\ overlap \in Nat /\ overlap <= Len(local)
      /\ overlap \in {OverlapMax, Len(local), Len(lines)}
  BY <1>1, OverlapIs
<1> HIDE DEF overlap
\* Both ways keep the end of a sequence w that is alike for k lines.
<1>4. \E w \in Seq(Line), k \in Nat :
         /\ m = LastLines(w, CacheLimit)
         /\ AlikeAtEnd(w, lines, k)
         /\ k \in {Len(lines), Len(w)} \/ k >= OverlapMax
         /\ k <= Len(w)
  <2>1. CASE m = Kept(lines)
    <3>1. AlikeAtEnd(lines, lines, Len(lines))
      BY DEF AlikeAtEnd
    <3> QED
      BY <1>1, <1>2, <2>1, <3>1 DEF Kept
  <2>2. ASSUME NEW first \in Matches(LastLines(local, overlap), lines),
               m = Kept(local \o From(lines, first, overlap))
        PROVE  \E w \in Seq(Line), k \in Nat :
                  /\ m = LastLines(w, CacheLimit)
                  /\ AlikeAtEnd(w, lines, k)
                  /\ k \in {Len(lines), Len(w)} \/ k >= OverlapMax
                  /\ k <= Len(w)
    <3> DEFINE w == local \o From(lines, first, overlap)
    <3> DEFINE k == Len(lines) - first + 1
    <3>1. /\ w \in Seq(Line) /\ first \in 1..(Len(lines) - overlap + 1)
          /\ Len(w) = Len(local) + (Len(lines) - first - overlap + 1)
          /\ AlikeAtEnd(w, lines, k)
      BY <1>1, <1>3, JoinedEnds
    <3>2. m = LastLines(w, CacheLimit)
      BY <2>2 DEF Kept
    <3> HIDE DEF w
    <3>3. k \in Nat /\ k >= overlap /\ k <= Len(lines) /\ k <= Len(w)
      BY <1>0, <1>2, <1>3, <3>1
    <3>4. overlap = Len(local) => k = Len(w)
      BY <1>0, <1>2, <1>3, <3>1
    <3> HIDE DEF k
    <3>5. k \in {Len(lines), Len(w)} \/ k >= OverlapMax
      BY <1>2, <1>3, <3>3, <3>4
    <3> QED
      BY <3>1, <3>2, <3>3, <3>5
  <2> QED
    BY <1>1, <2>1, <2>2, MergedIs DEF overlap
<1>5. PICK w \in Seq(Line), k \in Nat :
         /\ m = LastLines(w, CacheLimit)
         /\ AlikeAtEnd(w, lines, k)
         /\ k \in {Len(lines), Len(w)} \/ k >= OverlapMax
         /\ k <= Len(w)
  BY <1>4
<1>6. /\ m \in Seq(Line) /\ Len(m) = Least(CacheLimit, Len(w))
      /\ AlikeAtEnd(m, w, Len(m))
  <2>1. m \in Seq(Line) /\ Len(m) = Least(CacheLimit, Len(w))
    BY <1>0, <1>5, LastLinesAre
  <2>2. AlikeAtEnd(m, w, Least(CacheLimit, Len(w)))
    BY <1>0, <1>5, LastLinesAlike
  <2> QED
    BY <2>1, <2>2, Zenon
<1>7. Len(m) \in Nat /\ Len(w) \in Nat
  BY <1>5, <1>6, LenProperties
<1>8. /\ n \in Nat /\ n <= Len(m) /\ n <= Len(log) /\ n <= Len(lines) /\ n <= k
      /\ Len(m) <= CacheLimit
  <2>1. n \in Nat /\ n <= OverlapMax /\ n <= Len(m) /\ n <= Len(log)
    BY <1>0, <1>7 DEF Least
  <2>2. n <= Len(lines) /\ n <= Len(w) /\ Len(m) <= CacheLimit
    BY <1>0, <1>1, <1>6, <1>7, <2>1 DEF Least
  <2>3. n <= k
    BY <1>0, <1>2, <1>5, <1>7, <2>1, <2>2
  <2> QED
    BY <2>1, <2>2, <2>3
<1>9. AlikeAtEnd(m, lines, n)
  BY <1>5, <1>6, <1>7, <1>8, AlikePassesOn
<1>10. AlikeAtEnd(m, log, n)
  <2>1. n <= n
    BY <1>8
  <2> QED
    BY <1>1, <1>2, <1>8, <1>9, <2>1, AlikePassesOn
<1> QED
  BY <1>6, <1>8, <1>10, TextsOfEnds

\* What is kept are lines that were there, no more than fit.
LEMMA KeptShape ==
  ASSUME NEW S, NEW q \in Seq(S)
  PROVE  Kept(q) \in Seq(S) /\ Len(Kept(q)) <= CacheLimit
<1>1. CacheLimit \in Nat
  BY PageAssumption
<1>2. /\ LastLines(q, CacheLimit) \in Seq(S)
      /\ Len(LastLines(q, CacheLimit)) = Least(CacheLimit, Len(q))
  BY <1>1, LastLinesAre
<1>3. Least(CacheLimit, Len(q)) <= CacheLimit
  BY <1>1, LenProperties DEF Least
<1> QED
  BY <1>2, <1>3 DEF Kept

\* Every merge is a sequence of lines that were there.
LEMMA MergedShape ==
  ASSUME NEW S \in SUBSET Line, NEW local \in Seq(S), NEW lines \in Seq(S)
  PROVE  Merged(local, lines) \in Seq(S) /\ Len(Merged(local, lines)) <= CacheLimit
<1> DEFINE overlap == Overlap(local, lines)
<1>0. local \in Seq(Line) /\ lines \in Seq(Line)
  BY WiderSeq
<1>1. \A q \in Seq(S) : Kept(q) \in Seq(S) /\ Len(Kept(q)) <= CacheLimit
  BY KeptShape
<1>2. CASE Merged(local, lines) = Kept(lines)
  BY <1>1, <1>2
<1>3. ASSUME NEW first \in Matches(LastLines(local, overlap), lines),
             Merged(local, lines) = Kept(local \o From(lines, first, overlap))
      PROVE  Merged(local, lines) \in Seq(S) /\ Len(Merged(local, lines)) <= CacheLimit
  <2>1. first \in Nat /\ first >= 1
    BY <1>0, LenProperties DEF Matches
  <2>2. overlap \in Nat
    BY <1>0, OverlapIs
  <2> DEFINE a == first + overlap
  <2> DEFINE b == Len(lines)
  <2>3. a \in Int /\ b \in Int /\ \A i \in a..b : i \in 1..Len(lines)
    BY <2>1, <2>2, LenProperties
  <2>4. \A i \in a..b : lines[i] \in S
    BY <2>3, ElementOfSeq
  <2> HIDE DEF a, b
  <2>5. SubSeq(lines, a, b) \in Seq(S)
    BY <2>3, <2>4, SubSeqProperties
  <2>6. From(lines, first, overlap) \in Seq(S)
    BY <2>5 DEF a, b, From
  <2>7. local \o From(lines, first, overlap) \in Seq(S)
    BY <2>6, ConcatProperties
  <2> QED
    BY <1>1, <1>3, <2>7
<1> QED
  BY <1>0, <1>2, <1>3, MergedIs

-----------------------------------------------------------------------------
(* Stretches of the log.                                                   *)

\* The numbers in a stretch go up by one.
LEMMA Numbers ==
  ASSUME NEW q \in Seq(Line), Stretch(q)
  PROVE  \A i, k \in 1..Len(q) : i <= k => q[k].n = q[i].n + (k - i)
<1>0. /\ Len(q) \in Nat /\ DOMAIN q = 1..Len(q) /\ \A i \in 1..Len(q) : q[i].n \in Nat
  <2>1. Len(q) \in Nat /\ DOMAIN q = 1..Len(q) /\ \A i \in 1..Len(q) : q[i] \in Line
    BY LenProperties, ElementOfSeq
  <2>2. DOMAIN Texts \subseteq Nat
    BY PageAssumption, LenProperties
  <2>3. \A line \in Line : line.n \in Nat
    BY <2>2 DEF Line
  <2> QED
    BY <2>1, <2>3
<1>1. ASSUME NEW k \in 1..Len(q), k > 1 PROVE k - 1 \in 1..Len(q) /\ q[k].n = q[k - 1].n + 1
  <2>1. k - 1 \in 1..Len(q)
    BY <1>0, <1>1
  <2>2. q[k] = [q[k - 1] EXCEPT !.n = @ + 1]
    BY <1>0, <1>1 DEF Stretch
  <2>3. q[k - 1] \in Line
    BY <2>1, ElementOfSeq
  <2> QED
    BY <2>1, <2>2, <2>3 DEF Line
<1> SUFFICES ASSUME NEW i \in 1..Len(q),
                    NEW top \in 1..Len(q), i <= top, q[top].n # q[i].n + (top - i)
             PROVE  FALSE
  OBVIOUS
<1> DEFINE Off == {k \in 1..Len(q) : i <= k /\ q[k].n # q[i].n + (k - i)}
<1>2. Off \in SUBSET Nat /\ Off # {}
  <2>1. top \in Off
    OBVIOUS
  <2> QED
    BY <1>0, <2>1
<1> HIDE DEF Off
<1>3. PICK k \in Off : \A m \in Off : k <= m
  BY <1>2, LeastNatural
<1>4. k \in 1..Len(q) /\ i <= k /\ q[k].n # q[i].n + (k - i)
  BY <1>3 DEF Off
<1>5. k # i
  <2>1. q[i].n \in Nat
    BY <1>0
  <2> QED
    BY <1>0, <1>4, <2>1
<1>6. k > 1 /\ i <= k - 1 /\ k - 1 \in Nat
  BY <1>0, <1>4, <1>5
<1>7. k - 1 \in 1..Len(q) /\ q[k].n = q[k - 1].n + 1
  BY <1>1, <1>4, <1>6
<1>8. k - 1 \notin Off
  BY <1>0, <1>3, <1>4
<1>9. q[k - 1].n = q[i].n + (k - 1 - i)
  BY <1>6, <1>7, <1>8, Zenon DEF Off
<1>10. q[i].n \in Nat
  BY <1>0
<1> DEFINE x == q[i].n
<1> DEFINE y == q[k].n
<1>11. y = x + (k - 1 - i) + 1 /\ x \in Nat /\ y # x + (k - i)
  BY <1>4, <1>7, <1>9, <1>10
<1> HIDE DEF x, y
<1> QED
  BY <1>0, <1>4, <1>11

\* The end of a stretch is a stretch.
LEMMA StretchEnds ==
  ASSUME NEW q \in Seq(Line), Stretch(q), NEW n \in Nat
  PROVE  Stretch(LastLines(q, n))
<1> DEFINE k == Least(n, Len(q))
<1> DEFINE s == LastLines(q, n)
<1> DEFINE d == Len(q) - k
<1>1. Len(q) \in Nat /\ k \in Nat /\ d \in Nat /\ k <= Len(q)
  BY LenProperties DEF Least
<1>2. s \in Seq(Line) /\ Len(s) = k /\ \A i \in 1..k : s[i] = q[d + i]
  BY LastLinesAre
<1> HIDE DEF s
<1>3. DOMAIN s = 1..k /\ DOMAIN q = 1..Len(q)
  BY <1>2, LenProperties
<1> SUFFICES ASSUME NEW i \in 1..k, i > 1 PROVE s[i] = [s[i - 1] EXCEPT !.n = @ + 1]
  BY <1>3 DEF Stretch, s
<1> HIDE DEF k
<1>4. /\ d + i \in 1..Len(q) /\ d + i > 1 /\ i - 1 \in 1..k /\ (d + i) - 1 = d + (i - 1)
  BY <1>1
<1> HIDE DEF d
<1>5. q[d + i] = [q[(d + i) - 1] EXCEPT !.n = @ + 1]
  BY <1>3, <1>4, Zenon DEF Stretch
<1>6. s[i] = q[d + i] /\ s[i - 1] = q[d + (i - 1)]
  BY <1>2, <1>4, Zenon
<1> QED
  BY <1>4, <1>5, <1>6, Zenon

\* Where a stretch of lines has the texts of a block, all lines have them at
\* the number of its first line.
LEMMA FoundInAll ==
  ASSUME NEW all \in Seq(Line), Numbered(all),
         NEW q \in Seq(ToSet(all)), Stretch(q),
         NEW block \in Seq(Line), NEW l \in Nat, l >= 1, Len(block) = l,
         NEW i \in 1..(Len(q) - l + 1), SameTexts(q, i, block)
  PROVE  /\ q[i].n \in Matches(block, all)
         /\ \A k \in 1..l : /\ q[i].n + k - 1 \in 1..Len(all)
                            /\ q[i + k - 1] = all[q[i].n + k - 1]
<1>0. /\ Len(q) \in Nat /\ Len(all) \in Nat /\ DOMAIN all = 1..Len(all)
      /\ DOMAIN block = 1..l
  BY LenProperties
<1>a. \A k \in 1..l : Texts[q[i + k - 1].n] = Texts[block[k].n]
  BY Zenon DEF SameTexts
<1>1. \A k \in 1..Len(q) : q[k].n \in 1..Len(all) /\ q[k] = all[q[k].n]
  <2> SUFFICES ASSUME NEW k \in 1..Len(q) PROVE q[k].n \in 1..Len(all) /\ q[k] = all[q[k].n]
    OBVIOUS
  <2>1. q[k] \in ToSet(all)
    BY ElementOfSeq
  <2>2. PICK x \in 1..Len(all) : q[k] = all[x]
    BY <1>0, <2>1 DEF ToSet
  <2> QED
    BY <2>2 DEF Numbered
<1>2. q \in Seq(Line)
  <2>1. \A x \in 1..Len(all) : all[x] \in Line
    BY ElementOfSeq
  <2>2. \A k \in 1..Len(q) : q[k] \in Line
    BY <1>1, <2>1
  <2> QED
    BY <2>2, SeqOver
<1> DEFINE start == q[i].n
<1>3. \A k \in 1..l : i + k - 1 \in 1..Len(q) /\ i <= i + k - 1 /\ (i + k - 1) - i = k - 1
  BY <1>0
<1>4. i \in 1..Len(q)
  BY <1>0
<1>5. start \in Nat /\ start >= 1
  BY <1>0, <1>1, <1>4
<1> HIDE DEF start
<1>6. \A k \in 1..l : q[i + k - 1].n = start + (k - 1)
  <2>1. \A x \in 1..Len(q) : i <= x => q[x].n = start + (x - i)
    BY <1>2, <1>4, Numbers, Zenon DEF start
  <2> SUFFICES ASSUME NEW k \in 1..l PROVE q[i + k - 1].n = start + (k - 1)
    OBVIOUS
  <2>2. PICK x \in 1..Len(q) : x = i + k - 1 /\ i <= x /\ x - i = k - 1
    BY <1>3, Zenon
  <2>3. q[x].n = start + (x - i)
    BY <2>1, <2>2, Zenon
  <2> QED
    BY <2>2, <2>3, Zenon
<1>7. \A k \in 1..l : start + (k - 1) \in 1..Len(all) /\ q[i + k - 1] = all[start + (k - 1)]
  <2> SUFFICES ASSUME NEW k \in 1..l
               PROVE  start + (k - 1) \in 1..Len(all) /\ q[i + k - 1] = all[start + (k - 1)]
    OBVIOUS
  <2>1. PICK x \in 1..Len(q) : x = i + k - 1
    BY <1>3
  <2>2. q[x].n = start + (k - 1)
    BY <1>6, <2>1, Zenon
  <2>3. q[x].n \in 1..Len(all) /\ q[x] = all[q[x].n]
    BY <1>1
  <2> QED
    BY <2>1, <2>2, <2>3, Zenon
<1>8. \A k \in 1..l : start + k - 1 = start + (k - 1)
  BY <1>5
<1>9. start \in 1..(Len(all) - l + 1)
  <2>1. l \in 1..l
    OBVIOUS
  <2>2. start + (l - 1) <= Len(all)
    BY <1>0, <1>7, <2>1
  <2> QED
    BY <1>0, <1>5, <2>2
<1> DEFINE t == start + l - 1
<1> DEFINE s == SubSeq(all, start, t)
<1>10. /\ start \in Int /\ t \in Int /\ t - start + 1 = l /\ start <= t
       /\ \A k \in start..t : k \in 1..Len(all)
  BY <1>0, <1>5, <1>9
<1>11. \A k \in start..t : all[k] \in Line
  BY <1>10, ElementOfSeq
<1> HIDE DEF t
<1>12. /\ s \in Seq(Line) /\ Len(s) = IF start <= t THEN t - start + 1 ELSE 0
       /\ \A k \in 1..(t - start + 1) : s[k] = all[start + k - 1]
  BY <1>10, <1>11, SubSeqProperties
<1> HIDE DEF s
<1>13. Len(s) = l /\ DOMAIN s = 1..l
  BY <1>10, <1>12, LenProperties
<1>14. \A k \in 1..l : s[k] = all[start + (k - 1)]
  BY <1>8, <1>10, <1>12
<1>15. \A k \in 1..l : Texts[s[k].n] = Texts[block[k].n]
  BY <1>a, <1>7, <1>14, Zenon
<1>16. TextOf(s) = TextOf(block)
  BY <1>0, <1>13, <1>15 DEF TextOf
<1>17. start \in Matches(block, all)
  BY <1>9, <1>16 DEF Matches, s, t
<1> QED
  BY <1>7, <1>8, <1>17 DEF start

\* A merge of stretches of the log is one, if what is compared occurs once.
LEMMA MergedStretch ==
  ASSUME NEW all \in Seq(Line), Numbered(all),
         NEW local \in Seq(ToSet(all)), Stretch(local),
         NEW lines \in Seq(ToSet(all)), Stretch(lines), lines # <<>>,
         Cardinality(Matches(LastLines(local, Overlap(local, lines)), all)) <= 1
  PROVE  Stretch(Merged(local, lines))
<1> DEFINE overlap == Overlap(local, lines)
<1> DEFINE block == LastLines(local, overlap)
<1> DEFINE h == Len(local)
<1> DEFINE l == Len(lines)
<1>0. /\ local \in Seq(Line) /\ lines \in Seq(Line) /\ CacheLimit \in Nat
      /\ h \in Nat /\ l \in Nat /\ l >= 1 /\ DOMAIN local = 1..h /\ DOMAIN lines = 1..l
  <2>1. ToSet(all) \subseteq Line
    <3>1. \A x \in 1..Len(all) : all[x] \in Line
      BY ElementOfSeq
    <3> QED
      BY <3>1, LenProperties DEF ToSet
  <2>2. Seq(ToSet(all)) \subseteq Seq(Line)
    BY <2>1, WiderSeq
  <2>3. h \in Nat /\ l \in Nat /\ DOMAIN local = 1..h /\ DOMAIN lines = 1..l
    BY LenProperties
  <2>4. l # 0
    BY EmptySeq
  <2> QED
    BY <2>2, <2>3, <2>4, PageAssumption
<1>1. CASE Merged(local, lines) = Kept(lines)
  BY <1>0, <1>1, StretchEnds DEF Kept
<1>2. ASSUME local # <<>>, NEW first \in Matches(block, lines),
             Merged(local, lines) = Kept(local \o From(lines, first, overlap))
      PROVE  Stretch(Merged(local, lines))
  <2> DEFINE w == local \o From(lines, first, overlap)
  <2> DEFINE r == l - first - overlap + 1
  <2>1. h >= 1
    <3>1. h # 0
      BY <1>2, EmptySeq
    <3> QED
      BY <1>0, <3>1
  <2>2. /\ overlap \in Nat /\ overlap <= h /\ overlap <= l /\ overlap >= 1
        /\ Len(block) = overlap /\ block \in Seq(Line)
    <3>1. /\ overlap \in Nat /\ overlap <= h /\ overlap <= l /\ Len(block) = overlap
          /\ overlap \in {OverlapMax, h, l}
      BY <1>0, OverlapIs
    <3>2. OverlapMax >= 1 /\ OverlapMax \in Nat
      BY PageAssumption
    <3>3. block \in Seq(Line)
      BY <1>0, <3>1, LastLinesAre
    <3> HIDE DEF overlap, block, h, l
    <3> QED
      BY <1>0, <2>1, <3>1, <3>2, <3>3
  <2>3. \A k \in 1..overlap : block[k] = local[h - overlap + k]
    <3>1. Least(overlap, h) = overlap
      BY <1>0, <2>2 DEF Least
    <3>2. \A k \in 1..Least(overlap, h) : block[k] = local[h - Least(overlap, h) + k]
      BY <1>0, <2>2, LastLinesAre
    <3> QED
      BY <3>1, <3>2, Zenon
  <2>4. /\ first \in 1..(l - overlap + 1)
        /\ \A k \in 1..overlap : Texts[lines[first + k - 1].n] = Texts[block[k].n]
    <3>1. /\ first \in 1..(l - Len(block) + 1)
          /\ \A k \in 1..Len(block) : Texts[lines[first + k - 1].n] = Texts[block[k].n]
      BY <1>0, <2>2, MatchedTexts, Zenon
    <3> QED
      BY <2>2, <3>1, Zenon
  <2>5. /\ w \in Seq(Line) /\ Len(w) = h + r
        /\ \A i \in 1..h : w[i] = local[i]
        /\ \A i \in 1..r : w[h + i] = lines[first + overlap + i - 1]
    <3>1. first \in Matches(LastLines(local, overlap), lines)
      BY <1>2
    <3>2. overlap \in Nat /\ overlap <= Len(local)
      BY <2>2
    <3> HIDE DEF overlap
    <3>3. /\ w \in Seq(Line) /\ Len(w) = Len(local) + (Len(lines) - first - overlap + 1)
          /\ \A i \in 1..Len(local) : w[i] = local[i]
          /\ \A i \in 1..(Len(lines) - first - overlap + 1) :
                 w[Len(local) + i] = lines[first + overlap + i - 1]
      BY <1>0, <3>1, <3>2, JoinedEnds
    <3> QED
      BY <3>3, Zenon
  <2> DEFINE b == h - overlap + 1
  <2>6. b \in 1..(h - overlap + 1) /\ \A k \in 1..overlap : b + k - 1 = h - overlap + k
    BY <1>0, <2>2
  <2> HIDE DEF b, w, r, h, l, block, overlap
\* The block and the match are the same lines.
  <2>7. /\ local[b].n \in Matches(block, all)
        /\ \A k \in 1..overlap : local[b + k - 1] = all[local[b].n + k - 1]
    <3>1. SameTexts(local, b, block)
      BY <2>2, <2>3, <2>6, Zenon DEF SameTexts
    <3>2. b \in 1..(Len(local) - overlap + 1)
      BY <2>6 DEF h
    <3>3. /\ local[b].n \in Matches(block, all)
          /\ \A k \in 1..overlap : /\ local[b].n + k - 1 \in 1..Len(all)
                                   /\ local[b + k - 1] = all[local[b].n + k - 1]
      BY <2>2, <3>1, <3>2, FoundInAll
    <3> QED
      BY <3>3, Zenon
  <2>8. /\ lines[first].n \in Matches(block, all)
        /\ \A k \in 1..overlap : lines[first + k - 1] = all[lines[first].n + k - 1]
    <3>1. first \in 1..(Len(lines) - overlap + 1)
      BY <2>4 DEF l
    <3>3. SameTexts(lines, first, block)
      BY <2>2, <2>4, Zenon DEF SameTexts
    <3>2. /\ lines[first].n \in Matches(block, all)
          /\ \A k \in 1..overlap : /\ lines[first].n + k - 1 \in 1..Len(all)
                                   /\ lines[first + k - 1] = all[lines[first].n + k - 1]
      BY <2>2, <3>1, <3>3, FoundInAll
    <3> QED
      BY <3>2, Zenon
  <2>9. lines[first].n = local[b].n
    <3>1. IsFiniteSet(Matches(block, all))
      <4>1. Len(all) - Len(block) + 1 \in Int
        BY <2>2, LenProperties
      <4>2. IsFiniteSet(1..(Len(all) - Len(block) + 1))
        BY <4>1, FS_Interval
      <4>3. Matches(block, all) \in SUBSET (1..(Len(all) - Len(block) + 1))
        BY DEF Matches
      <4> QED
        BY <4>2, <4>3, FS_Subset
    <3>2. Cardinality(Matches(block, all)) <= 1
      BY DEF block, overlap
    <3> QED
      BY <2>7, <2>8, <3>1, <3>2, AtMostOne
  <2>10. local[h] = lines[first + overlap - 1]
    <3>1. overlap \in 1..overlap /\ b + overlap - 1 = h
      BY <1>0, <2>2 DEF b
    <3>2. local[b + overlap - 1] = all[local[b].n + overlap - 1]
      BY <2>7, <3>1, Zenon
    <3>3. lines[first + overlap - 1] = all[lines[first].n + overlap - 1]
      BY <2>8, <3>1, Zenon
    <3> QED
      BY <2>9, <3>1, <3>2, <3>3, Zenon
  <2>11. Stretch(w)
    <3>1. DOMAIN w = 1..(h + r) /\ r \in Nat
      <4>1. r \in Nat
        BY <1>0, <2>2, <2>4 DEF r
      <4>2. DOMAIN w = 1..Len(w)
        BY <2>5, LenProperties
      <4> QED
        BY <2>5, <4>1, <4>2, Zenon
    <3> SUFFICES ASSUME NEW i \in 1..(h + r), i > 1
                 PROVE  w[i] = [w[i - 1] EXCEPT !.n = @ + 1]
      BY <3>1, Zenon DEF Stretch
    <3>2. CASE i <= h
      <4>1. i \in 1..h /\ i - 1 \in 1..h
        BY <1>0, <3>1, <3>2
      <4>2. local[i] = [local[i - 1] EXCEPT !.n = @ + 1]
        BY <1>0, <4>1, Zenon DEF Stretch
      <4>3. w[i] = local[i] /\ w[i - 1] = local[i - 1]
        BY <2>5, <4>1, Zenon
      <4> QED
        BY <4>2, <4>3, Zenon
    <3>3. CASE i > h
      <4>1. PICK j \in 1..r : i = h + j
        <5>1. i - h \in 1..r /\ i = h + (i - h)
          BY <1>0, <3>1, <3>3
        <5> QED
          BY <5>1
      <4> DEFINE x == first + overlap + j - 1
      <4>2. /\ x \in 1..l /\ x > 1 /\ i - 1 = h + (j - 1)
            /\ (j > 1 => j - 1 \in 1..r /\ x - 1 = first + overlap + (j - 1) - 1)
            /\ (j = 1 => x - 1 = first + overlap - 1 /\ i - 1 = h)
        BY <1>0, <2>2, <2>4, <3>1, <4>1 DEF r
      <4>3. w[i] = lines[x]
        BY <2>5, <4>1, Zenon
      <4> HIDE DEF x
      <4>4. lines[x] = [lines[x - 1] EXCEPT !.n = @ + 1]
        BY <1>0, <4>2, Zenon DEF Stretch
      <4>5. CASE j > 1
        <5>1. w[h + (j - 1)] = lines[first + overlap + (j - 1) - 1]
          BY <2>5, <4>2, <4>5, Zenon
        <5> QED
          BY <4>2, <4>3, <4>4, <4>5, <5>1, Zenon
      <4>6. CASE j = 1
        <5>1. h \in 1..h
          BY <1>0, <2>1
        <5>2. w[h] = local[h]
          BY <2>5, <5>1, Zenon
        <5> QED
          BY <2>10, <4>2, <4>3, <4>4, <4>6, <5>2, Zenon
      <4> QED
        BY <4>1, <4>5, <4>6
    <3> QED
      BY <1>0, <3>2, <3>3
  <2> QED
    BY <1>0, <1>2, <2>5, <2>11, StretchEnds DEF Kept, w
<1> QED
  BY <1>0, <1>1, <1>2, MergedIs DEF overlap, block

-----------------------------------------------------------------------------
(* The invariant.                                                          *)

\* The logs: the newest is what follows the lines of earlier servers.
Logs ==
    /\ server \in 1..MaxServers
    /\ logged \in Seq(Line) /\ Len(logged) <= Len(Texts) /\ Numbered(logged)
    /\ earlier \in 0..Len(logged)
    /\ \A i \in (earlier + 1)..Len(logged) : logged[i].by = server

Texted(S) == [pid : Pid, lines : Seq(S)]
Requests(S) == [state : {"idle", "asked", "answered"}, lines : Seq(S)]

\* Wherever there are lines, they are of S.
Within(S) ==
    /\ wire \in Seq(Texted(S)) /\ Len(wire) <= WireMax
    /\ shown \in [Copies -> Seq(S)] /\ \A c \in Copies : Len(shown[c]) <= CacheLimit
    /\ cached \in [Copies -> Pid]
    /\ timer \in [Copies -> BOOLEAN]
    /\ request \in [Copies -> Requests(S)]
    /\ stored \in Texted(S)
    /\ visits \in 0..MaxVisits

\* An answer is a stretch of a log.
Answers == \A c \in Copies : Stretch(request[c].lines)

PageInv == Logs /\ Within(ToSet(logged)) /\ Answers

LEMMA LoggedAreLines ==
  ASSUME NEW q \in Seq(Line)
  PROVE  /\ ToSet(q) \subseteq Line /\ \A i \in 1..Len(q) : q[i] \in ToSet(q)
         /\ q \in Seq(ToSet(q))
<1>1. \A i \in 1..Len(q) : q[i] \in Line
  BY ElementOfSeq
<1>2. DOMAIN q = 1..Len(q)
  BY LenProperties
<1>3. ToSet(q) \subseteq Line /\ \A i \in 1..Len(q) : q[i] \in ToSet(q)
  BY <1>1, <1>2 DEF ToSet
<1> QED
  BY <1>3, SeqOver

LEMMA WiderWithin ==
  ASSUME NEW S, NEW T, S \subseteq T, Within(S)
  PROVE  Within(T)
<1>1. Seq(S) \subseteq Seq(T)
  BY WiderSeq
<1>2. Texted(S) \subseteq Texted(T) /\ Requests(S) \subseteq Requests(T)
  BY <1>1 DEF Texted, Requests
<1>3. Seq(Texted(S)) \subseteq Seq(Texted(T))
  BY <1>2, WiderSeq
<1>4. wire \in Seq(Texted(T)) /\ stored \in Texted(T)
  BY <1>2, <1>3 DEF Within
<1>5. shown \in [Copies -> Seq(T)] /\ request \in [Copies -> Requests(T)]
  BY <1>1, <1>2 DEF Within
<1> QED
  BY <1>4, <1>5, Zenon DEF Within

\* The newest log is a stretch of the lines of all logs.
LEMMA LogIs ==
  ASSUME Logs
  PROVE  Log \in Seq(ToSet(logged)) /\ Log \in Seq(Line) /\ Stretch(Log)
<1> DEFINE l == Len(logged)
<1> DEFINE m == earlier + 1
<1>1. /\ logged \in Seq(Line) /\ l \in Nat /\ m \in Int /\ earlier \in Nat
      /\ \A i \in m..l : i \in 1..l /\ logged[i].by = server
      /\ DOMAIN logged = 1..l
  BY LenProperties DEF Logs
<1>2. ToSet(logged) \subseteq Line /\ \A i \in 1..l : logged[i] \in ToSet(logged)
  BY <1>1, LoggedAreLines
<1>3. \A i \in m..l : logged[i] \in ToSet(logged)
  BY <1>1, <1>2
<1>4. /\ Log \in Seq(ToSet(logged))
      /\ Len(Log) = IF m <= l THEN l - m + 1 ELSE 0
      /\ \A i \in 1..(l - m + 1) : Log[i] = logged[m + i - 1]
  BY <1>1, <1>3, SubSeqProperties DEF Log
<1>5. Log \in Seq(Line)
  BY <1>2, <1>4, WiderSeq
<1>6. Stretch(Log)
  <2>1. DOMAIN Log = 1..Len(Log)
    BY <1>4, LenProperties
  <2> SUFFICES ASSUME NEW i \in 1..Len(Log), i > 1
               PROVE  Log[i] = [Log[i - 1] EXCEPT !.n = @ + 1]
    BY <2>1, Zenon DEF Stretch
  <2> HIDE DEF l, m
  <2>2. Len(Log) = l - m + 1 /\ i \in Nat
    BY <1>1, <1>4
  <2>3. /\ i \in 1..(l - m + 1) /\ i - 1 \in 1..(l - m + 1)
        /\ m + i - 1 \in m..l /\ m + i - 1 - 1 \in m..l
        /\ m + (i - 1) - 1 = m + i - 1 - 1
    BY <1>1, <2>2
  <2> DEFINE x == m + i - 1
  <2>4. x \in m..l /\ x - 1 \in m..l /\ x \in 1..l /\ x - 1 \in 1..l /\ m + (i - 1) - 1 = x - 1
    BY <1>1, <2>2
  <2>5. Log[i] = logged[x] /\ Log[i - 1] = logged[m + (i - 1) - 1]
    BY <1>4, <2>3, Zenon
  <2> HIDE DEF x
  <2>6. logged[x] \in Line /\ logged[x - 1] \in Line
    BY <1>1, <2>4, ElementOfSeq DEF l
  <2>7. logged[x].n = x /\ logged[x - 1].n = x - 1 /\ logged[x].by = logged[x - 1].by
    BY <1>1, <2>4 DEF Logs, Numbered, l
  <2>8. x \in Int /\ x - 1 + 1 = x
    BY <1>1, <2>4
  <2>9. logged[x] = [logged[x - 1] EXCEPT !.n = x]
    BY <2>6, <2>7 DEF Line
  <2>10. logged[x - 1].n + 1 = x
    BY <2>7, <2>8
  <2> QED
    BY <2>4, <2>5, <2>9, <2>10
<1> QED
  BY <1>4, <1>5, <1>6

LEMMA InitPageInv == PageInit => PageInv
<1> SUFFICES ASSUME PageInit PROVE PageInv
  OBVIOUS
<1>1. /\ Len(<<>>) = 0 /\ \A S : <<>> \in Seq(S)
  BY EmptySeq
<1>2. /\ WireMax \in Nat /\ CacheLimit \in Nat /\ MaxServers \in Nat /\ MaxServers >= 1
      /\ MaxVisits \in Nat /\ Len(Texts) \in Nat
  BY PageAssumption, LenProperties
<1>3. Logs
  BY <1>1, <1>2 DEF PageInit, Logs, Numbered
<1>4. Within(ToSet(logged))
  <2> DEFINE S == ToSet(logged)
  <2>1. /\ NoRecord \in Texted(S) /\ Asked \in Requests(S) /\ <<>> \in Seq(S)
        /\ <<>> \in Seq(Texted(S)) /\ 0 \in Pid /\ FALSE \in BOOLEAN
    BY <1>1, <1>2 DEF NoRecord, Asked, Texted, Requests, Pid, Probe
  <2> HIDE DEF S
  <2>2. /\ wire = <<>> /\ shown = [c \in Copies |-> <<>>] /\ cached = [c \in Copies |-> 0]
        /\ timer = [c \in Copies |-> FALSE] /\ request = [c \in Copies |-> Asked]
        /\ stored = NoRecord /\ visits = 0
    BY Zenon DEF PageInit
  <2>3. Within(S)
    BY <1>1, <1>2, <2>1, <2>2 DEF Within
  <2> QED
    BY <2>3 DEF S
<1>5. Answers
  <2>1. Stretch(<<>>)
    BY <1>1 DEF Stretch
  <2> QED
    BY <2>1 DEF PageInit, Answers, Asked
<1> QED
  BY <1>3, <1>4, <1>5 DEF PageInv

LEMMA NextLogs ==
  ASSUME Logs, [PageNext]_pageVars
  PROVE  Logs' /\ ToSet(logged) \subseteq ToSet(logged')
<1>0. /\ server \in 1..MaxServers /\ logged \in Seq(Line) /\ Len(logged) \in Nat
      /\ Len(logged) <= Len(Texts) /\ Len(Texts) \in Nat /\ DOMAIN Texts = 1..Len(Texts)
      /\ Numbered(logged) /\ earlier \in 0..Len(logged)
      /\ \A i \in (earlier + 1)..Len(logged) : logged[i].by = server
  BY PageAssumption, LenProperties DEF Logs
<1>1. CASE NextLine
  <2> DEFINE line == [by |-> server, n |-> Len(logged) + 1]
  <2>1. /\ Len(logged) < Len(Texts) /\ logged' = Append(logged, line)
        /\ server' = server /\ earlier' = earlier
    BY <1>1 DEF NextLine
  <2>2. line \in Line
    BY <1>0, <2>1 DEF Line
  <2>3. line.by = server /\ line.n = Len(logged) + 1
    OBVIOUS
  <2> HIDE DEF line
  <2>4. /\ logged' \in Seq(Line) /\ Len(logged') = Len(logged) + 1
        /\ \A i \in 1..Len(logged) : logged'[i] = logged[i]
        /\ logged'[Len(logged) + 1] = line
    BY <1>0, <2>1, <2>2, AppendProperties
  <2>5. ToSet(logged) \subseteq ToSet(logged')
    BY <1>0, <2>1, <2>2, ElementsOfAppend
  <2>6. Numbered(logged')
    <3> SUFFICES ASSUME NEW i \in 1..(Len(logged) + 1) PROVE logged'[i].n = i
      BY <2>4 DEF Numbered
    <3>1. CASE i \in 1..Len(logged)
      BY <1>0, <2>4, <3>1 DEF Numbered
    <3>2. CASE i = Len(logged) + 1
      BY <2>3, <2>4, <3>2
    <3> QED
      BY <1>0, <3>1, <3>2
  <2>7. \A i \in (earlier' + 1)..Len(logged') : logged'[i].by = server'
    <3> SUFFICES ASSUME NEW i \in (earlier + 1)..(Len(logged) + 1) PROVE logged'[i].by = server
      BY <2>1, <2>4
    <3>1. CASE i <= Len(logged)
      <4>1. i \in (earlier + 1)..Len(logged) /\ i \in 1..Len(logged)
        BY <1>0, <3>1
      <4> QED
        BY <1>0, <2>4, <4>1
    <3>2. CASE i = Len(logged) + 1
      BY <2>3, <2>4, <3>2
    <3> QED
      BY <1>0, <3>1, <3>2
  <2>8. Len(logged') <= Len(Texts) /\ earlier' \in 0..Len(logged')
    BY <1>0, <2>1, <2>4
  <2> QED
    BY <1>0, <2>1, <2>4, <2>5, <2>6, <2>7, <2>8 DEF Logs
<1>2. CASE ServerRestarts
  <2>1. /\ server' = server + 1 /\ server < MaxServers /\ MaxServers \in Nat
        /\ earlier' = Len(logged) /\ logged' = logged
    BY <1>2, PageAssumption DEF ServerRestarts
  <2>2. server' \in 1..MaxServers /\ earlier' \in 0..Len(logged)
    BY <1>0, <2>1
  <2>3. \A i \in (earlier' + 1)..Len(logged') : logged'[i].by = server'
    BY <1>0, <2>1
  <2> QED
    BY <1>0, <2>1, <2>2, <2>3 DEF Logs
<1>3. ASSUME UNCHANGED logVars PROVE Logs' /\ ToSet(logged) \subseteq ToSet(logged')
  BY <1>0, <1>3 DEF logVars, Logs
<1>4. CASE SendStatus \/ StreamBreaks \/ Apply \/ Look \/ LoadPage \/ UNCHANGED pageVars
  <2>1. UNCHANGED logVars
    BY <1>4 DEF SendStatus, StreamBreaks, Apply, Look, LoadPage, pageVars
  <2> QED
    BY <1>3, <2>1
<1>5. ASSUME NEW c \in Copies, Serve(c) \/ FetchFails(c) \/ Arrive(c) \/ Save(c)
      PROVE  Logs' /\ ToSet(logged) \subseteq ToSet(logged')
  <2>1. UNCHANGED logVars
    BY <1>5 DEF Serve, FetchFails, Arrive, Save
  <2> QED
    BY <1>3, <2>1
<1> QED
  BY <1>1, <1>2, <1>4, <1>5 DEF PageNext

\* No step brings a line from elsewhere to the page.
LEMMA NextWithin ==
  ASSUME Logs, NEW T \in SUBSET Line, T = ToSet(logged'), ToSet(logged) \subseteq T,
         Within(T), [PageNext]_pageVars
  PROVE  Within(T)'
<1>0. /\ wire \in Seq(Texted(T)) /\ Len(wire) <= WireMax /\ Len(wire) \in Nat
      /\ shown \in [Copies -> Seq(T)] /\ \A c \in Copies : Len(shown[c]) <= CacheLimit
      /\ cached \in [Copies -> Pid] /\ timer \in [Copies -> BOOLEAN]
      /\ request \in [Copies -> Requests(T)] /\ stored \in Texted(T)
      /\ visits \in 0..MaxVisits /\ WireMax \in Nat /\ MaxVisits \in Nat
  BY PageAssumption, LenProperties DEF Within
<1>a. /\ \A S : <<>> \in Seq(S)
      /\ Len(<<>>) = 0 /\ TRUE \in BOOLEAN /\ FALSE \in BOOLEAN
  BY EmptySeq
<1>b. Idle \in Requests(T) /\ Asked \in Requests(T) /\ NoRecord \in Texted(T)
  <2>1. 0 \in Pid
    BY PageAssumption DEF Pid, Probe
  <2> QED
    BY <1>a, <2>1 DEF Idle, Asked, NoRecord, Requests, Texted
<1>c. ASSUME wire' \in Seq(Texted(T)), Len(wire') <= WireMax, UNCHANGED <<copies, browser>>
      PROVE  Within(T)'
  BY <1>0, <1>c DEF Within, copies, browser
<1>d. ASSUME NEW e \in Texted(T), Send(e)
      PROVE  wire' \in Seq(Texted(T)) /\ Len(wire') <= WireMax
  <2>1. /\ Len(wire) < WireMax /\ wire' = Append(wire, e)
    BY <1>d DEF Send
  <2>2. Len(wire') = Len(wire) + 1 /\ wire' \in Seq(Texted(T))
    BY <1>0, <2>1, AppendProperties
  <2> QED
    BY <1>0, <2>1, <2>2
<1>1. CASE NextLine
  <2> DEFINE line == [by |-> server, n |-> Len(logged) + 1]
  <2>1. /\ logged' = Append(logged, line) /\ Len(logged) < Len(Texts)
        /\ Send([pid |-> 0, lines |-> <<line>>]) \/ UNCHANGED wire
        /\ UNCHANGED <<copies, browser>>
    BY <1>1 DEF NextLine
  <2>2. line \in T
    <3>1. line \in Line /\ logged \in Seq(Line)
      BY <2>1, PageAssumption, LenProperties DEF Line, Logs
    <3> QED
      BY <2>1, <3>1, ElementsOfAppend
  <2> HIDE DEF line
  <2>3. <<line>> \in Seq(T) /\ 0 \in Pid
    BY <2>2, PageAssumption DEF Pid, Probe
  <2>4. [pid |-> 0, lines |-> <<line>>] \in Texted(T)
    BY <2>3 DEF Texted
  <2>5. wire' \in Seq(Texted(T)) /\ Len(wire') <= WireMax
    BY <1>0, <1>d, <2>1, <2>4
  <2> QED
    BY <1>c, <2>1, <2>5
<1>2. CASE ServerRestarts \/ UNCHANGED pageVars
  BY <1>0, <1>2, <1>c DEF ServerRestarts, pageVars
<1>3. CASE SendStatus
  <2>1. {server, Probe} \subseteq Pid
    BY PageAssumption DEF Logs, Pid, Probe
  <2>2. \A p \in Pid : [pid |-> p, lines |-> <<>>] \in Texted(T)
    BY <1>a DEF Texted
  <2>3. PICK p \in {server, Probe} :
            Send([pid |-> p, lines |-> <<>>]) /\ UNCHANGED <<copies, browser>>
    BY <1>3 DEF SendStatus
  <2>4. [pid |-> p, lines |-> <<>>] \in Texted(T)
    BY <2>1, <2>2
  <2> QED
    BY <1>c, <1>d, <2>3, <2>4
<1>4. CASE StreamBreaks
  BY <1>0, <1>4, <1>a, <1>c DEF StreamBreaks
<1>5. CASE Apply
  <2> DEFINE c == Streamed
  <2> DEFINE event == Head(wire)
  <2> DEFINE reset == 0 \notin {event.pid, cached[c]} /\ event.pid # cached[c]
  <2> DEFINE before == IF reset THEN <<>> ELSE shown[c]
  <2>1. /\ wire # <<>> /\ wire' = Tail(wire)
        /\ shown' = [shown EXCEPT ![c] = Kept(before \o event.lines)]
        /\ cached' = [cached EXCEPT ![c] = IF event.pid = 0 THEN cached[c] ELSE event.pid]
        /\ stored' = IF reset THEN NoRecord ELSE stored
        /\ timer' = [timer EXCEPT ![c] = timer[c] \/ event.lines # <<>>]
        /\ UNCHANGED <<visits, request>>
    BY <1>5 DEF Apply
  <2>2. c \in Copies
    BY DEF Streamed, Copies
  <2>3. /\ event \in Texted(T) /\ wire' \in Seq(Texted(T)) /\ Len(wire') <= WireMax
    <3>1. /\ event \in Texted(T) /\ Tail(wire) \in Seq(Texted(T))
          /\ Len(Tail(wire)) = Len(wire) - 1
      BY <1>0, <2>1, HeadTailProperties
    <3> QED
      BY <1>0, <2>1, <3>1
  <2>4. event.pid \in Pid /\ event.lines \in Seq(T)
    BY <2>3 DEF Texted
  <2>5. before \in Seq(T)
    BY <1>0, <1>a, <2>2
  <2>6. stored' \in Texted(T)
    BY <1>0, <1>b, <2>1
  <2> HIDE DEF event, reset, before, c
  <2>7. before \o event.lines \in Seq(T)
    BY <2>4, <2>5, ConcatProperties
  <2>8. Kept(before \o event.lines) \in Seq(T) /\ Len(Kept(before \o event.lines)) <= CacheLimit
    BY <2>7, KeptShape
  <2>9. shown' \in [Copies -> Seq(T)] /\ \A d \in Copies : Len(shown'[d]) <= CacheLimit
    BY <1>0, <2>1, <2>2, <2>8
  <2>10. cached' \in [Copies -> Pid]
    BY <1>0, <2>1, <2>2, <2>4
  <2>11. timer' \in [Copies -> BOOLEAN]
    <3>1. (timer[c] \/ event.lines # <<>>) \in BOOLEAN
      OBVIOUS
    <3> QED
      BY <1>0, <2>1, <2>2, <3>1, Zenon
  <2> QED
    BY <1>0, <2>1, <2>3, <2>6, <2>9, <2>10, <2>11 DEF Within
<1>6. CASE Look
  <2>1. /\ visits < MaxVisits /\ visits' = visits + 1
        /\ request' = [c \in Copies |-> IF request[c] = Idle THEN Asked ELSE request[c]]
        /\ UNCHANGED <<wire, stored, shown, cached, timer>>
    BY <1>6 DEF Look
  <2>2. request' \in [Copies -> Requests(T)]
    BY <1>0, <1>b, <2>1
  <2>3. visits' \in 0..MaxVisits
    BY <1>0, <2>1
  <2> QED
    BY <1>0, <2>1, <2>2, <2>3 DEF Within
<1>7. CASE LoadPage
  <2>1. /\ visits < MaxVisits /\ visits' = visits + 1 /\ wire' = <<>>
        /\ shown' = [c \in Copies |-> Kept(stored.lines)]
        /\ cached' = [c \in Copies |-> stored.pid]
        /\ timer' = [c \in Copies |-> FALSE] /\ stored' = stored
    BY <1>7 DEF LoadPage
  <2>2. PICK r \in {Idle, Asked} : request' = [c \in Copies |-> r]
    BY <1>7 DEF LoadPage
  <2>3. stored.lines \in Seq(T) /\ stored.pid \in Pid
    BY <1>0 DEF Texted
  <2>4. Kept(stored.lines) \in Seq(T) /\ Len(Kept(stored.lines)) <= CacheLimit
    BY <2>3, KeptShape
  <2>5. request' \in [Copies -> Requests(T)]
    BY <1>b, <2>2
  <2>6. shown' \in [Copies -> Seq(T)] /\ \A d \in Copies : Len(shown'[d]) <= CacheLimit
    BY <2>1, <2>4
  <2>7. cached' \in [Copies -> Pid] /\ timer' \in [Copies -> BOOLEAN]
    BY <1>a, <2>1, <2>3
  <2>8. visits' \in 0..MaxVisits
    BY <1>0, <2>1
  <2> QED
    BY <1>0, <1>a, <2>1, <2>5, <2>6, <2>7, <2>8 DEF Within
<1>8. ASSUME NEW c \in Copies, Serve(c) PROVE Within(T)'
  <2>1. /\ request' = [request EXCEPT ![c] =
                          [state |-> "answered", lines |-> LastLines(Log, FetchLines)]]
        /\ UNCHANGED <<wire, browser, shown, cached, timer>>
    BY <1>8 DEF Serve
  <2>2. Log \in Seq(T)
    <3>1. Log \in Seq(ToSet(logged))
      BY LogIs
    <3> QED
      BY <3>1, WiderSeq
  <2>3. LastLines(Log, FetchLines) \in Seq(T)
    BY <2>2, PageAssumption, LastLinesAre
  <2>4. [state |-> "answered", lines |-> LastLines(Log, FetchLines)] \in Requests(T)
    BY <2>3 DEF Requests
  <2>5. request' \in [Copies -> Requests(T)]
    BY <1>0, <2>1, <2>4
  <2> QED
    BY <1>0, <2>1, <2>5 DEF Within, browser
<1>9. ASSUME NEW c \in Copies, FetchFails(c) PROVE Within(T)'
  <2>1. request' = [request EXCEPT ![c] = Idle] /\ UNCHANGED <<wire, browser, shown, cached, timer>>
    BY <1>9 DEF FetchFails
  <2>2. request' \in [Copies -> Requests(T)]
    BY <1>0, <1>b, <2>1
  <2> QED
    BY <1>0, <2>1, <2>2 DEF Within, browser
<1>10. ASSUME NEW c \in Copies, Arrive(c) PROVE Within(T)'
  <2>1. /\ request' = [request EXCEPT ![c] = Idle]
        /\ UNCHANGED <<wire, browser, cached>>
        /\ \/ UNCHANGED <<shown, timer>>
           \/ /\ shown' = [shown EXCEPT ![c] = Merged(shown[c], request[c].lines)]
              /\ timer' = [timer EXCEPT ![c] = TRUE]
    BY <1>10 DEF Arrive
  <2>2. request' \in [Copies -> Requests(T)]
    BY <1>0, <1>b, <2>1
  <2>3. shown[c] \in Seq(T) /\ request[c].lines \in Seq(T)
    BY <1>0 DEF Requests
  <2>4. /\ Merged(shown[c], request[c].lines) \in Seq(T)
        /\ Len(Merged(shown[c], request[c].lines)) <= CacheLimit
    BY <2>3, MergedShape
  <2>5. shown' \in [Copies -> Seq(T)] /\ \A d \in Copies : Len(shown'[d]) <= CacheLimit
    BY <1>0, <2>1, <2>4
  <2>6. timer' \in [Copies -> BOOLEAN]
    BY <1>0, <1>a, <2>1
  <2> QED
    BY <1>0, <2>1, <2>2, <2>5, <2>6 DEF Within, browser
<1>11. ASSUME NEW c \in Copies, Save(c) PROVE Within(T)'
  <2>1. /\ timer' = [timer EXCEPT ![c] = FALSE]
        /\ stored' = [pid |-> cached[c], lines |-> Kept(shown[c])]
        /\ UNCHANGED <<wire, visits, shown, cached, request>>
    BY <1>11 DEF Save
  <2>2. Kept(shown[c]) \in Seq(T) /\ cached[c] \in Pid
    BY <1>0, KeptShape
  <2>3. stored' \in Texted(T)
    BY <2>1, <2>2 DEF Texted
  <2>4. timer' \in [Copies -> BOOLEAN]
    BY <1>0, <1>a, <2>1
  <2> QED
    BY <1>0, <2>1, <2>3, <2>4 DEF Within
<1> QED
  BY <1>1, <1>2, <1>3, <1>4, <1>5, <1>6, <1>7, <1>8, <1>9, <1>10, <1>11 DEF PageNext

LEMMA NextAnswers ==
  ASSUME Logs, Within(ToSet(logged)), Answers, [PageNext]_pageVars
  PROVE  Answers'
<1>0. /\ DOMAIN request = Copies /\ \A c \in Copies : Stretch(request[c].lines)
  BY DEF Within, Answers
<1>1. Stretch(Idle.lines) /\ Stretch(Asked.lines)
  <2>1. Stretch(<<>>)
    BY EmptySeq DEF Stretch
  <2> QED
    BY <2>1 DEF Idle, Asked
<1>2. ASSUME UNCHANGED request PROVE Answers'
  BY <1>0, <1>2 DEF Answers
<1>3. ASSUME NEW c \in Copies, NEW r, Stretch(r.lines), request' = [request EXCEPT ![c] = r]
      PROVE  Answers'
  BY <1>0, <1>3 DEF Answers
<1>4. CASE \/ NextLine \/ ServerRestarts \/ SendStatus \/ StreamBreaks \/ Apply
           \/ UNCHANGED pageVars
  BY <1>2, <1>4
     DEF NextLine, ServerRestarts, SendStatus, StreamBreaks, Apply, pageVars, copies
<1>5. CASE Look
  <2>1. request' = [c \in Copies |-> IF request[c] = Idle THEN Asked ELSE request[c]]
    BY <1>5 DEF Look
  <2> QED
    BY <1>0, <1>1, <2>1 DEF Answers
<1>6. CASE LoadPage
  <2>1. PICK r \in {Idle, Asked} : request' = [c \in Copies |-> r]
    BY <1>6 DEF LoadPage
  <2> QED
    BY <1>1, <2>1 DEF Answers
<1>7. ASSUME NEW c \in Copies, Serve(c) PROVE Answers'
  <2> DEFINE r == [state |-> "answered", lines |-> LastLines(Log, FetchLines)]
  <2>1. request' = [request EXCEPT ![c] = r]
    BY <1>7 DEF Serve
  <2>2. Stretch(LastLines(Log, FetchLines))
    BY LogIs, StretchEnds, PageAssumption
  <2>3. Stretch(r.lines)
    BY <2>2
  <2> HIDE DEF r
  <2> QED
    BY <1>3, <2>1, <2>3
<1>8. ASSUME NEW c \in Copies, FetchFails(c) \/ Arrive(c) PROVE Answers'
  <2>1. request' = [request EXCEPT ![c] = Idle]
    BY <1>8 DEF FetchFails, Arrive
  <2> QED
    BY <1>1, <1>3, <2>1
<1>9. ASSUME NEW c \in Copies, Save(c) PROVE Answers'
  BY <1>2, <1>9 DEF Save
<1> QED
  BY <1>4, <1>5, <1>6, <1>7, <1>8, <1>9 DEF PageNext

\* The argument as a whole.
THEOREM PageInvariance == PageSpec => []PageInv
<1>1. PageInv /\ [PageNext]_pageVars => PageInv'
  <2> SUFFICES ASSUME PageInv, [PageNext]_pageVars PROVE PageInv'
    OBVIOUS
  <2>1. Logs /\ Within(ToSet(logged)) /\ Answers
    BY DEF PageInv
  <2>2. Logs' /\ ToSet(logged) \subseteq ToSet(logged')
    BY <2>1, NextLogs
  <2>3. PICK T : T = ToSet(logged')
    OBVIOUS
  <2>4. T \in SUBSET Line
    <3>1. logged' \in Seq(Line)
      BY <2>2 DEF Logs
    <3> QED
      BY <2>3, <3>1, LoggedAreLines
  <2>5. Within(T)
    BY <2>1, <2>2, <2>3, WiderWithin
  <2>6. Within(T)'
    BY <2>1, <2>2, <2>3, <2>4, <2>5, NextWithin
  <2>7. Within(ToSet(logged))'
    BY <2>3, <2>6, Zenon DEF Within
  <2>8. Answers'
    BY <2>1, NextAnswers
  <2> QED
    BY <2>2, <2>7, <2>8 DEF PageInv
<1> QED
  BY InitPageInv, <1>1, PTL DEF PageSpec

\* Every variable of the page keeps to its values.
THEOREM PageTypeCorrect == PageSpec => []PageTypeOK
<1>1. PageInv => PageTypeOK
  <2> SUFFICES ASSUME PageInv PROVE PageTypeOK
    OBVIOUS
  <2>1. /\ server \in 1..MaxServers /\ logged \in Seq(Line) /\ Len(logged) <= Len(Texts)
        /\ earlier \in 0..Len(logged)
    BY DEF PageInv, Logs
  <2>2. Within(Line)
    BY <2>1, LoggedAreLines, WiderWithin DEF PageInv
  <2> QED
    BY <2>1, <2>2 DEF Within, Texted, Requests, PageTypeOK
<1> QED
  BY <1>1, PageInvariance, PTL

\* An answer is taken over where it arrives, and nowhere else.
LEMMA TakenAtArrival ==
  ASSUME Within(ToSet(logged)), [PageNext]_pageVars, NEW c \in Copies, TakesOver(c)
  PROVE  shown'[c] = Merged(shown[c], request[c].lines)
<1>0. /\ shown \in [Copies -> Seq(ToSet(logged))]
      /\ request \in [Copies -> Requests(ToSet(logged))] /\ visits \in Nat
  BY PageAssumption DEF Within
<1>1. /\ request[c].state = "answered" /\ request[c].lines # <<>> /\ request'[c] = Idle
      /\ visits' = visits
  BY DEF TakesOver
<1>2. request'[c] # request[c]
  BY <1>1 DEF Idle
<1>3. CASE \/ NextLine \/ ServerRestarts \/ SendStatus \/ StreamBreaks \/ Apply
           \/ UNCHANGED pageVars
  BY <1>2, <1>3
     DEF NextLine, ServerRestarts, SendStatus, StreamBreaks, Apply, pageVars, copies
<1>4. CASE Look \/ LoadPage
  <2>1. visits' = visits + 1
    BY <1>4 DEF Look, LoadPage
  <2> QED
    BY <1>0, <1>1, <2>1
<1>5. ASSUME NEW d \in Copies, Save(d)
      PROVE  FALSE
  BY <1>2, <1>5 DEF Save
<1>6. ASSUME NEW d \in Copies, Serve(d) \/ FetchFails(d)
      PROVE  FALSE
  <2>1. request[d].state = "asked" /\ \E r : request' = [request EXCEPT ![d] = r]
    BY <1>6 DEF Serve, FetchFails
  <2>2. d # c
    BY <1>1, <2>1
  <2> QED
    BY <1>0, <1>2, <2>1, <2>2
<1>7. ASSUME NEW d \in Copies, Arrive(d)
      PROVE  shown'[c] = Merged(shown[c], request[c].lines)
  <2>1. d = c
    BY <1>0, <1>2, <1>7 DEF Arrive
  <2>2. shown' = [shown EXCEPT ![c] = Merged(shown[c], request[c].lines)]
    BY <1>1, <1>7, <2>1 DEF Arrive
  <2> QED
    BY <1>0, <2>2
<1> QED
  BY <1>3, <1>4, <1>5, <1>6, <1>7 DEF PageNext

\* Whatever happened to the stream: an answer that is still the end of the
\* log makes what a copy shows end as the log does.
THEOREM FreshAnswersHeal == PageSpec => FreshAnswerHeals
<1> DEFINE Heals(c) ==
      TakesOver(c) /\ request[c].lines = LastLines(Log, FetchLines) =>
           LET n == Least(OverlapMax, Least(Len(shown'[c]), Len(Log)))
           IN  TextOf(LastLines(shown'[c], n)) = TextOf(LastLines(Log, n))
<1>1. ASSUME PageInv, [PageNext]_pageVars, NEW c \in Copies PROVE Heals(c)
  <2> SUFFICES ASSUME TakesOver(c), request[c].lines = LastLines(Log, FetchLines)
               PROVE  LET n == Least(OverlapMax, Least(Len(shown'[c]), Len(Log)))
                      IN  TextOf(LastLines(shown'[c], n)) = TextOf(LastLines(Log, n))
    BY Zenon
  <2>1. Logs /\ Within(ToSet(logged))
    BY <1>1 DEF PageInv
  <2>2. Log \in Seq(Line)
    BY <2>1, LogIs
  <2>3. shown[c] \in Seq(Line)
    <3>1. ToSet(logged) \subseteq Line
      BY <2>1, LoggedAreLines DEF Logs
    <3> QED
      BY <2>1, <3>1, WiderSeq DEF Within
  <2>4. shown'[c] = Merged(shown[c], request[c].lines)
    BY <1>1, <2>1, TakenAtArrival
  <2> DEFINE n == Least(OverlapMax, Least(Len(shown'[c]), Len(Log)))
  <2>5. TextOf(LastLines(shown'[c], n)) = TextOf(LastLines(Log, n))
    BY <2>2, <2>3, <2>4, MergedEnds
  <2> QED
    BY <2>5
<1>2. PageInv /\ [PageNext]_pageVars => [\A c \in Copies : Heals(c)]_copies
  BY <1>1
<1> QED
  BY <1>2, PageInvariance, PTL DEF PageSpec, FreshAnswerHeals

\* A merge tears no hole and doubles nothing, as long as the texts compared
\* occur only once in all logs.
THEOREM CompleteStays == PageSpec => CompleteStaysComplete
<1> DEFINE Block(c) == LastLines(shown[c], Overlap(shown[c], request[c].lines))
<1> DEFINE Stays(c) ==
      TakesOver(c) /\ Stretch(shown[c]) /\ Cardinality(Matches(Block(c), logged)) <= 1
               => Stretch(shown'[c])
<1>1. ASSUME PageInv, [PageNext]_pageVars, NEW c \in Copies PROVE Stays(c)
  <2> SUFFICES ASSUME TakesOver(c), Stretch(shown[c]),
                      Cardinality(Matches(Block(c), logged)) <= 1
               PROVE  Stretch(shown'[c])
    OBVIOUS
  <2>1. Logs /\ Within(ToSet(logged)) /\ Stretch(request[c].lines)
    BY <1>1 DEF PageInv, Answers
  <2>2. /\ shown[c] \in Seq(ToSet(logged)) /\ request[c].lines \in Seq(ToSet(logged))
        /\ logged \in Seq(Line) /\ Numbered(logged)
    BY <2>1 DEF Within, Requests, Logs
  <2>3. request[c].lines # <<>>
    BY DEF TakesOver
  <2>4. shown'[c] = Merged(shown[c], request[c].lines)
    BY <1>1, <2>1, TakenAtArrival
  <2>5. Stretch(Merged(shown[c], request[c].lines))
    BY <2>1, <2>2, <2>3, MergedStretch DEF Numbered
  <2> QED
    BY <2>4, <2>5
<1>2. PageInv /\ [PageNext]_pageVars => [\A c \in Copies : Stays(c)]_copies
  BY <1>1
<1> QED
  BY <1>2, PageInvariance, PTL DEF PageSpec, CompleteStaysComplete
=============================================================================
