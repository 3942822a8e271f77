-------------------------- MODULE HelmRender_proofs --------------------------
(***************************************************************************)
(* Proofs about HelmRender for every value of its constants.  The range    *)
(* loop of renderResources, which deletes keys of the map it ranges over,  *)
(* removes exactly the keys its test excludes, whatever order it visits   *)
(* them in (FilterExactInvariant); and the test (path.Base, then the       *)
(* prefix and suffix checks) excludes exactly what the reference excludes, *)
(* so the output is the one the spec describes (FilterSoundInvariant).     *)
(* path.Base is taken apart through the extrema it is defined with; their *)
(* existence comes from the well-foundedness of < on Nat.                  *)
(***************************************************************************)
EXTENDS HelmRender, SequenceTheorems, WellFoundedInduction, TLAPS

(* The ignored suffixes are sequences of characters.  (The assumption is  *)
(* cited only through this lemma and SlashUnderscore: the SMT backend     *)
(* cannot encode the string "_", so facts that mention it go to Zenon.)   *)
LEMMA SuffixesAreSeqs == IgnoreSuffixes \subseteq Seq(Chars)
BY HelmAssumption, Zenon

(* The suffix half of the reference: a name ends with a suffix exactly    *)
(* when it is some name followed by that suffix.                           *)
RefIgnored(k) ==
    \E s \in IgnoreSuffixes, u \in SeqOf(Chars, Len(k)) : u \o s = k

(* IsSuffix, which compares reversed prefixes, says that the last       *)
(* Len(s) characters of k are those of s.                               *)
LEMMA SuffixByIndex ==
    ASSUME NEW k \in Seq(Chars), NEW s \in Seq(Chars)
    PROVE  IsSuffix(s, k) <=>
             /\ Len(s) <= Len(k)
             /\ \A j \in 1..Len(s) : s[Len(s) - j + 1] = k[Len(k) - j + 1]
<1>1. Reverse(s) \in Seq(Chars) /\ Len(Reverse(s)) = Len(s)
    BY DEF Reverse
<1>2. Reverse(k) \in Seq(Chars) /\ Len(Reverse(k)) = Len(k)
    BY DEF Reverse
<1>3. Len(s) <= Len(k) => 
        (SubSeq(Reverse(s), 1, Len(s)) = SubSeq(Reverse(k), 1, Len(s))
         <=> \A j \in 1..Len(s) : Reverse(s)[j] = Reverse(k)[j])
    BY <1>1, <1>2
<1>4. Len(s) <= Len(k) =>
        \A j \in 1..Len(s) : /\ Reverse(s)[j] = s[Len(s) - j + 1]
                            /\ Reverse(k)[j] = k[Len(k) - j + 1]
    BY DEF Reverse
<1>5. QED
    BY <1>1, <1>2, <1>3, <1>4 DEF IsSuffix, IsPrefix
(* A name that ends with s is its first Len(k) - Len(s) characters       *)
(* followed by s.                                                       *)
LEMMA SuffixSplit ==
    ASSUME NEW k \in Seq(Chars), NEW s \in Seq(Chars), Len(s) <= Len(k),
           \A j \in 1..Len(s) : s[Len(s) - j + 1] = k[Len(k) - j + 1]
    PROVE  /\ SubSeq(k, 1, Len(k) - Len(s)) \in SeqOf(Chars, Len(k))
           /\ SubSeq(k, 1, Len(k) - Len(s)) \o s = k
<1> DEFINE m == Len(k) - Len(s)
           u == SubSeq(k, 1, m)
<1>1. \A i \in 1..Len(s) : s[i] = k[m + i]
    <2> TAKE i \in 1..Len(s)
    <2>1. Len(s) - i + 1 \in 1..Len(s) /\ Len(s) - (Len(s) - i + 1) + 1 = i
        OBVIOUS
    <2>2. Len(k) - (Len(s) - i + 1) + 1 = m + i
        OBVIOUS
    <2>3. QED
        BY <2>1, <2>2
<1>2. /\ m \in 0..Len(k)
      /\ u \in Seq(Chars) /\ Len(u) = m
      /\ \A i \in 1..m : u[i] = k[i]
    <2>1. \A i \in 1..m : k[i] \in Chars
        BY ElementOfSeq
    <2>2. QED
        BY <2>1, SubSeqProperties
<1>3. u \in SeqOf(Chars, Len(k))
    <2>1. u \in [1..m -> Chars]
        BY <1>2, LenProperties
    <2>2. QED
        BY <1>2, <2>1 DEF SeqOf
<1>4. /\ u \o s \in Seq(Chars)
      /\ Len(u \o s) = Len(k)
      /\ \A i \in 1..Len(k) : (u \o s)[i] = IF i <= m THEN u[i] ELSE s[i - m]
    BY <1>2, ConcatProperties
<1>5. \A i \in 1..Len(k) : (u \o s)[i] = k[i]
    BY <1>1, <1>2, <1>4
<1>6. u \o s = k
    BY <1>4, <1>5, SeqEqual
<1>7. QED
    BY <1>3, <1>6

(* A name made of some u followed by s ends with s.                      *)
LEMMA SuffixJoin ==
    ASSUME NEW k \in Seq(Chars), NEW s \in Seq(Chars),
           NEW u \in Seq(Chars), u \o s = k
    PROVE  /\ Len(s) <= Len(k)
           /\ \A j \in 1..Len(s) : s[Len(s) - j + 1] = k[Len(k) - j + 1]
<1>1. Len(k) = Len(u) + Len(s)
    OBVIOUS
<1>2. \A i \in 1..Len(s) : k[Len(u) + i] = s[i]
    OBVIOUS
<1>3. QED
    BY <1>1, <1>2

(* The code's suffix test agrees with the reference for every file name.   *)
LEMMA IgnoredIsRefIgnored ==
    ASSUME NEW k \in FileNames PROVE Ignored(k) <=> RefIgnored(k)
<1>1. k \in Seq(Chars)
    BY DEF FileNames, SeqOf
<1>2. IgnoreSuffixes \subseteq Seq(Chars)
    BY SuffixesAreSeqs
<1>3. ASSUME NEW s \in IgnoreSuffixes, IsSuffix(s, k) PROVE RefIgnored(k)
    <2>1. s \in Seq(Chars)
        BY <1>2
    <2>2. /\ Len(s) <= Len(k)
          /\ \A j \in 1..Len(s) : s[Len(s) - j + 1] = k[Len(k) - j + 1]
        BY <1>1, <1>3, <2>1, SuffixByIndex
    <2>3. QED
        BY <1>1, <2>1, <2>2, SuffixSplit DEF RefIgnored
<1>4. ASSUME NEW s \in IgnoreSuffixes, NEW u \in SeqOf(Chars, Len(k)), u \o s = k
      PROVE  IsSuffix(s, k)
    <2>1. u \in Seq(Chars)
        BY DEF SeqOf
    <2>2. QED
        BY <1>1, <1>2, <1>4, <2>1, SuffixJoin, SuffixByIndex
<1>5. QED
    BY <1>3, <1>4 DEF Ignored, RefIgnored

(* A nonempty set of naturals has a least element: the well-foundedness  *)
(* of < on Nat, through the library's WFMin.                              *)
LEMMA NatMinExists ==
    ASSUME NEW T \in SUBSET Nat, T # {}
    PROVE  \E x \in T : \A y \in T : x =< y
<1>1. \E x \in T : \A y \in T : ~(<<y, x>> \in OpToRel(<, Nat))
    BY WFMin, NatLessThanWellFounded
<1> DEFINE LT == {ss \in Nat \X Nat : ss[1] < ss[2]}
<1>2. OpToRel(<, Nat) = LT
    BY Zenon DEF OpToRel
<1>3. \E x \in T : \A y \in T : ~(<<y, x>> \in LT)
    BY <1>1, <1>2, Zenon
<1>4. PICK x \in T : \A y \in T : ~(<<y, x>> \in LT)
    BY <1>3
<1>5. \A y \in T : x =< y
    <2> TAKE y \in T
    <2>1. <<y, x>> \in Nat \X Nat
        OBVIOUS
    <2>2. ~(y < x)
        BY <1>4, <2>1, Zenon DEF LT
    <2>3. QED
        BY <2>2
<1>6. QED
    BY <1>5

(* Min, of FiniteSetsExt, is that least element.                         *)
LEMMA MinProps ==
    ASSUME NEW T \in SUBSET Nat, T # {}
    PROVE  Min(T) \in T /\ \A y \in T : Min(T) =< y
BY NatMinExists DEF Min

(* Max is the greatest element of a nonempty set of naturals below n.     *)
LEMMA MaxProps ==
    ASSUME NEW n \in Nat, NEW T \in SUBSET (0..n), T # {}
    PROVE  Max(T) \in T /\ \A y \in T : y =< Max(T)
<1> DEFINE U == {n - x : x \in T}
<1>1. U \in SUBSET Nat
    OBVIOUS
<1>2. U # {}
    OBVIOUS
<1>3. PICK u \in U : \A y \in U : u =< y
    BY <1>1, <1>2, NatMinExists
<1>4. \E x \in T : \A y \in T : y =< x
    BY <1>3
<1>5. QED
    BY <1>4 DEF Max

(* The names in the steps of path.Base: where the trailing slashes of k  *)
(* start, and where its last segment starts.                              *)
TrailSet(k) == {j \in 0..Len(k) : \A m \in j + 1..Len(k) : k[m] = "/"}
TrailStart(k) == Min(TrailSet(k))
SegSet(k) == {0} \cup {m \in 1..TrailStart(k) : k[m] = "/"}
SegStart(k) == Max(SegSet(k))

(* StripTrailingSlashes keeps the first TrailStart(k) characters, which  *)
(* end with a character other than a slash, or are empty.                 *)
LEMMA TrailFacts ==
    ASSUME NEW k \in Seq(Chars)
    PROVE  /\ TrailStart(k) \in 0..Len(k)
           /\ \A m \in TrailStart(k) + 1..Len(k) : k[m] = "/"
           /\ TrailStart(k) > 0 => k[TrailStart(k)] # "/"
           /\ StripTrailingSlashes(k) = SubSeq(k, 1, TrailStart(k))
<1> DEFINE e == TrailStart(k)
<1>1. TrailSet(k) \in SUBSET Nat /\ Len(k) \in TrailSet(k)
    BY DEF TrailSet
<1>2. e \in TrailSet(k) /\ \A y \in TrailSet(k) : e =< y
    BY <1>1, MinProps DEF TrailStart
<1>3. e \in 0..Len(k) /\ \A m \in e + 1..Len(k) : k[m] = "/"
    BY <1>2 DEF TrailSet
<1>4. e > 0 => k[e] # "/"
    <2> SUFFICES ASSUME e > 0, k[e] = "/" PROVE FALSE
        OBVIOUS
    <2>1. e - 1 \in TrailSet(k)
        BY <1>3 DEF TrailSet
    <2>2. QED
        BY <1>2, <1>3, <2>1
<1>5. StripTrailingSlashes(k) = SubSeq(k, 1, e)
    BY DEF StripTrailingSlashes, TrailStart, TrailSet
<1>6. QED
    BY <1>3, <1>4, <1>5

(* The last segment starts after the last slash before TrailStart(k).    *)
LEMMA SegFacts ==
    ASSUME NEW k \in Seq(Chars), TrailStart(k) > 0
    PROVE  /\ SegStart(k) \in 0..TrailStart(k) - 1
           /\ SegStart(k) > 0 => k[SegStart(k)] = "/"
           /\ \A m \in 1..TrailStart(k) : k[m] = "/" => m =< SegStart(k)
<1> DEFINE e == TrailStart(k)
           i == SegStart(k)
<1>1. e \in 1..Len(k) /\ k[e] # "/"
    BY TrailFacts
<1>2. SegSet(k) \in SUBSET (0..e) /\ SegSet(k) # {}
    BY <1>1 DEF SegSet
<1>0. e \in Nat
    BY <1>1
<1>3. i \in SegSet(k) /\ \A y \in SegSet(k) : y =< i
    BY <1>0, <1>2, MaxProps, Zenon DEF SegStart
<1>4. i # e
    BY <1>1, <1>3 DEF SegSet
<1>5. i > 0 => k[i] = "/"
    BY <1>3 DEF SegSet
<1>6. ASSUME NEW m \in 1..e, k[m] = "/" PROVE m =< i
    <2>1. m \in SegSet(k)
        BY <1>6 DEF SegSet
    <2>2. QED
        BY <1>3, <2>1
<1>7. i \in 0..e
    BY <1>2, <1>3, Zenon
<1>9. i \in 0..e - 1
    BY <1>0, <1>4, <1>7
<1>8. QED
    BY <1>5, <1>6, <1>9

(* The characters path.Base and the partial test compare with.           *)
LEMMA SlashUnderscore == "_" \in Chars /\ "/" \in Chars
BY HelmAssumption, Zenon

(* The first element of a nonempty sequence, as a sequence.               *)
LEMMA FirstOfSeq ==
    ASSUME NEW S, NEW b \in Seq(S), Len(b) >= 1
    PROVE  SubSeq(b, 1, 1) = <<b[1]>>
<1>1. b[1] \in S
    BY ElementOfSeq
<1>2. SubSeq(b, 1, 1) \in Seq(S) /\ Len(SubSeq(b, 1, 1)) = 1
      /\ SubSeq(b, 1, 1)[1] = b[1]
    BY <1>1, SubSeqProperties
<1>3. <<b[1]>> \in Seq(S) /\ Len(<<b[1]>>) = 1 /\ <<b[1]>>[1] = b[1]
    BY <1>1
<1>4. \A i \in 1..Len(SubSeq(b, 1, 1)) : SubSeq(b, 1, 1)[i] = <<b[1]>>[i]
    BY <1>2, <1>3
<1>5. QED
    BY <1>2, <1>3, <1>4, SeqEqual, Zenon
LEMMA SubSeqSingleton ==
    ASSUME NEW S, NEW x \in S
    PROVE  SubSeq(<<x>>, 1, 1) = <<x>>
<1>1. <<x>> \in Seq(S) /\ Len(<<x>>) = 1 /\ <<x>>[1] = x
    OBVIOUS
<1>2. Len(<<x>>) >= 1
    BY <1>1
<1>3. SubSeq(<<x>>, 1, 1) = << <<x>>[1] >>
    BY <1>1, <1>2, FirstOfSeq, Zenon
<1>4. QED
    BY <1>1, <1>3

(* strings.HasPrefix with a one-character prefix tests the first character. *)
LEMMA PrefixOne ==
    ASSUME NEW S, NEW x \in S, NEW b \in Seq(S)
    PROVE  IsPrefix(<<x>>, b) <=> Len(b) >= 1 /\ b[1] = x
<1>1. <<x>> \in Seq(S) /\ Len(<<x>>) = 1 /\ <<x>>[1] = x
    OBVIOUS
<1>2. SubSeq(<<x>>, 1, 1) = <<x>>
    BY SubSeqSingleton, Zenon
<1>3. Len(b) >= 1 => SubSeq(b, 1, 1) = <<b[1]>>
    BY FirstOfSeq
<1>4. QED
    BY <1>1, <1>2, <1>3 DEF IsPrefix

LEMMA PrefixUnderscore ==
    ASSUME NEW b \in Seq(Chars)
    PROVE  IsPrefix(<<"_">>, b) <=> Len(b) >= 1 /\ b[1] = "_"
BY SlashUnderscore, PrefixOne, Zenon

(* SubSeq on a range inside a sequence, from the library's SubSeqProperties. *)
LEMMA SubSeqOfSeq ==
    ASSUME NEW S, NEW s \in Seq(S), NEW m \in 1..Len(s), NEW n \in m..Len(s)
    PROVE  /\ SubSeq(s, m, n) \in Seq(S)
           /\ Len(SubSeq(s, m, n)) = n - m + 1
           /\ \A j \in 1..n - m + 1 : SubSeq(s, m, n)[j] = s[m + j - 1]
<1>1. \A j \in m..n : s[j] \in S
    BY ElementOfSeq
<1>2. QED
    BY <1>1, SubSeqProperties

(* A one-element sequence.                                                *)
LEMMA SingletonSeq ==
    ASSUME NEW S, NEW x \in S
    PROVE  <<x>> \in Seq(S) /\ Len(<<x>>) = 1 /\ <<x>>[1] = x
OBVIOUS

(* The partial test in index form: the name has a last segment, and it   *)
(* starts with an underscore.                                             *)
PartialCond(k) == TrailStart(k) > 0 /\ k[SegStart(k) + 1] = "_"

(* The code's test, strings.HasPrefix(path.Base(k), "_"), in index form.  *)
LEMMA BaseForm ==
    ASSUME NEW k \in Seq(Chars), k # << >>
    PROVE  Partial(k) <=> PartialCond(k)
<1> DEFINE e == TrailStart(k)
           t == SubSeq(k, 1, e)
           i == SegStart(k)
<1>1. e \in 0..Len(k) /\ StripTrailingSlashes(k) = t
    BY TrailFacts
<1>2. t \in Seq(Chars) /\ Len(t) = e /\ \A m \in 1..e : t[m] = k[m]
    <2>1. \A m \in 1..e : k[m] \in Chars
        BY <1>1, ElementOfSeq
    <2>2. QED
        BY <1>1, <2>1, SubSeqProperties
<1>3. CASE e = 0
    <2>1. t = << >>
        BY <1>2, <1>3, EmptySeq
    <2>2. Base(k) = <<"/">>
        BY <1>1, <2>1 DEF Base
    <2>3. <<"/">> \in Seq(Chars) /\ Len(<<"/">>) = 1 /\ <<"/">>[1] = "/"
        BY SlashUnderscore, SingletonSeq, Zenon
    <2>4. ~Partial(k)
        BY <2>2, <2>3, PrefixUnderscore DEF Partial
    <2>5. QED
        BY <1>3, <2>4 DEF PartialCond
<1>4. CASE e > 0
    <2>1. i \in 0..e - 1
        BY <1>4, SegFacts
    <2>2. {m \in 1..Len(t) : t[m] = "/"} = {m \in 1..e : k[m] = "/"}
        BY <1>2
    <2>3. t # << >>
        BY <1>2, <1>4
    <2>4. Base(k) = SubSeq(t, i + 1, Len(t))
        BY <1>1, <2>2, <2>3, Zenon DEF Base, SegStart, SegSet
    <2>5. /\ Base(k) \in Seq(Chars) /\ Len(Base(k)) = e - i
          /\ Base(k)[1] = k[i + 1]
        <3>1. i + 1 \in 1..Len(t) /\ e \in i + 1..Len(t)
            BY <1>1, <1>2, <1>4, <2>1
        <3>2. /\ SubSeq(t, i + 1, e) \in Seq(Chars)
              /\ Len(SubSeq(t, i + 1, e)) = e - i
              /\ SubSeq(t, i + 1, e)[1] = t[i + 1]
            <4>1. /\ SubSeq(t, i + 1, e) \in Seq(Chars)
                  /\ Len(SubSeq(t, i + 1, e)) = e - (i + 1) + 1
                  /\ \A j \in 1..e - (i + 1) + 1 :
                        SubSeq(t, i + 1, e)[j] = t[(i + 1) + j - 1]
                BY <1>2, <3>1, SubSeqOfSeq, Zenon
            <4>2. QED
                BY <1>1, <2>1, <4>1
        <3>3. QED
            BY <1>2, <2>1, <2>4, <3>2
    <2>6. Partial(k) <=> Len(Base(k)) >= 1 /\ Base(k)[1] = "_"
        BY <2>5, PrefixUnderscore, Zenon DEF Partial
    <2>7. Len(Base(k)) >= 1
        BY <1>1, <2>1, <2>5
    <2>8. QED
        BY <1>4, <2>5, <2>6, <2>7, Zenon DEF PartialCond
<1>5. QED
    BY <1>1, <1>3, <1>4

(* The reference RefPartial in the same index form.                       *)
LEMMA RefForm ==
    ASSUME NEW k \in Seq(Chars)
    PROVE  RefPartial(k) <=> PartialCond(k)
<1> DEFINE e == TrailStart(k)
           b == SegStart(k)
<1>1. /\ e \in 0..Len(k)
      /\ \A m \in e + 1..Len(k) : k[m] = "/"
      /\ e > 0 => k[e] # "/"
    BY TrailFacts
<1>2. ASSUME RefPartial(k) PROVE PartialCond(k)
    <2>1. PICK i0 \in 1..Len(k) :
             /\ k[i0] = "_" /\ (i0 = 1 \/ k[i0 - 1] = "/")
             /\ \A m \in i0 + 1..Len(k) :
                   k[m] = "/" => \A n \in m..Len(k) : k[n] = "/"
        BY <1>2, Zenon DEF RefPartial
    <2>0. /\ k[i0] # "/" /\ (i0 = 1 \/ k[i0 - 1] = "/")
          /\ \A m \in i0 + 1..Len(k) :
                k[m] = "/" => \A n \in m..Len(k) : k[n] = "/"
        BY <2>1, Zenon
    <2>2. i0 =< e
        <3> SUFFICES ASSUME i0 > e PROVE FALSE
            BY <1>1
        <3>1. i0 \in e + 1..Len(k)
            BY <1>1
        <3>2. k[i0] = "/"
            BY <1>1, <3>1
        <3>3. QED
            BY <2>0, <3>2
    <2>3. e > 0
        BY <1>1, <2>2
    <2>4. /\ b \in 0..e - 1
          /\ b > 0 => k[b] = "/"
          /\ \A m \in 1..e : k[m] = "/" => m =< b
        BY <2>3, SegFacts
    <2>5. i0 - 1 =< b
        <3>1. CASE i0 = 1
            BY <1>1, <3>1, <2>4
        <3>2. CASE k[i0 - 1] = "/" /\ i0 # 1
            <4>1. i0 - 1 \in 1..e
                BY <1>1, <2>2, <3>2
            <4>2. QED
                BY <2>4, <3>2, <4>1
        <3>3. QED
            BY <2>0, <3>1, <3>2
    <2>6. ~(b >= i0)
        <3> SUFFICES ASSUME b >= i0 PROVE FALSE
            OBVIOUS
        <3>1. b > 0 /\ k[b] = "/"
            BY <2>4
        <3>2. CASE b = i0
            BY <2>0, <3>1, <3>2
        <3>3. CASE b >= i0 + 1
            <4>1. b \in i0 + 1..Len(k)
                BY <1>1, <2>4, <3>3
            <4>2. \A n \in b..Len(k) : k[n] = "/"
                BY <2>0, <3>1, <4>1
            <4>3. e \in b..Len(k)
                BY <1>1, <2>4
            <4>4. QED
                BY <1>1, <2>3, <4>2, <4>3
        <3>4. QED
            BY <2>4, <3>2, <3>3
    <2>7. b + 1 = i0
        <3>1. b \in Nat
            BY <2>4
        <3>2. QED
            BY <3>1, <2>5, <2>6
    <2>8. QED
        BY <2>1, <2>3, <2>7, Zenon DEF PartialCond
<1>3. ASSUME PartialCond(k) PROVE RefPartial(k)
    <2>1. e > 0
        BY <1>3, Zenon DEF PartialCond
    <2>2. k[b + 1] = "_"
        BY <1>3, Zenon DEF PartialCond
    <2>3. /\ b \in 0..e - 1
          /\ b > 0 => k[b] = "/"
          /\ \A m \in 1..e : k[m] = "/" => m =< b
        BY <2>1, SegFacts
    <2>4. PICK j \in 1..Len(k) : j = b + 1
        BY <1>1, <2>3
    <2>5. j = 1 \/ k[j - 1] = "/"
        BY <2>3, <2>4
    <2>6. \A m \in j + 1..Len(k) : k[m] = "/" => \A n \in m..Len(k) : k[n] = "/"
        BY <1>1, <2>3, <2>4
    <2>7. k[j] = "_"
        BY <2>2, <2>4, Zenon
    <2>8. QED
        BY <2>5, <2>6, <2>7, Zenon DEF RefPartial
<1>4. QED
    BY <1>2, <1>3

(* The code's partial test agrees with the reference for every file name. *)
LEMMA PartialIsRefPartial ==
    ASSUME NEW k \in FileNames PROVE Partial(k) <=> RefPartial(k)
<1>1. k \in Seq(Chars) /\ k # << >>
    BY DEF FileNames, SeqOf
<1>2. QED
    BY <1>1, BaseForm, RefForm

(* The key test of the loop body, lines 143-152.                           *)
Excluded(k) == Partial(k) \/ Ignored(k)

(* What the call returns when it succeeds: the rendered map without the    *)
(* keys the test excludes.                                                 *)
FilterExact == (pc = "done" /\ result = "output") =>
                   files = {k \in rendered : ~Excluded(k)}

(* The loop invariant: the keys already visited are kept exactly when the  *)
(* test keeps them, the keys not yet visited are all still in the map;    *)
(* nothing is rendered before the engine runs, and a successful return    *)
(* leaves no key unvisited.                                                *)
LoopInv ==
    /\ rendered \subseteq FileNames /\ todo \subseteq rendered
    /\ pc \in {"filter", "done"} =>
          files = {k \in rendered : k \in todo \/ ~Excluded(k)}
    /\ pc \in {"new", "render", "release", "engine"} =>
          rendered = {} /\ files = {} /\ todo = {}
    /\ result = "output" => pc = "done" /\ todo = {}
    /\ pc # "done" => result = "none"

LEMMA InitLoopInv == Init => LoopInv
BY DEF Init, LoopInv

LEMMA NextLoopInv == LoopInv /\ [Next]_vars => LoopInv'
<1> SUFFICES ASSUME LoopInv, [Next]_vars PROVE LoopInv'
    OBVIOUS
<1> USE DEF LoopInv
<1>1. CASE New \/ Render \/ RenderRelease
    BY <1>1 DEF New, Render, RenderRelease, Fail
<1>2. CASE EngineRender
    BY <1>2 DEF EngineRender, Fail, Range
<1>3. ASSUME NEW k \in FileNames, FilterKey(k) PROVE LoopInv'
    BY <1>3 DEF FilterKey, Excluded
<1>4. CASE FilterDone
    BY <1>4 DEF FilterDone
<1>5. CASE UNCHANGED vars
    BY <1>5 DEF vars
<1>6. QED
    BY <1>1, <1>2, <1>3, <1>4, <1>5 DEF Next

(* Whatever order the range loop visits the rendered map in, deleting the  *)
(* current key while ranging, a successful Helm render returns exactly the *)
(* rendered files that are not partials and have no ignored suffix.        *)
THEOREM FilterExactInvariant == Spec => []FilterExact
<1>1. LoopInv => FilterExact
    BY DEF LoopInv, FilterExact
<1>2. QED
    BY InitLoopInv, NextLoopInv, <1>1, PTL DEF Spec

(* The code's test excludes exactly the names the reference excludes.     *)
LEMMA ExcludedIsRefExcluded ==
    ASSUME NEW k \in FileNames PROVE Excluded(k) <=> RefExcluded(k)
BY PartialIsRefPartial, IgnoredIsRefIgnored, Zenon
   DEF Excluded, RefExcluded, RefIgnored

(* FilterSound for every alphabet, name length and suffix set: whatever   *)
(* order the range loop of renderResources visits the rendered map in, a  *)
(* successful Helm render returns exactly the rendered files whose base   *)
(* name does not start with an underscore and that end with no ignored    *)
(* suffix, as the spec's Rendered Output says.                            *)
THEOREM FilterSoundInvariant == Spec => []FilterSound
<1>1. LoopInv => FilterSound
    BY ExcludedIsRefExcluded DEF LoopInv, FilterSound
<1>2. QED
    BY InitLoopInv, NextLoopInv, <1>1, PTL DEF Spec
=============================================================================
