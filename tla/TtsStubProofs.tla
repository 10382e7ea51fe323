--------------------------- MODULE TtsStubProofs ----------------------------
(***************************************************************************)
(* What synth() writes for any number of words, and that the file an agent *)
(* plays is the one it wrote when nobody else touched it.  The loop over   *)
(* the words is a recursive function: a closed form satisfies its          *)
(* equation, so there is such a function, and the least turn of the loop   *)
(* at which the two differ would contradict the equation.                  *)
(***************************************************************************)
EXTENDS TtsStub, SequenceTheorems, FiniteSetTheorems, WellFoundedInduction, TLAPS

-----------------------------------------------------------------------------
(* Induction over the naturals, for sets.                                  *)

\* A set of naturals that is not empty has a least element.
LEMMA LeastNatural ==
    ASSUME NEW T, T \subseteq Nat, T # {}
    PROVE  \E x \in T : \A y \in T : x <= y
<1>1. IsWellFoundedOn(OpToRel(<, Nat), Nat)
  BY NatLessThanWellFounded
<1> DEFINE R == OpToRel(<, Nat)
<1>2. R = {ss \in Nat \X Nat : ss[1] < ss[2]}
  BY DEF OpToRel
<1> HIDE DEF R
<1>3. PICK x \in T : \A y \in T : ~ (<<y, x>> \in R)
  <2>1. \E x \in T : \A y \in T : ~ (<<y, x>> \in R)
    BY <1>1, WFMin DEF R
  <2> QED BY <2>1
<1>4. \A y \in T : x <= y
  <2> TAKE y \in T
  <2>1. x \in Nat /\ y \in Nat
    OBVIOUS
  <2>2. ~ (<<y, x>> \in R)
    BY <1>3
  <2> QED BY <2>1, <2>2, <1>2
<1> QED BY <1>4

\* A set of naturals with 0 and with the successor of each member is all of Nat.
LEMMA NaturalInduction ==
    ASSUME NEW T, T \subseteq Nat, 0 \in T, \A n \in T : n + 1 \in T
    PROVE  T = Nat
<1> SUFFICES ASSUME Nat \ T # {} PROVE FALSE
  OBVIOUS
<1>1. PICK x \in Nat \ T : \A y \in Nat \ T : x <= y
  BY LeastNatural
<1>2. x > 0
  BY <1>1
<1>3. x - 1 \in T
  BY <1>1, <1>2
<1> QED BY <1>1, <1>3

-----------------------------------------------------------------------------
(* What samples(words) is.                                                 *)

\* From the beginning of one word to that of the next.
Period == samples_per_word + samples_pause

\* The i-th sample belongs to the tone of the k-th word, counted from 0.
Sounds(i) == \E k \in Nat : k * Period + 1 <= i /\ i <= k * Period + samples_per_word

\* The first samples of a text without end.
Wave(len) == [i \in 1 .. len |-> IF Sounds(i) THEN "tone" ELSE "quiet"]

\* The length of the vector after n turns of the loop.
Length(n, words) ==
    IF n = 0 THEN 0 ELSE n * Period - (IF n < words THEN 0 ELSE samples_pause)

Sample == {"tone", "quiet"}

\* The lengths are positive.
LEMMA Lengths ==
    /\ samples_per_word \in Nat /\ samples_per_word > 0
    /\ samples_pause \in Nat /\ samples_pause > 0
    /\ Period \in Nat /\ Period = samples_per_word + samples_pause
BY TtsAssumption DEF Period

\* Words begin one period after the other.
LEMMA WordsApart ==
    ASSUME NEW k \in Nat, NEW n \in Nat, k < n
    PROVE  k * Period + Period <= n * Period
<1>1. PICK d \in Nat : n = k + 1 + d
  <2> WITNESS n - k - 1 \in Nat
  <2> QED OBVIOUS
<1>2. d * Period >= 0
  BY Lengths
<1>3. n * Period = k * Period + Period + d * Period
  BY <1>1, Lengths
<1>4. k * Period \in Nat /\ n * Period \in Nat /\ d * Period \in Nat
  BY Lengths
<1> QED BY <1>2, <1>3, <1>4, Lengths

\* The j-th sample of a word's period is a tone just when j is in the word.
LEMMA SoundsInWord ==
    ASSUME NEW n \in Nat, NEW j \in 1 .. Period
    PROVE  Sounds(n * Period + j) <=> j <= samples_per_word
<1>1. n * Period \in Nat
  BY Lengths
<1>2. ASSUME j <= samples_per_word PROVE Sounds(n * Period + j)
  <2>1. n * Period + 1 <= n * Period + j /\ n * Period + j <= n * Period + samples_per_word
    BY <1>1, <1>2, Lengths
  <2> QED BY <2>1 DEF Sounds
<1>3. ASSUME Sounds(n * Period + j) PROVE j <= samples_per_word
  <2>1. PICK k \in Nat : /\ k * Period + 1 <= n * Period + j
                         /\ n * Period + j <= k * Period + samples_per_word
    BY <1>3 DEF Sounds
  <2>2. k * Period \in Nat
    BY Lengths
  <2>3. CASE k < n
    <3>1. k * Period + Period <= n * Period
      BY <2>3, WordsApart
    <3> QED BY <3>1, <2>1, <2>2, <1>1, Lengths
  <2>4. CASE n < k
    <3>1. n * Period + Period <= k * Period
      BY <2>4, WordsApart
    <3> QED BY <3>1, <2>1, <2>2, <1>1, Lengths
  <2>5. CASE k = n
    BY <2>5, <2>1, <1>1, Lengths
  <2> QED BY <2>3, <2>4, <2>5
<1> QED BY <1>2, <1>3

\* A wave is a sequence of samples.
LEMMA WaveType ==
    ASSUME NEW len \in Nat
    PROVE  /\ Wave(len) \in Seq(Sample)
           /\ Len(Wave(len)) = len
           /\ DOMAIN Wave(len) = 1 .. len
           /\ \A i \in 1 .. len : Wave(len)[i] = "tone" <=> Sounds(i)
           /\ \A i \in 1 .. len : Wave(len)[i] = "quiet" <=> ~ Sounds(i)
BY DEF Wave, Sample

\* The lengths after two turns differ by one word and, but for the last one,
\* a pause.
LEMMA LengthStep ==
    ASSUME NEW words \in Nat, NEW n \in 1 .. words
    PROVE  /\ Length(n - 1, words) = (n - 1) * Period
           /\ (n - 1) * Period \in Nat
           /\ Length(n, words) = (n - 1) * Period
                 + (IF n < words THEN Period ELSE samples_per_word)
           /\ Length(n, words) \in Nat
<1>1. (n - 1) * Period \in Nat
  BY Lengths
<1>2. n * Period = (n - 1) * Period + Period
  BY Lengths
<1>3. (n = 1) => (n - 1) * Period = 0
  BY Lengths
<1>4. Length(n - 1, words) = (n - 1) * Period
  BY <1>1, <1>3 DEF Length
<1>5. Length(n, words) = (n - 1) * Period + (IF n < words THEN Period ELSE samples_per_word)
  BY <1>1, <1>2, Lengths DEF Length
<1> QED BY <1>1, <1>4, <1>5, Lengths

\* The samples of one word.
LEMMA WordType ==
    ASSUME NEW words \in Nat, NEW n \in 1 .. words
    PROVE  LET len == IF n < words THEN Period ELSE samples_per_word
           IN  /\ WordSamples(n, words) \in Seq(Sample)
               /\ Len(WordSamples(n, words)) = len
               /\ \A j \in 1 .. len : WordSamples(n, words)[j]
                     = IF j <= samples_per_word THEN "tone" ELSE "quiet"
<1> DEFINE tones == Times(samples_per_word, "tone")
           pause == Times(samples_pause, "quiet")
<1>1. /\ tones \in Seq(Sample) /\ Len(tones) = samples_per_word
      /\ \A j \in 1 .. samples_per_word : tones[j] = "tone"
  BY Lengths DEF Times, Sample
<1>2. /\ pause \in Seq(Sample) /\ Len(pause) = samples_pause
      /\ \A j \in 1 .. samples_pause : pause[j] = "quiet"
  BY Lengths DEF Times, Sample
<1> HIDE DEF tones, pause
<1>3. CASE n < words
  <2>1. WordSamples(n, words) = tones \o pause
    BY <1>3 DEF WordSamples, tones, pause
  <2>2. /\ tones \o pause \in Seq(Sample)
        /\ Len(tones \o pause) = Period
        /\ \A j \in 1 .. Period : (tones \o pause)[j]
              = IF j <= samples_per_word THEN tones[j] ELSE pause[j - samples_per_word]
    BY <1>1, <1>2, ConcatProperties, Lengths
  <2>3. \A j \in 1 .. Period : (tones \o pause)[j]
              = IF j <= samples_per_word THEN "tone" ELSE "quiet"
    BY <1>1, <1>2, <2>2, Lengths
  <2> QED BY <1>3, <2>1, <2>2, <2>3
<1>4. CASE ~ (n < words)
  <2>1. WordSamples(n, words) = tones \o <<>>
    BY <1>4 DEF WordSamples, tones
  <2>2. WordSamples(n, words) = tones
    BY <2>1, <1>1, ConcatEmptySeq
  <2> QED BY <1>4, <2>2, <1>1, Lengths
<1> QED BY <1>3, <1>4

\* One turn of the loop takes the wave to the end of the next word.
LEMMA WaveStep ==
    ASSUME NEW words \in Nat, NEW n \in 1 .. words
    PROVE  Wave(Length(n, words)) = Wave(Length(n - 1, words)) \o WordSamples(n, words)
<1> DEFINE len == IF n < words THEN Period ELSE samples_per_word
           base == (n - 1) * Period
           old == Wave(base)
           new == Wave(base + len)
           word == WordSamples(n, words)
<1>1. len \in Nat /\ len <= Period /\ base \in Nat
  BY Lengths
<1>2. /\ old \in Seq(Sample) /\ Len(old) = base
      /\ \A i \in 1 .. base : old[i] = IF Sounds(i) THEN "tone" ELSE "quiet"
  BY <1>1, WaveType DEF Wave
<1>3. /\ new \in Seq(Sample) /\ Len(new) = base + len
      /\ \A i \in 1 .. base + len :
            new[i] = IF Sounds(i) THEN "tone" ELSE "quiet"
  BY <1>1, WaveType DEF Wave
<1>4. /\ word \in Seq(Sample) /\ Len(word) = len
      /\ \A j \in 1 .. len : word[j] = IF j <= samples_per_word THEN "tone" ELSE "quiet"
  BY WordType
<1>5. /\ Wave(Length(n, words)) = new
      /\ Wave(Length(n - 1, words)) = old
  BY LengthStep
<1>6. ASSUME NEW j \in 1 .. len PROVE Sounds(base + j) <=> j <= samples_per_word
  <2>1. n - 1 \in Nat /\ j \in 1 .. Period
    BY <1>1, Lengths
  <2> QED BY <2>1, SoundsInWord
<1> HIDE DEF len, old, new, word, base
<1>7. /\ old \o word \in Seq(Sample)
      /\ Len(old \o word) = base + len
      /\ \A i \in 1 .. base + len : (old \o word)[i] =
            IF i <= base THEN old[i] ELSE word[i - base]
  BY <1>2, <1>4, ConcatProperties
<1>8. ASSUME NEW i \in 1 .. base + len PROVE (old \o word)[i] = new[i]
  <2>1. CASE i <= base
    <3>1. i \in 1 .. base
      BY <2>1, <1>1
    <3>2. (old \o word)[i] = old[i]
      BY <2>1, <1>7
    <3> QED BY <3>1, <3>2, <1>2, <1>3
  <2>2. CASE ~ (i <= base)
    <3>1. PICK j \in 1 .. len : i = base + j
      <4>1. i - base \in 1 .. len /\ i = base + (i - base)
        BY <1>1, <2>2
      <4> QED BY <4>1
    <3>2. (old \o word)[i] = word[j]
      BY <1>1, <1>7, <2>2, <3>1
    <3>3. Sounds(base + j) <=> j <= samples_per_word
      BY <1>6
    <3> QED BY <1>3, <1>4, <3>1, <3>2, <3>3
  <2> QED BY <2>1, <2>2
<1>9. new = old \o word
  BY <1>1, <1>3, <1>7, <1>8, SeqEqual
<1> QED BY <1>5, <1>9 DEF word

\* What the loop over the words leaves in the vector.
LEMMA SamplesAre ==
    ASSUME NEW words \in Nat
    PROVE  samples(words) = Wave(Length(words, words))
<1> DEFINE Loop(f) == [i \in 0 .. words |->
               IF i = 0 THEN <<>> ELSE f[i - 1] \o WordSamples(i, words)]
           sofar == CHOOSE f : f = Loop(f)
           waves == [n \in 0 .. words |-> Wave(Length(n, words))]
<1>1. samples(words) = sofar[words]
  BY DEF samples
<1>2. Wave(Length(0, words)) = <<>>
  BY DEF Wave, Length
<1>3. waves = Loop(waves)
  <2>1. ASSUME NEW i \in 0 .. words PROVE waves[i] = Loop(waves)[i]
    <3>1. CASE i = 0
      BY <1>2, <3>1
    <3>2. CASE i # 0
      <4>1. i \in 1 .. words /\ i - 1 \in 0 .. words
        BY <3>2
      <4>2. waves[i] = waves[i - 1] \o WordSamples(i, words)
        BY <4>1, WaveStep
      <4> QED BY <3>2, <4>2
    <3> QED BY <3>1, <3>2
  <2> HIDE DEF Loop
  <2>2. Loop(waves) = [i \in 0 .. words |-> Loop(waves)[i]]
    BY DEF Loop
  <2> QED BY <2>1, <2>2
<1>4. sofar = Loop(sofar)
  <2> HIDE DEF Loop, waves
  <2> QED BY <1>3
<1> HIDE DEF sofar
<1>5. sofar[words] = waves[words]
  <2> DEFINE T == {n \in Nat : n <= words => sofar[n] = waves[n]}
  <2>1. 0 \in T
    BY <1>2, <1>4
  <2>2. ASSUME NEW n \in T PROVE n + 1 \in T
    <3> SUFFICES ASSUME n + 1 <= words PROVE sofar[n + 1] = waves[n + 1]
      OBVIOUS
    <3>1. n + 1 \in 1 .. words /\ n \in 0 .. words /\ (n + 1) - 1 = n
      OBVIOUS
    <3>2. sofar[n] = waves[n]
      BY <3>1
    <3>3. ASSUME NEW f PROVE Loop(f)[n + 1] = f[n] \o WordSamples(n + 1, words)
      <4>1. n + 1 \in 0 .. words /\ n + 1 # 0
        BY <3>1
      <4>2. Loop(f)[n + 1] = f[(n + 1) - 1] \o WordSamples(n + 1, words)
        BY <4>1
      <4> QED BY <3>1, <4>2
    <3> HIDE DEF Loop, waves
    <3>4. Loop(sofar)[n + 1] = Loop(waves)[n + 1]
      BY <3>2, <3>3
    <3> QED BY <1>3, <1>4, <3>4
  <2>3. T \subseteq Nat
    OBVIOUS
  <2> HIDE DEF T
  <2>4. T = Nat
    BY <2>1, <2>2, <2>3, NaturalInduction
  <2>5. words \in T /\ words <= words
    BY <2>4
  <2> QED BY <2>5 DEF T
<1> QED BY <1>1, <1>5

-----------------------------------------------------------------------------
(* What writeWav() makes of it.                                            *)

\* data_bytes is even and no more than the bytes there are, and all of them
\* when the text fits.
LEMMA DataBytes ==
    ASSUME NEW len \in Nat
    PROVE  LET d == (len * 2) % U32
           IN  /\ d \in Nat
               /\ d \div 2 \in Nat
               /\ d = 2 * (d \div 2)
               /\ d \div 2 <= len
               /\ len * 2 < U32 => d = len * 2
<1> DEFINE d == (len * 2) % U32
           q == (len * 2) \div U32
           half == U32 \div 2
<1>1. U32 \in Nat /\ U32 > 0 /\ U32 = 2 * half /\ half \in Nat
  BY TtsAssumption
<1>2. q \in Nat /\ d \in Nat /\ d < U32 /\ len * 2 = U32 * q + d
  BY <1>1
<1>3. half * q \in Nat
  BY <1>1, <1>2
<1>4. U32 * q = 2 * (half * q)
  BY <1>1, <1>2
<1>5. d = 2 * (len - half * q)
  BY <1>2, <1>3, <1>4
<1>6. d \div 2 = len - half * q
  BY <1>2, <1>3, <1>5
<1>7. ASSUME len * 2 < U32 PROVE d = len * 2
  BY <1>1, <1>7
<1> HIDE DEF d, q, half
<1>8. d \div 2 \in Nat /\ d = 2 * (d \div 2) /\ d \div 2 <= len
  BY <1>2, <1>3, <1>5, <1>6
<1> QED BY <1>2, <1>7, <1>8 DEF d

\* The number of samples of a text.
LEMMA SamplesLength ==
    ASSUME NEW words \in Nat, words > 0
    PROVE  /\ Length(words, words) \in Nat
           /\ Length(words, words) = (words - 1) * Period + samples_per_word
           /\ samples(words) \in Seq(Sample)
           /\ Len(samples(words)) = Length(words, words)
<1>1. words \in 1 .. words /\ ~ (words < words)
  OBVIOUS
<1>2. /\ Length(words, words) \in Nat
      /\ Length(words, words) = (words - 1) * Period + samples_per_word
  BY <1>1, LengthStep
<1> QED BY <1>2, SamplesAre, WaveType

\* The file holds as many samples as its header says, from the beginning of the
\* text; all of them when the text fits.
LEMMA WavOf ==
    ASSUME NEW words \in Nat, words > 0
    PROVE  LET file == writeWav(samples(words))
           IN  /\ file \in [riff : Nat, data : Nat, samples : Seq(Sample)]
               /\ file.data = 2 * Len(file.samples)
               /\ file.riff = (36 + file.data) % U32
               /\ Fits(words) => file.samples = samples(words)
<1> DEFINE s == samples(words)
           len == Len(s)
           d == (len * 2) % U32
           part == SubSeq(s, 1, d \div 2)
<1>1. s \in Seq(Sample) /\ len \in Nat
  BY SamplesLength
<1>2. /\ d \in Nat /\ d \div 2 \in Nat /\ d = 2 * (d \div 2) /\ d \div 2 <= len
      /\ len * 2 < U32 => d = len * 2
  BY <1>1, DataBytes
<1>3. writeWav(s) = [riff |-> (36 + d) % U32, data |-> d, samples |-> part]
  BY DEF writeWav, data_bytes
<1>4. (36 + d) % U32 \in Nat
  <2>1. 36 + d \in Nat /\ U32 \in Nat \ {0}
    BY <1>2, TtsAssumption
  <2> QED BY <2>1
<1>5. Fits(words) <=> len * 2 < U32
  BY DEF Fits
<1> HIDE DEF s, d
<1>6. \A i \in 1 .. d \div 2 : s[i] \in Sample
  BY <1>1, <1>2, LenProperties
<1>7. /\ part \in Seq(Sample)
      /\ Len(part) = d \div 2
      /\ \A i \in 1 .. d \div 2 : part[i] = s[i]
  <2>1. /\ part \in Seq(Sample)
        /\ Len(part) = IF 1 <= d \div 2 THEN (d \div 2) - 1 + 1 ELSE 0
        /\ \A i \in 1 .. (d \div 2) - 1 + 1 : part[i] = s[1 + i - 1]
    BY <1>2, <1>6, SubSeqProperties
  <2> QED BY <1>2, <2>1
<1>8. ASSUME Fits(words) PROVE part = s
  <2>1. d \div 2 = len
    BY <1>1, <1>2, <1>5, <1>8
  <2> QED BY <1>1, <1>7, <2>1, SeqEqual
<1> HIDE DEF part
<1> QED BY <1>2, <1>3, <1>4, <1>7, <1>8 DEF s

-----------------------------------------------------------------------------
(* The beeps of a whole text.                                              *)

\* Every sample belongs to the period of one word.
LEMMA InSomeWord ==
    ASSUME NEW words \in Nat, words > 0, NEW i \in 1 .. Length(words, words)
    PROVE  \E k \in 0 .. words - 1, j \in 1 .. Period : i = k * Period + j
<1> DEFINE k == (i - 1) \div Period
           j == ((i - 1) % Period) + 1
<1>1. Period \in Nat /\ Period > 0 /\ i - 1 \in Nat
  BY Lengths, SamplesLength
<1>2. k \in Nat /\ j \in 1 .. Period /\ i = k * Period + j
  BY <1>1
<1> HIDE DEF k, j
<1>3. k <= words - 1
  <2> SUFFICES ASSUME words - 1 < k PROVE FALSE
    BY <1>2
  <2>1. (words - 1) * Period + Period <= k * Period
    <3>1. words - 1 \in Nat
      OBVIOUS
    <3> QED BY <1>2, <3>1, WordsApart
  <2>2. i <= (words - 1) * Period + samples_per_word
    BY SamplesLength
  <2>3. (words - 1) * Period \in Nat /\ k * Period \in Nat
    BY <1>2, Lengths
  <2> QED BY <1>2, <2>1, <2>2, <2>3, Lengths
<1> QED BY <1>2, <1>3

\* The place of a word in the text.
LEMMA WordPlace ==
    ASSUME NEW words \in Nat, words > 0, NEW k \in 0 .. words - 1
    PROVE  /\ k * Period \in Nat
           /\ k * Period + samples_per_word <= Length(words, words)
<1>1. k * Period \in Nat /\ (words - 1) * Period \in Nat
  BY Lengths
<1>2. k * Period <= (words - 1) * Period
  <2>1. CASE k = words - 1
    BY <2>1, <1>1
  <2>2. CASE k < words - 1
    BY <2>2, <1>1, WordsApart, Lengths
  <2> QED BY <2>1, <2>2
<1> QED BY <1>1, <1>2, SamplesLength, Lengths

\* Beeps begin where the words do.
LEMMA BeepsOf ==
    ASSUME NEW words \in Nat, words > 0
    PROVE  Beeps(samples(words)) = {k * Period + 1 : k \in 0 .. words - 1}
<1> DEFINE s == samples(words)
           len == Length(words, words)
<1>1. /\ len \in Nat /\ Len(s) = len
      /\ \A i \in 1 .. len : s[i] = "tone" <=> Sounds(i)
      /\ \A i \in 1 .. len : s[i] = "quiet" <=> ~ Sounds(i)
  BY SamplesLength, SamplesAre, WaveType
<1>2. Beeps(s) = {i \in 1 .. len : s[i] = "tone" /\ (i = 1 \/ s[i - 1] = "quiet")}
  BY <1>1 DEF Beeps
<1>3. \A i \in 1 .. len : \E k \in 0 .. words - 1, j \in 1 .. Period : i = k * Period + j
  BY InSomeWord
<1> HIDE DEF s, len
<1>4. ASSUME NEW i \in Beeps(s) PROVE \E k \in 0 .. words - 1 : i = k * Period + 1
  <2>1. i \in 1 .. len /\ s[i] = "tone" /\ (i = 1 \/ s[i - 1] = "quiet")
    BY <1>2
  <2>2. PICK k \in 0 .. words - 1, j \in 1 .. Period : i = k * Period + j
    BY <1>3, <2>1
  <2>3. k * Period \in Nat /\ k \in Nat
    BY WordPlace
  <2>4. ASSUME j > 1 PROVE FALSE
    <3>1. j <= samples_per_word
      BY <1>1, <2>1, <2>2, <2>3, SoundsInWord
    <3>2. j - 1 \in 1 .. Period /\ j - 1 <= samples_per_word /\ i - 1 = k * Period + (j - 1)
      BY <2>2, <2>3, <2>4, <3>1, Lengths
    <3>3. Sounds(i - 1)
      BY <2>3, <3>2, SoundsInWord
    <3>4. i # 1 /\ i - 1 \in 1 .. len
      BY <1>1, <2>1, <2>2, <2>3, <2>4
    <3> QED BY <1>1, <2>1, <3>3, <3>4
  <2>5. j = 1
    BY <2>4, Lengths
  <2> QED BY <2>2, <2>5
<1>5. ASSUME NEW k \in 0 .. words - 1 PROVE k * Period + 1 \in Beeps(s)
  <2> DEFINE base == k * Period
  <2>1. base \in Nat /\ base + samples_per_word <= len /\ k \in Nat
    BY WordPlace DEF len
  <2>2. Sounds(base + 1)
    <3>1. 1 \in 1 .. Period /\ 1 <= samples_per_word
      BY Lengths
    <3> QED BY <2>1, <3>1, SoundsInWord
  <2>3. CASE k = 0
    <3>1. base = 0
      BY <2>3, Lengths
    <3> QED BY <1>1, <1>2, <2>1, <2>2, <3>1, Lengths
  <2>4. CASE k # 0
    <3>1. k - 1 \in Nat /\ Period \in 1 .. Period /\ ~ (Period <= samples_per_word)
      BY <2>1, <2>4, Lengths
    <3>2. ~ Sounds((k - 1) * Period + Period)
      BY <3>1, SoundsInWord
    <3>3. (k - 1) * Period + Period = base
      BY <2>1, Lengths
    <3>4. (k - 1) * Period \in Nat
      BY <3>1, Lengths
    <3> HIDE DEF base
    <3>5. base \in 1 .. len /\ base + 1 \in 1 .. len /\ (base + 1) - 1 = base
      BY <1>1, <2>1, <3>3, <3>4, Lengths
    <3>6. s[base + 1] = "tone" /\ s[base] = "quiet"
      BY <1>1, <2>2, <3>2, <3>3, <3>5
    <3>7. base + 1 \in Beeps(s)
      BY <1>2, <3>5, <3>6
    <3> QED BY <3>7 DEF base
  <2> QED BY <2>3, <2>4
<1>6. Beeps(s) = {k * Period + 1 : k \in 0 .. words - 1}
  BY <1>4, <1>5
<1> QED BY <1>6 DEF s

\* There is one for each word.
LEMMA BeepCount ==
    ASSUME NEW words \in Nat, words > 0
    PROVE  Cardinality(Beeps(samples(words))) = words
<1> DEFINE B == {k * Period + 1 : k \in 0 .. words - 1}
           f == [k \in 0 .. words - 1 |-> k * Period + 1]
<1>1. f \in Surjection(0 .. words - 1, B)
  BY DEF Surjection
<1>2. ASSUME NEW k \in 0 .. words - 1, NEW n \in 0 .. words - 1, k < n
      PROVE  f[k] # f[n]
  <2>1. k * Period + Period <= n * Period /\ k * Period \in Nat /\ n * Period \in Nat
    BY <1>2, WordsApart, WordPlace
  <2> QED BY <2>1, Lengths
<1>3. \A k, n \in 0 .. words - 1 : f[k] = f[n] => k = n
  <2> SUFFICES ASSUME NEW k \in 0 .. words - 1, NEW n \in 0 .. words - 1, k # n
               PROVE  f[k] # f[n]
    OBVIOUS
  <2>1. k < n \/ n < k
    OBVIOUS
  <2> HIDE DEF f
  <2> QED BY <1>2, <2>1
<1>4. f \in Injection(0 .. words - 1, B)
  BY <1>1, <1>3 DEF Injection, Surjection, IsInjective
<1>5. ExistsBijection(0 .. words - 1, B)
  BY <1>1, <1>4 DEF ExistsBijection, Bijection
<1>6. IsFiniteSet(0 .. words - 1) /\ Cardinality(0 .. words - 1) = words
  <2>1. 0 \in Int /\ words - 1 \in Int /\ ~ (0 > words - 1) /\ (words - 1) - 0 + 1 = words
    OBVIOUS
  <2> QED BY <2>1, FS_Interval
<1>7. Cardinality(B) = words
  <2> HIDE DEF B
  <2> QED BY <1>5, <1>6, FS_Bijection
<1> QED BY <1>7, BeepsOf

\* Each lasts for one word and ends in a pause or with the text, which ends in
\* a tone.
LEMMA BeepLength ==
    ASSUME NEW words \in Nat, words > 0
    PROVE  /\ \A i \in Beeps(samples(words)) : FullBeep(samples(words), i)
           /\ samples(words)[Len(samples(words))] = "tone"
<1> DEFINE s == samples(words)
           len == Length(words, words)
<1>1. /\ len \in Nat /\ Len(s) = len
      /\ \A i \in 1 .. len : s[i] = "tone" <=> Sounds(i)
      /\ \A i \in 1 .. len : s[i] = "quiet" <=> ~ Sounds(i)
      /\ len = (words - 1) * Period + samples_per_word
  BY SamplesLength, SamplesAre, WaveType
<1> HIDE DEF s
<1>2. ASSUME NEW k \in 0 .. words - 1 PROVE FullBeep(s, k * Period + 1)
  <2> DEFINE base == k * Period
  <2>1. base \in Nat /\ base + samples_per_word <= len /\ k \in Nat
    BY WordPlace
  <2>2. ASSUME NEW j \in 1 .. Period PROVE Sounds(base + j) <=> j <= samples_per_word
    BY <2>1, SoundsInWord
  <2> HIDE DEF base, len
  <2>3. ASSUME NEW i \in base + 1 .. (base + 1) + samples_per_word - 1 PROVE s[i] = "tone"
    <3>1. i - base \in 1 .. Period /\ i - base <= samples_per_word /\ i = base + (i - base)
      BY <2>1, Lengths
    <3>2. Sounds(i)
      BY <2>2, <3>1
    <3>3. i \in 1 .. len
      BY <1>1, <2>1, Lengths
    <3> QED BY <1>1, <3>2, <3>3
  <2>4. ASSUME (base + 1) + samples_per_word <= len
        PROVE  s[(base + 1) + samples_per_word] = "quiet"
    <3>1. /\ samples_per_word + 1 \in 1 .. Period /\ ~ (samples_per_word + 1 <= samples_per_word)
          /\ (base + 1) + samples_per_word = base + (samples_per_word + 1)
      BY <2>1, Lengths
    <3>2. ~ Sounds((base + 1) + samples_per_word)
      BY <2>2, <3>1
    <3>3. (base + 1) + samples_per_word \in 1 .. len
      BY <1>1, <2>1, <2>4, Lengths
    <3> QED BY <1>1, <3>2, <3>3
  <2>5. (base + 1) + samples_per_word - 1 <= len
    BY <1>1, <2>1, Lengths
  <2>6. FullBeep(s, base + 1)
    BY <1>1, <2>3, <2>4, <2>5 DEF FullBeep
  <2> QED BY <2>6 DEF base
<1>3. s[len] = "tone"
  <2> DEFINE base == (words - 1) * Period
  <2>1. base \in Nat /\ words - 1 \in Nat /\ samples_per_word \in 1 .. Period
    BY Lengths
  <2>2. Sounds(base + samples_per_word)
    <3>1. samples_per_word <= samples_per_word
      BY <2>1
    <3> QED BY <2>1, <3>1, SoundsInWord
  <2> HIDE DEF base
  <2>3. len \in 1 .. len
    BY <1>1, <2>1, Lengths DEF base
  <2> QED BY <1>1, <2>2, <2>3 DEF base
<1> QED BY <1>1, <1>2, <1>3, BeepsOf DEF s

-----------------------------------------------------------------------------
(* The file between the agents.                                            *)

\* A text being spoken has words; a file that only its writer has touched is
\* empty until it is written, and is then the writer's.
FileInv ==
    /\ pc \in [Agents -> {"idle", "open", "write", "delay", "pathless", "unwritten", "thrown", "done"}]
    /\ text \in [Agents -> Nat]
    /\ sole \in [Agents -> BOOLEAN]
    /\ \A a \in Agents : pc[a] \in {"open", "write", "delay"} => text[a] > 0
    /\ \A a \in Agents : sole[a] /\ pc[a] = "write" => wav = Empty
    /\ \A a \in Agents : sole[a] /\ pc[a] = "delay" => wav = writeWav(samples(text[a]))

\* Nothing is left of an empty file behind the new one.
LEMMA OverEmpty ==
    ASSUME NEW words \in Nat, words > 0
    PROVE  Over(writeWav(samples(words)), Empty) = writeWav(samples(words))
<1> DEFINE file == writeWav(samples(words))
<1>1. file \in [riff : Nat, data : Nat, samples : Seq(Sample)]
  BY WavOf
<1> HIDE DEF file
<1>2. Len(file.samples) \in Nat /\ file.samples \in Seq(Sample)
  BY <1>1
<1>3. Empty.samples = <<>> /\ Len(Empty.samples) = 0
  BY DEF Empty
<1>4. SubSeq(Empty.samples, Len(file.samples) + 1, Len(Empty.samples)) = <<>>
  BY <1>2, <1>3, SubSeqEmpty
<1>5. file.samples \o <<>> = file.samples
  BY <1>2, ConcatEmptySeq
<1>6. [file EXCEPT !.samples = @ \o <<>>] = file
  BY <1>1, <1>5
<1>7. Over(file, Empty) = file
  BY <1>4, <1>6 DEF Over
<1> QED BY <1>7 DEF file

\* FileInv is inductive: whoever opens or writes the file takes it away from
\* the others.
LEMMA FileStep == FileInv /\ [Next]_ttsVars => FileInv'
<1> SUFFICES ASSUME FileInv, [Next]_ttsVars PROVE FileInv'
  OBVIOUS
<1>1. ASSUME NEW a \in Agents, Synth(a) PROVE FileInv'
  <2>1. PICK words \in Texts :
           /\ text' = [text EXCEPT ![a] = words]
           /\ pc' = [pc EXCEPT ![a] = IF words = 0 THEN "pathless" ELSE "open"]
    BY <1>1 DEF Synth
  <2>2. words \in Nat
    BY TtsAssumption
  <2>3. sole' = [sole EXCEPT ![a] = FALSE] /\ wav' = wav
    BY <1>1 DEF Synth
  <2> QED BY <2>1, <2>2, <2>3 DEF FileInv
<1>2. ASSUME NEW a \in Agents, Open(a) PROVE FileInv'
  BY <1>2 DEF FileInv, Open, Truncated
<1>3. ASSUME NEW a \in Agents, Write(a) PROVE FileInv'
  <2>1. /\ pc[a] = "write" /\ pc' = [pc EXCEPT ![a] = "delay"] /\ text' = text
        /\ sole' = [b \in Agents |-> b = a /\ sole[a]]
        /\ wav' = Over(writeWav(samples(text[a])), wav)
    BY <1>3 DEF Write
  <2>2. text[a] \in Nat /\ text[a] > 0
    BY <2>1 DEF FileInv
  <2>3. ASSUME sole[a] PROVE wav' = writeWav(samples(text[a]))
    <3>1. wav = Empty
      BY <2>1, <2>3 DEF FileInv
    <3> QED BY <2>1, <2>2, <3>1, OverEmpty
  <2>4. \A b \in Agents : sole'[b] => b = a /\ sole[a]
    BY <2>1
  <2>5. sole' \in [Agents -> BOOLEAN]
    BY <2>1
  <2> QED BY <2>1, <2>2, <2>3, <2>4, <2>5 DEF FileInv
<1>4. ASSUME NEW a \in Agents, WriteFails(a) PROVE FileInv'
  BY <1>4 DEF FileInv, WriteFails
<1>5. ASSUME NEW a \in Agents, Play(a) PROVE FileInv'
  BY <1>5 DEF FileInv, Play
<1>6. CASE UNCHANGED ttsVars
  BY <1>6 DEF FileInv, ttsVars
<1> QED BY <1>1, <1>2, <1>3, <1>4, <1>5, <1>6 DEF Next

\* FileInv holds in every behaviour.
LEMMA FileCorrect == Spec => []FileInv
<1>1. Init => FileInv
  BY DEF Init, FileInv
<1> QED BY <1>1, FileStep, PTL DEF Spec

\* Whatever earlier calls and other agents left in the file, and however many
\* words the text has, the header that writeWav() writes counts the bytes that
\* follow it.
THEOREM HeaderFitsCorrect == Spec => []HeaderFits
<1>1. FileInv => HeaderFits
  <2> SUFFICES ASSUME FileInv, NEW a \in Agents, pc[a] = "delay", sole[a]
               PROVE  wav.data = 2 * Len(wav.samples) /\ wav.riff = (36 + wav.data) % U32
    BY DEF HeaderFits
  <2>1. text[a] \in Nat /\ text[a] > 0 /\ wav = writeWav(samples(text[a]))
    BY DEF FileInv
  <2> QED BY <2>1, WavOf
<1> QED BY <1>1, FileCorrect, PTL

\* A text of any number of words that fits into 32 bits is heard as one beep of
\* full length for each word, none running into the next, and nothing after the
\* last.
THEOREM OneBeepPerWordCorrect == Spec => []OneBeepPerWord
<1>1. FileInv => OneBeepPerWord
  <2> SUFFICES ASSUME FileInv, NEW a \in Agents, pc[a] = "delay", sole[a], Fits(text[a])
               PROVE  /\ Cardinality(Beeps(wav.samples)) = text[a]
                      /\ \A i \in Beeps(wav.samples) : FullBeep(wav.samples, i)
                      /\ wav.samples[Len(wav.samples)] = "tone"
    BY DEF OneBeepPerWord
  <2>1. text[a] \in Nat /\ text[a] > 0 /\ wav = writeWav(samples(text[a]))
    BY DEF FileInv
  <2>2. wav.samples = samples(text[a])
    BY <2>1, WavOf
  <2> QED BY <2>1, <2>2, BeepCount, BeepLength
<1> QED BY <1>1, FileCorrect, PTL

=============================================================================
