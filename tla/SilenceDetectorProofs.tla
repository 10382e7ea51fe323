----------------------- MODULE SilenceDetectorProofs ------------------------
(***************************************************************************)
(* FiresExactly and KnowsTheStretch for every threshold, timeout and       *)
(* sequence of samples.                                                    *)
(***************************************************************************)
EXTENDS SilenceDetector, TLAPS

TypeOK ==
    /\ sd \in Detector
    /\ now \in Nat
    /\ log \in Seq(Sample)
    /\ fired \in BOOLEAN

\* The log is ordered in time and ends now.
Ordered ==
    /\ \A i, j \in 1 .. Len(log) : i <= j => log[i].t <= log[j].t
    /\ log # <<>> => log[Len(log)].t = now

\* The i-th sample begins the quiet tail of the log.
TailBegins(i) ==
    /\ QuietFrom(i)
    /\ i > 1 => log[i - 1].level >= Threshold

\* What the fields say of the log, and no timeout is overdue while armed.
Fields ==
    /\ sd.armed /\ ~ sd.started /\ log # <<>> =>
          log[Len(log)].level >= Threshold
    /\ sd.armed /\ sd.started =>
          /\ now - sd.silence_start < Timeout
          /\ \E i \in 1 .. Len(log) : TailBegins(i) /\ log[i].t = sd.silence_start
    /\ ~ sd.armed => fired \/ log = <<>>

IInv == TypeOK /\ Ordered /\ Fields /\ FiresExactly

\* Once the quiet tail of the log begins at i, a quiet suffix starts at i or
\* later.
LEMMA TailIsLongest ==
    ASSUME log \in Seq(Sample), Threshold \in Nat,
           NEW i \in 1 .. Len(log), TailBegins(i),
           NEW k \in 1 .. Len(log), QuietFrom(k)
    PROVE  i <= k
<1> SUFFICES ASSUME k < i PROVE FALSE
  OBVIOUS
<1>1. i > 1 /\ i - 1 \in k .. Len(log)
  OBVIOUS
<1>2. log[i - 1].level >= Threshold
  BY <1>1 DEF TailBegins
<1>3. log[i - 1].level < Threshold
  BY <1>1 DEF QuietFrom
<1>4. log[i - 1] \in Sample
  BY <1>1
<1> QED
  BY <1>2, <1>3, <1>4 DEF Sample

\* The inductive invariant holds of a new detector.
LEMMA InitIInv == Init => IInv
<1> SUFFICES ASSUME Init PROVE IInv
  OBVIOUS
<1>1. sd = [armed |-> FALSE, started |-> FALSE, silence_start |-> 0]
  BY DEF Init, NewDetector
<1>2. log = <<>> /\ fired = FALSE /\ now = 0
  BY DEF Init
<1>a. sd \in Detector
  BY <1>1 DEF Detector
<1>b. log \in Seq(Sample)
  BY <1>2
<1>3. TypeOK
  BY <1>2, <1>a, <1>b DEF TypeOK
<1>4. Len(log) = 0
  BY <1>2
<1>5. ~ SilentEnough
  BY <1>4 DEF SilentEnough
<1> QED
  BY <1>1, <1>2, <1>3, <1>4, <1>5 DEF IInv, Ordered, Fields, FiresExactly

\* arm() establishes it.
LEMMA ArmIInv == IInv /\ Arm => IInv'
<1> SUFFICES ASSUME IInv, Arm PROVE IInv'
  OBVIOUS
<1>1. sd' = [armed |-> TRUE, started |-> FALSE, silence_start |-> 0]
  BY DEF Arm, arm
<1>2. log' = <<>> /\ fired' = FALSE /\ now' = now
  BY DEF Arm
<1>a. sd' \in Detector
  BY <1>1 DEF Detector
<1>b. log' \in Seq(Sample)
  BY <1>2
<1>3. TypeOK'
  BY <1>2, <1>a, <1>b DEF IInv, TypeOK
<1>4. Len(log') = 0
  BY <1>2
<1>5. ~ SilentEnough'
  BY <1>4 DEF SilentEnough
<1> QED
  BY <1>1, <1>2, <1>3, <1>4, <1>5 DEF IInv, Ordered, Fields, FiresExactly

\* Feeding an unarmed detector: nothing is logged and nothing fires.
LEMMA FeedUnarmed ==
    ASSUME IInv, ~ sd.armed, sd' = sd, log' = <<>>, fired' = FALSE, now' \in Nat
    PROVE  IInv'
<1>1. Len(log') = 0
  OBVIOUS
<1>2. ~ SilentEnough'
  BY <1>1 DEF SilentEnough
<1>a. log' \in Seq(Sample)
  OBVIOUS
<1>3. TypeOK'
  BY <1>a DEF IInv, TypeOK
<1> QED
  BY <1>1, <1>2, <1>3 DEF IInv, Ordered, Fields, FiresExactly

\* Appending a sample taken at a time t >= now keeps the log well-formed.
LEMMA LogGrows ==
    ASSUME IInv, NEW level \in Nat, NEW t \in Nat, t >= now, now' = t,
           log' = Append(log, [level |-> level, t |-> t])
    PROVE  /\ log' \in Seq(Sample)
           /\ Len(log') = Len(log) + 1
           /\ log'[Len(log')] = [level |-> level, t |-> t]
           /\ \A i \in 1 .. Len(log) : log'[i] = log[i] /\ log[i] \in Sample
           /\ Ordered'
<1> DEFINE s == [level |-> level, t |-> t]
<1>0. log \in Seq(Sample) /\ s \in Sample /\ now \in Nat
  BY DEF IInv, TypeOK, Sample
<1>1. log' \in Seq(Sample) /\ Len(log') = Len(log) + 1 /\ Len(log) \in Nat
  BY <1>0
<1>2. log'[Len(log')] = s
  BY <1>0, <1>1
<1>3. \A i \in 1 .. Len(log) : log'[i] = log[i] /\ log[i] \in Sample
  BY <1>0
<1>4. \A i \in 1 .. Len(log) : log[i].t <= t /\ log[i].t \in Nat
  <2> TAKE i \in 1 .. Len(log)
  <2>1. log # <<>> /\ Len(log) \in 1 .. Len(log) /\ i <= Len(log)
    BY <1>0
  <2>2. log[i].t <= log[Len(log)].t /\ log[Len(log)].t = now
    BY <2>1 DEF IInv, Ordered
  <2>3. log[i].t \in Nat
    BY <1>3 DEF Sample
  <2> QED
    BY <2>2, <2>3, <1>0
<1>5. \A i, j \in 1 .. Len(log') : i <= j => log'[i].t <= log'[j].t
  <2> SUFFICES ASSUME NEW i \in 1 .. Len(log'), NEW j \in 1 .. Len(log'), i <= j
               PROVE  log'[i].t <= log'[j].t
    OBVIOUS
  <2>1. CASE j \in 1 .. Len(log)
    <3>1. i \in 1 .. Len(log)
      BY <2>1, <1>1
    <3> QED
      BY <2>1, <3>1, <1>3 DEF IInv, Ordered
  <2>2. CASE j = Len(log) + 1 /\ i \in 1 .. Len(log)
    BY <2>2, <1>1, <1>2, <1>3, <1>4
  <2>3. CASE j = Len(log) + 1 /\ i = Len(log) + 1
    BY <2>3, <1>1, <1>2
  <2> QED
    BY <2>1, <2>2, <2>3, <1>1
<1>6. Ordered'
  BY <1>1, <1>2, <1>5 DEF Ordered
<1> QED
  BY <1>1, <1>2, <1>3, <1>6

\* After the step, the beginning of the quiet tail decides about the timeout.
LEMMA TailDecides ==
    ASSUME log' \in Seq(Sample), now' \in Nat, Ordered', DetectorAssumption,
           NEW i \in 1 .. Len(log'), TailBegins(i)'
    PROVE  SilentEnough' <=> now' - log'[i].t >= Timeout
<1> USE DEF DetectorAssumption
<1>0. \A k \in 1 .. Len(log') : log'[k].t \in Nat /\ log'[k].level \in Nat
  <2>1. \A k \in 1 .. Len(log') : log'[k] \in Sample
    OBVIOUS
  <2> QED
    BY <2>1 DEF Sample
<1>1. Len(log') \in Nat /\ log'[Len(log')].t = now'
  BY DEF Ordered
<1>2. ASSUME now' - log'[i].t >= Timeout PROVE SilentEnough'
  BY <1>1, <1>2 DEF SilentEnough, TailBegins
<1>3. ASSUME SilentEnough' PROVE now' - log'[i].t >= Timeout
  <2>1. PICK k \in 1 .. Len(log') :
           QuietFrom(k)' /\ log'[Len(log')].t - log'[k].t >= Timeout
    BY <1>3 DEF SilentEnough
  <2>2. i <= k
    <3> SUFFICES ASSUME k < i PROVE FALSE
      BY <1>1
    <3>1. i > 1 /\ i - 1 \in k .. Len(log') /\ i - 1 \in 1 .. Len(log')
      BY <1>1
    <3>2. log'[i - 1].level >= Threshold
      BY <3>1 DEF TailBegins
    <3>3. log'[i - 1].level < Threshold
      BY <2>1, <3>1 DEF QuietFrom
    <3> QED
      BY <3>1, <3>2, <3>3, <1>0
  <2>3. log'[i].t <= log'[k].t
    BY <2>2 DEF Ordered
  <2> QED
    BY <2>1, <2>3, <1>0, <1>1
<1> QED
  BY <1>2, <1>3

\* Setting the fields of the stretch leaves a detector.
LEMMA RestartedStretch ==
    ASSUME NEW d \in Detector, NEW b \in BOOLEAN, NEW n \in Nat
    PROVE  [d EXCEPT !.started = b, !.silence_start = n] \in Detector
BY DEF Detector

\* Feeding an armed detector.
LEMMA FeedArmed ==
    ASSUME IInv, sd.armed, NEW level \in Nat, NEW t \in Nat, t >= now, now' = t,
           sd' = feed(sd, Threshold, Timeout, level, t),
           fired' = feedFires(sd, Threshold, Timeout, level, t),
           log' = Append(log, [level |-> level, t |-> t])
    PROVE  IInv'
<1> USE DetectorAssumption DEF DetectorAssumption
<1>1. /\ log' \in Seq(Sample)
      /\ Len(log') = Len(log) + 1
      /\ log'[Len(log')] = [level |-> level, t |-> t]
      /\ \A i \in 1 .. Len(log) : log'[i] = log[i] /\ log[i] \in Sample
      /\ Ordered'
  BY LogGrows
<1>2. /\ sd \in Detector /\ now \in Nat
      /\ sd.started \in BOOLEAN /\ sd.silence_start \in Nat
      /\ log \in Seq(Sample) /\ Len(log) \in Nat
  BY DEF IInv, TypeOK, Detector
<1>3. ASSUME level >= Threshold
      PROVE  IInv'
  <2>1. fired' = FALSE
    BY <1>3 DEF feedFires
  <2>2. sd' = [sd EXCEPT !.started = FALSE, !.silence_start = 0]
    BY <1>3, <2>1 DEF feed, feedFires
  <2>a. sd' \in Detector
    BY <2>2, <1>2, RestartedStretch
  <2>b. sd'.armed = sd.armed /\ sd'.started = FALSE
    BY <2>2, <1>2 DEF Detector
  <2>3. sd' \in Detector /\ sd'.armed /\ ~ sd'.started
    BY <2>a, <2>b
  <2>4. ~ SilentEnough'
    <3> SUFFICES ASSUME NEW i \in 1 .. Len(log'), QuietFrom(i)' PROVE FALSE
      BY DEF SilentEnough
    <3>1. log'[Len(log')].level < Threshold
      BY <1>1, <1>2 DEF QuietFrom
    <3> QED
      BY <3>1, <1>1, <1>3
  <2>5. TypeOK'
    BY <2>1, <2>3, <1>1 DEF TypeOK
  <2>6. Fields'
    BY <2>3, <1>1, <1>3 DEF Fields
  <2> QED
    BY <2>1, <2>4, <2>5, <2>6, <1>1 DEF IInv, FiresExactly
<1>4. ASSUME level < Threshold
      PROVE  IInv'
  <2> DEFINE q == QuietSince(sd, t)
  <2>1. q \in Nat
    BY <1>2 DEF QuietSince
  <2>2. PICK i \in 1 .. Len(log') : TailBegins(i)' /\ log'[i].t = q
    <3>1. CASE sd.started
      <4>1. PICK k \in 1 .. Len(log) : TailBegins(k) /\ log[k].t = sd.silence_start
        BY <3>1 DEF IInv, Fields
      <4>2. QuietFrom(k)'
        <5> SUFFICES ASSUME NEW j \in k .. Len(log') PROVE log'[j].level < Threshold
          BY DEF QuietFrom
        <5>1. CASE j = Len(log')
          BY <5>1, <1>1, <1>4
        <5>2. CASE j \in k .. Len(log)
          BY <5>2, <4>1, <1>1, <1>2 DEF TailBegins, QuietFrom
        <5> QED
          BY <5>1, <5>2, <1>1, <1>2
      <4>3. k > 1 => log'[k - 1].level >= Threshold
        BY <4>1, <1>1, <1>2 DEF TailBegins
      <4> QED
        BY <3>1, <4>1, <4>2, <4>3, <1>1, <1>2 DEF TailBegins, QuietSince
    <3>2. CASE ~ sd.started
      <4>0. PICK n \in 1 .. Len(log') : n = Len(log')
        BY <1>1, <1>2
      <4>1. QuietFrom(n)'
        BY <4>0, <1>1, <1>2, <1>4 DEF QuietFrom
      <4>2. n > 1 => log'[n - 1].level >= Threshold
        BY <3>2, <4>0, <1>1, <1>2 DEF IInv, Fields
      <4>3. TailBegins(n)'
        BY <4>1, <4>2 DEF TailBegins
      <4> QED
        BY <3>2, <4>0, <4>3, <1>1 DEF QuietSince
    <3> QED
      BY <3>1, <3>2
  <2>3. SilentEnough' <=> t - q >= Timeout
    BY <2>2, <1>1, TailDecides
  <2>4. fired' <=> t - q >= Timeout
    BY <1>4 DEF feedFires
  <2>5. fired' \in BOOLEAN
    BY DEF feedFires
  <2>6. CASE t - q >= Timeout
    <3>1. sd' = NewDetector
      BY <2>6, <1>4, <1>2 DEF feed, feedFires
    <3>2. sd' \in Detector /\ ~ sd'.armed
      BY <3>1 DEF NewDetector, Detector
    <3>3. TypeOK'
      BY <3>2, <2>5, <1>1 DEF TypeOK
    <3>4. Fields'
      BY <3>2, <2>4, <2>6 DEF Fields
    <3> QED
      BY <3>3, <3>4, <2>3, <2>4, <1>1 DEF IInv, FiresExactly
  <2>7. CASE ~ (t - q >= Timeout)
    <3>1. sd' = [sd EXCEPT !.started = TRUE, !.silence_start = q]
      BY <2>7, <1>4, <1>2 DEF feed, feedFires
    <3>2. sd' \in Detector /\ sd'.armed /\ sd'.started /\ sd'.silence_start = q
      BY <3>1, <2>1, <1>2 DEF Detector
    <3>3. TypeOK'
      BY <3>2, <2>5, <1>1 DEF TypeOK
    <3>4. t - q < Timeout
      BY <2>7, <2>1
    <3>5. Fields'
      BY <3>2, <3>4, <2>2 DEF Fields
    <3> QED
      BY <3>3, <3>5, <2>3, <2>4, <1>1 DEF IInv, FiresExactly
  <2> QED
    BY <2>6, <2>7
<1> QED
  BY <1>3, <1>4

\* Every step keeps the inductive invariant.
LEMMA NextIInv == IInv /\ [Next]_vars => IInv'
<1> SUFFICES ASSUME IInv, [Next]_vars PROVE IInv'
  OBVIOUS
<1>1. CASE Arm
  BY <1>1, ArmIInv
<1>2. CASE Feed
  <2>1. PICK level \in Levels, gap \in Gaps :
            /\ now' = now + gap
            /\ sd' = feed(sd, Threshold, Timeout, level, now + gap)
            /\ fired' = feedFires(sd, Threshold, Timeout, level, now + gap)
            /\ log' = IF sd.armed
                      THEN Append(log, [level |-> level, t |-> now + gap])
                      ELSE <<>>
    BY <1>2 DEF Feed
  <2>2. level \in Nat /\ now + gap \in Nat /\ now + gap >= now
    BY DetectorAssumption DEF DetectorAssumption, IInv, TypeOK
  <2>3. CASE sd.armed
    BY <2>1, <2>2, <2>3, FeedArmed
  <2>4. CASE ~ sd.armed
    <3>1. sd' = sd /\ fired' = FALSE
      BY <2>1, <2>4 DEF feed, feedFires
    <3> QED
      BY <2>1, <2>2, <2>4, <3>1, FeedUnarmed
  <2> QED
    BY <2>3, <2>4
<1>3. CASE UNCHANGED vars
  BY <1>3 DEF vars, IInv, TypeOK, Ordered, Fields, TailBegins, FiresExactly,
              SilentEnough, QuietFrom
<1> QED
  BY <1>1, <1>2, <1>3 DEF Next

\* feed() returns true for exactly the samples that complete a quiet stretch
\* as long as the timeout, whatever the threshold, the timeout and the samples.
THEOREM FiresExactlyCorrect == Spec => []FiresExactly
<1>1. IInv => FiresExactly
  BY DEF IInv
<1> QED
  BY InitIInv, NextIInv, <1>1, PTL DEF Spec

\* While armed, the fields of the detector know the whole quiet stretch.
THEOREM KnowsTheStretchCorrect == Spec => []KnowsTheStretch
<1>1. IInv => KnowsTheStretch
  <2> SUFFICES ASSUME IInv, sd.armed PROVE KnowsTheStretch
    BY DEF KnowsTheStretch
  <2>0. /\ log \in Seq(Sample) /\ now \in Nat /\ Threshold \in Nat
        /\ Len(log) \in Nat
        /\ \A k \in 1 .. Len(log) : log[k] \in Sample
    BY DetectorAssumption DEF DetectorAssumption, IInv, TypeOK
  <2>1. CASE sd.started
    <3>1. PICK i \in 1 .. Len(log) : TailBegins(i) /\ log[i].t = sd.silence_start
      BY <2>1 DEF IInv, Fields
    <3>2. \A k \in 1 .. Len(log) : QuietFrom(k) => i <= k
      BY <2>0, <3>1, TailIsLongest
    <3>3. getCurrentSilenceMs(sd, now) = now - log[i].t
      BY <2>1, <3>1 DEF getCurrentSilenceMs
    <3> QED
      BY <3>1, <3>2, <3>3 DEF KnowsTheStretch, TailBegins
  <2>2. CASE ~ sd.started
    <3>1. \A i \in 1 .. Len(log) : ~ QuietFrom(i)
      <4> SUFFICES ASSUME NEW i \in 1 .. Len(log), QuietFrom(i) PROVE FALSE
        OBVIOUS
      <4>1. log # <<>> /\ Len(log) \in i .. Len(log) /\ Len(log) \in 1 .. Len(log)
        BY <2>0
      <4>2. log[Len(log)].level < Threshold
        BY <4>1 DEF QuietFrom
      <4>3. log[Len(log)].level >= Threshold
        BY <4>1, <2>2 DEF IInv, Fields
      <4> QED
        BY <4>1, <4>2, <4>3, <2>0 DEF Sample
    <3>2. getCurrentSilenceMs(sd, now) = 0
      BY <2>2 DEF getCurrentSilenceMs
    <3> QED
      BY <3>1, <3>2 DEF KnowsTheStretch
  <2> QED
    BY <2>1, <2>2
<1> QED
  BY InitIInv, NextIInv, <1>1, PTL DEF Spec
=============================================================================
