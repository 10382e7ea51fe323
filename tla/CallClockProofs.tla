--------------------------- MODULE CallClockProofs ---------------------------
(***************************************************************************)
(* The times of CallClock, proved for every timeout, every step of the     *)
(* clock and every moment at which it is set.  The invariant says what the *)
(* stored instant means: the clock and the mark differ by the stopwatch    *)
(* and the step (by the answer timeout more while the call rings, because  *)
(* the mark is then a deadline).  Instants compare that difference as it   *)
(* is; unsigned differences take it modulo 2^64, so the bill also needs    *)
(* the bound on it that the polling and the settings give.                 *)
(***************************************************************************)
EXTENDS CallClock, TLAPS

\* What the clock shows since the mark: negative once it is set back past it.
Shown == wall - mark

ClockTypeInv ==
    /\ phase \in {"reg", "ring", "cancel", "delay", "talk", "over"}
    /\ wall \in Int /\ mark \in Int /\ watch \in Nat /\ shift \in Int
    /\ bill \in Int
    /\ settable \in BOOLEAN

\* The mark is the instant the stopwatch was started, or the answer deadline.
MarkInv ==
    /\ phase \in {"reg", "delay", "talk"} => Shown = watch + shift
    /\ phase \in {"ring", "cancel"} => Shown + AnswerTimeout = watch + shift

\* A connected call is polled at every tick, so that only a step can carry the
\* difference past the longest wait.
BoundInv ==
    phase \in {"delay", "talk"} =>
       /\ settable => Shown <= AnswerDelay + MaxCall
       /\ \E step \in Steps \cup {0} : Shown <= AnswerDelay + MaxCall + step

\* What ended the run, and what the clock showed then.
EndInv ==
    /\ phase # "over" => why = "none"
    /\ why \in {"hangup", "cap"} =>
          /\ Shown = watch + shift
          /\ bill = Billing
          /\ \E step \in Steps \cup {0} : Shown <= AnswerDelay + MaxCall + step
    /\ why = "cap" => CapReached
    /\ why = "unregistered" => Shown = watch + shift /\ RegistrationOver

ClockInv == ClockTypeInv /\ MarkInv /\ BoundInv /\ EndInv

-----------------------------------------------------------------------------
\* The times are numbers.
LEMMA ClockNumbers ==
    /\ RegTimeout \in Int /\ AnswerTimeout \in Int /\ CancelGrace \in Int
    /\ AnswerDelay \in Int /\ MaxCall \in Int /\ Start \in Int
    /\ AnswerDelay >= 0 /\ MaxCall > 0
    /\ Steps \subseteq Int /\ \A step \in Steps : step >= 0
    /\ Wrap \in Nat \ {0} /\ U32 \in Nat \ {0} /\ Second \in Nat \ {0}
BY ClockAssumption

\* A difference that fits is not changed by the unsigned arithmetic.
LEMMA ModSmall ==
    ASSUME NEW d \in Int, NEW w \in Nat \ {0}, 0 <= d, d < w
    PROVE  d % w = d
OBVIOUS

\* Rounding down to whole seconds loses less than one.
LEMMA DivBounds ==
    ASSUME NEW d \in Int, NEW s \in Nat \ {0}
    PROVE  /\ d \div s \in Int
           /\ s * (d \div s) <= d
           /\ d < s * (d \div s) + s
OBVIOUS

\* A quotient is small when the dividend is.
LEMMA DivBelow ==
    ASSUME NEW d \in Int, NEW s \in Nat \ {0}, NEW m \in Int, 0 <= d, d < s * m
    PROVE  d \div s \in Int /\ 0 <= d \div s /\ d \div s < m
<1> DEFINE q == d \div s
<1>1. q \in Int /\ s * q <= d /\ d < s * q + s
  BY DivBounds
<1> HIDE DEF q
<1>2. s * q + s = s * (q + 1)
  BY <1>1
<1>3. 0 < s * (q + 1)
  BY <1>1, <1>2
<1>4. 0 < q + 1
  BY <1>1, <1>3
<1>5. s * q < s * m
  BY <1>1
<1>6. q < m
  BY <1>1, <1>5
<1> QED BY <1>1, <1>4, <1>6 DEF q

\* The seconds billed are the started seconds, for every difference that the
\* settings and one step of the clock allow.
LEMMA BillIsStartedSeconds ==
    ASSUME NEW d \in Int, 0 <= d, d <= Second * (U32 - 1),
           NEW b, b = (((d % Wrap) + Second - 1) \div Second) % U32
    PROVE  (b - 1) * Second < d /\ d <= b * Second
<1> Second \in Nat \ {0} /\ U32 \in Nat \ {0} /\ Wrap \in Nat \ {0}
    /\ Second * U32 <= Wrap
  BY ClockAssumption, WidthAssumption
<1>1. Second * (U32 - 1) + Second = Second * U32
  OBVIOUS
<1>2. d < Wrap
  BY <1>1
<1>3. d % Wrap = d
  BY <1>2, ModSmall
<1> DEFINE q == (d + Second - 1) \div Second
<1>4. q \in Int /\ 0 <= q /\ q < U32
  <2>1. d + Second - 1 \in Int /\ 0 <= d + Second - 1 /\ d + Second - 1 < Second * U32
    BY <1>1
  <2> QED BY <2>1, DivBelow
<1>5. Second * q <= d + Second - 1 /\ d + Second - 1 < Second * q + Second
  BY DivBounds
<1>6. b = q % U32
  BY <1>3
<1> HIDE DEF q
<1>7. b = q
  BY <1>4, <1>6, ModSmall
<1>8. (q - 1) * Second = Second * q - Second /\ q * Second = Second * q
  BY <1>4
<1> QED BY <1>4, <1>5, <1>7, <1>8

-----------------------------------------------------------------------------
\* A run that has just begun: the mark is now.
LEMMA ClockInit == Init => ClockInv
<1> SUFFICES ASSUME Init PROVE ClockInv
  OBVIOUS
<1>1. ClockTypeInv
  BY ClockNumbers DEF Init, ClockTypeInv
<1>2. MarkInv
  BY ClockNumbers DEF Init, MarkInv, Shown
<1> QED BY <1>1, <1>2 DEF Init, ClockInv, BoundInv, EndInv

\* A tick of a phase that is not over its limit keeps the difference below it.
LEMMA TickKeeps == ClockInv /\ Tick => ClockInv'
<1> SUFFICES ASSUME ClockInv, Tick PROVE ClockInv'
  OBVIOUS
<1>1. ClockTypeInv' /\ MarkInv'
  <2>1. phase' = phase /\ wall' = wall + 1 /\ watch' = watch + 1
        /\ UNCHANGED <<mark, shift, bill, settable>>
    BY DEF Tick
  <2>2. ClockTypeInv'
    BY <2>1 DEF ClockInv, ClockTypeInv
  <2>3. Shown \in Int /\ Shown' = Shown + 1 /\ (watch + shift)' = watch + shift + 1
    BY <2>1 DEF ClockInv, ClockTypeInv, Shown
  <2> QED BY <2>1, <2>2, <2>3, ClockNumbers DEF ClockInv, ClockTypeInv, MarkInv
<1> USE ClockNumbers
<1>2. phase # "over" /\ phase' = phase /\ why' = why /\ why = "none"
  BY DEF ClockInv, ClockTypeInv, EndInv, Tick
<1>3. EndInv'
  BY <1>2 DEF EndInv
<1>4. BoundInv'
  <2> SUFFICES ASSUME phase \in {"delay", "talk"}
               PROVE  /\ settable' => Shown' <= AnswerDelay + MaxCall
                      /\ \E step \in Steps \cup {0} : Shown' <= AnswerDelay + MaxCall + step
    BY <1>2 DEF BoundInv
  <2>1. PICK step \in Steps \cup {0} : Shown <= AnswerDelay + MaxCall + step
    BY DEF ClockInv, BoundInv
  <2>2. Shown \in Int /\ Shown' = Shown + 1 /\ settable' = settable /\ step \in Nat
    BY DEF ClockInv, ClockTypeInv, Tick, Shown
  <2>3. CASE phase = "delay"
    <3>1. Shown < AnswerDelay
      BY <2>3 DEF Tick, DelayOver, Reached, Shown, ClockInv, ClockTypeInv
    <3> QED BY <2>2, <3>1
  <2>4. CASE phase = "talk"
    <3>1. Shown % Wrap < MaxCall
      <4>1. ~ CapReached
        BY <2>4 DEF Tick
      <4>2. Shown % Wrap \in Int
        BY <2>2
      <4> QED BY <4>1, <4>2 DEF CapReached, Since, Shown
    <3>2. CASE Shown < 0
      BY <2>2, <3>2
    <3>3. CASE Shown >= 0
      <4>1. AnswerDelay + MaxCall + step <= Second * (U32 - 1)
        BY WidthAssumption
      <4>2. Second * (U32 - 1) + Second = Second * U32
        OBVIOUS
      <4>3. Shown < Wrap
        BY <2>1, <2>2, <4>1, <4>2, WidthAssumption
      <4>4. Shown % Wrap = Shown
        BY <2>2, <3>3, <4>3, ModSmall
      <4>5. Shown + 1 <= MaxCall
        BY <3>1, <2>2, <4>4
      <4> QED BY <2>2, <4>5
    <3> QED BY <2>2, <3>2, <3>3
  <2> QED BY <2>3, <2>4
<1> QED BY <1>1, <1>3, <1>4 DEF ClockInv

\* Setting the clock moves the difference by the step, once.
LEMMA SetClockKeeps == ClockInv /\ SetClock => ClockInv'
<1> SUFFICES ASSUME ClockInv, SetClock PROVE ClockInv'
  OBVIOUS
<1> USE ClockNumbers
<1>1. PICK step \in Int : /\ wall' = wall + step /\ shift' = shift + step
                          /\ (step \in Steps \/ step <= 0)
  <2>1. PICK step \in Steps \cup {-n : n \in Steps} :
           wall' = wall + step /\ shift' = shift + step
    BY DEF SetClock
  <2>2. step \in Int /\ (step \in Steps \/ step <= 0)
    BY <2>1
  <2> QED BY <2>1, <2>2
<1>2. step \in Int /\ (step \in Steps \/ step <= 0)
  BY <1>1
<1>3. ClockTypeInv' /\ MarkInv'
  <2>1. phase' = phase /\ settable' = FALSE /\ UNCHANGED <<mark, watch, bill>>
    BY DEF SetClock
  <2>2. ClockTypeInv'
    <3>1. settable' \in BOOLEAN
      BY <2>1
    <3>2. wall' \in Int /\ shift' \in Int
      BY <1>1 DEF ClockInv, ClockTypeInv
    <3> QED BY <2>1, <3>1, <3>2 DEF ClockInv, ClockTypeInv
  <2>3. Shown \in Int /\ Shown' = Shown + step /\ (watch + shift)' = watch + shift + step
    BY <1>1, <1>2, <2>1 DEF ClockInv, ClockTypeInv, Shown
  <2>4. MarkInv'
    BY <2>1, <2>3 DEF ClockInv, ClockTypeInv, MarkInv
  <2> QED BY <2>2, <2>4
<1> USE ClockNumbers
<1>4. phase # "over" /\ phase' = phase /\ why' = why /\ why = "none" /\ settable
  BY DEF ClockInv, ClockTypeInv, EndInv, SetClock
<1>5. EndInv'
  BY <1>4 DEF EndInv
<1>6. BoundInv'
  <2>1. Shown' = Shown + step /\ Shown \in Int /\ ~ settable'
    BY <1>1, <1>2 DEF SetClock, Shown, ClockInv, ClockTypeInv
  <2>2. ASSUME phase \in {"delay", "talk"}
        PROVE  \E st \in Steps \cup {0} : Shown' <= AnswerDelay + MaxCall + st
    <3>1. Shown <= AnswerDelay + MaxCall
      BY <2>2, <1>4 DEF ClockInv, BoundInv
    <3>2. CASE step \in Steps
      BY <3>1, <3>2, <2>1
    <3>3. CASE step <= 0
      BY <3>1, <3>3, <2>1, <1>2
    <3> QED BY <3>2, <3>3, <1>2
  <2> QED BY <1>4, <2>1, <2>2 DEF BoundInv
<1> QED BY <1>3, <1>5, <1>6 DEF ClockInv

\* The steps of the executor: a new mark, a new phase, or the end.
LEMMA RunStepKeeps ==
    ClockInv /\ (Registered \/ Answered \/ Cancels \/ Plays) => ClockInv'
<1> SUFFICES ASSUME ClockInv, Registered \/ Answered \/ Cancels \/ Plays PROVE ClockInv'
  OBVIOUS
<1> USE ClockNumbers DEF ClockInv, ClockTypeInv, MarkInv, BoundInv, EndInv, Shown, Mark
<1>1. CASE Registered
  <2>1. phase' = "ring" /\ mark' = wall + AnswerTimeout /\ watch' = 0 /\ shift' = 0
        /\ wall' = wall /\ why' = why /\ bill' = bill /\ settable' = settable /\ why = "none"
    BY <1>1 DEF Registered
  <2>2. ClockTypeInv' /\ EndInv' /\ BoundInv'
    BY <2>1
  <2>3. MarkInv'
    BY <2>1
  <2> QED BY <2>2, <2>3
<1>2. CASE Answered
  <2>1. phase' = "delay" /\ mark' = wall /\ watch' = 0 /\ shift' = 0
        /\ wall' = wall /\ why' = why /\ bill' = bill /\ settable' = settable /\ why = "none"
    BY <1>2 DEF Answered
  <2>2. Shown' = 0
    BY <2>1
  <2>3. ClockTypeInv' /\ EndInv' /\ MarkInv'
    BY <2>1, <2>2
  <2>4. BoundInv'
    <3>1. 0 \in Steps \cup {0} /\ 0 <= AnswerDelay + MaxCall + 0
      OBVIOUS
    <3> QED BY <2>1, <2>2, <3>1
  <2> QED BY <2>3, <2>4
<1>3. CASE Cancels
  BY <1>3 DEF Cancels
<1>4. CASE Plays
  BY <1>4 DEF Plays
<1> QED BY <1>1, <1>2, <1>3, <1>4

\* The end of a run stores what the clock showed.
LEMMA EndKeeps == ClockInv /\ (GivesUp \/ HangsUp \/ Capped) => ClockInv'
<1> SUFFICES ASSUME ClockInv, GivesUp \/ HangsUp \/ Capped PROVE ClockInv'
  OBVIOUS
<1> USE ClockNumbers
<1>1. wall' = wall /\ mark' = mark /\ watch' = watch /\ shift' = shift
      /\ settable' = settable /\ phase' = "over" /\ phase # "over"
  BY DEF GivesUp, HangsUp, Capped, Ends
<1>2. Billing \in Int
  <2>1. Since(mark) \in Int
    BY DEF Since, ClockInv, ClockTypeInv
  <2>2. (Since(mark) + Second - 1) \div Second \in Int
    BY <2>1
  <2> QED BY <2>2 DEF Billing
<1>3. Billing' = Billing /\ Shown' = Shown /\ (CapReached <=> CapReached')
      /\ (RegistrationOver <=> RegistrationOver')
  BY <1>1 DEF Billing, Shown, CapReached, RegistrationOver, Since
<1>4. CASE GivesUp
  <2>1. bill' = 0
        /\ \/ why' = "unregistered" /\ phase = "reg" /\ RegistrationOver
           \/ why' = "unanswered"
    BY <1>4 DEF GivesUp, Ends
  <2>2. ClockTypeInv' /\ MarkInv' /\ BoundInv'
    BY <1>1, <2>1 DEF ClockInv, ClockTypeInv, MarkInv, BoundInv
  <2>3. EndInv'
    BY <1>1, <1>3, <2>1 DEF ClockInv, MarkInv, EndInv
  <2> QED BY <2>2, <2>3 DEF ClockInv
<1>5. CASE HangsUp \/ Capped
  <2>1. phase = "talk" /\ bill' = Billing
        /\ (why' = "hangup" \/ (why' = "cap" /\ CapReached))
    BY <1>5 DEF HangsUp, Capped, Ends
  <2> QED BY <1>1, <1>2, <1>3, <2>1 DEF ClockInv, ClockTypeInv, MarkInv, BoundInv, EndInv
<1> QED BY <1>4, <1>5

\* Whatever the clock is set to and whenever, the mark keeps its meaning.
THEOREM ClockInvariant == Spec => []ClockInv
<1>1. ClockInv /\ UNCHANGED clockVars => ClockInv'
  <2> SUFFICES ASSUME ClockInv, UNCHANGED clockVars PROVE ClockInv'
    OBVIOUS
  <2>1. Shown' = Shown /\ Billing' = Billing /\ (CapReached <=> CapReached')
        /\ (RegistrationOver <=> RegistrationOver')
    BY DEF clockVars, Shown, Billing, CapReached, RegistrationOver, Since
  <2> QED BY <2>1 DEF ClockInv, ClockTypeInv, MarkInv, BoundInv, EndInv, clockVars
<1>2. ClockInv /\ [Next]_clockVars => ClockInv'
  BY <1>1, TickKeeps, SetClockKeeps, RunStepKeeps, EndKeeps DEF Next
<1> QED BY ClockInit, <1>2, PTL DEF Spec

\* The invariant implies what the bill, the cap and the registration timeout
\* are compared with.
LEMMA InvGivesDifferences == ClockInv => DifferencesMoveByTheStep
<1> SUFFICES ASSUME ClockInv PROVE DifferencesMoveByTheStep
  OBVIOUS
<1> USE ClockNumbers
<1>0. Shown \in Int /\ watch + shift \in Int
  BY DEF ClockInv, ClockTypeInv, Shown
<1>1. ASSUME why \in {"hangup", "cap"}, watch + shift >= 0
      PROVE  (bill - 1) * Second < watch + shift /\ watch + shift <= bill * Second
  <2>1. PICK step \in Steps \cup {0} : Shown <= AnswerDelay + MaxCall + step
    BY <1>1 DEF ClockInv, EndInv
  <2>2. AnswerDelay + MaxCall + step <= Second * (U32 - 1) /\ step \in Nat
    BY WidthAssumption
  <2>3. Shown <= Second * (U32 - 1)
    BY <1>0, <2>1, <2>2
  <2>4. Shown = watch + shift /\ bill = (((Shown % Wrap) + Second - 1) \div Second) % U32
    BY <1>1 DEF ClockInv, EndInv, Billing, Since, Shown
  <2>5. (bill - 1) * Second < Shown /\ Shown <= bill * Second
    BY <1>0, <1>1, <2>3, <2>4, BillIsStartedSeconds
  <2> QED BY <2>4, <2>5
<1>2. ASSUME why = "cap" PROVE watch + shift \notin 0 .. (MaxCall - 1)
  <2> SUFFICES ASSUME watch + shift \in 0 .. (MaxCall - 1) PROVE FALSE
    OBVIOUS
  <2>1. Shown = watch + shift /\ Shown % Wrap >= MaxCall
    BY <1>2 DEF ClockInv, EndInv, CapReached, Since, Shown
  <2>2. AnswerDelay + MaxCall + 0 <= Second * (U32 - 1)
        /\ Second * (U32 - 1) + Second = Second * U32 /\ Second * U32 <= Wrap
    BY WidthAssumption
  <2>3. Shown < Wrap /\ 0 <= Shown /\ Shown < MaxCall
    BY <1>0, <2>1, <2>2
  <2>4. Shown % Wrap = Shown
    BY <1>0, <2>3, ModSmall
  <2> QED BY <1>0, <2>1, <2>3, <2>4
<1>3. ASSUME why = "unregistered" PROVE watch + shift \notin 0 .. (RegTimeout - 1)
  <2> SUFFICES ASSUME watch + shift \in 0 .. (RegTimeout - 1) PROVE FALSE
    OBVIOUS
  <2>1. Shown = watch + shift /\ Shown % Wrap >= RegTimeout
    BY <1>3 DEF ClockInv, EndInv, RegistrationOver, Since, Shown
  <2>2. 0 <= Shown /\ Shown < RegTimeout
    BY <1>0, <2>1
  <2>3. Shown % Wrap <= Shown
    <3>1. CASE Shown < Wrap
      BY <1>0, <2>2, <3>1, ModSmall
    <3>2. CASE Shown >= Wrap
      <4>1. Shown % Wrap \in 0 .. (Wrap - 1)
        BY <1>0
      <4> QED BY <1>0, <3>2, <4>1
    <3> QED BY <1>0, <3>1, <3>2
  <2>4. Shown % Wrap \in Int
    BY <1>0
  <2> QED BY <1>0, <2>1, <2>2, <2>3, <2>4
<1> QED BY <1>1, <1>2, <1>3 DEF DifferencesMoveByTheStep

\* The bill is the started seconds of stopwatch and step, and the cap and the
\* registration timeout come no earlier than those reach them, as long as the
\* clock shows no time before the mark (billing_seconds, the cap and the
\* registration loop subtract epochMs() values without a sign).
THEOREM DifferencesCorrect == Spec => []DifferencesMoveByTheStep
BY ClockInvariant, InvGivesDifferences, PTL

\* One step of the executor or of the clock, as the instants see it.
LEMMA InstantStep ==
    ASSUME ClockInv, [Next]_clockVars
    PROVE  LET shown == watch + shift
           IN  /\ phase = "ring" /\ phase' = "cancel" => shown >= AnswerTimeout
               /\ phase = "cancel" /\ phase' = "over" => shown >= AnswerTimeout + CancelGrace
               /\ phase = "delay" /\ phase' = "talk" => shown >= AnswerDelay
               /\ watch' > watch =>
                     /\ phase = "ring" => shown < AnswerTimeout
                     /\ phase = "cancel" => shown < AnswerTimeout + CancelGrace
                     /\ phase = "delay" => shown < AnswerDelay
<1> USE ClockNumbers DEF ClockInv, ClockTypeInv, MarkInv, Shown, Reached
<1>1. CASE Tick
  BY <1>1 DEF Tick, AnswerOver, GraceOver, DelayOver
<1>2. CASE SetClock
  BY <1>2 DEF SetClock
<1>3. CASE Registered \/ Answered
  <2>1. watch' = 0 /\ phase' \in {"ring", "delay"}
        /\ (phase = "reg" \/ phase \in {"ring", "cancel"})
    BY <1>3 DEF Registered, Answered, Mark
  <2> QED BY <2>1
<1>4. CASE Cancels \/ Plays
  BY <1>4 DEF Cancels, Plays, AnswerOver, DelayOver
<1>5. CASE GivesUp \/ HangsUp \/ Capped
  <2>1. watch' = watch /\ phase' = "over" /\ (phase = "cancel" => GraceOver)
    BY <1>5 DEF GivesUp, HangsUp, Capped, Ends
  <2> QED BY <2>1 DEF GraceOver
<1>6. CASE UNCHANGED clockVars
  BY <1>6 DEF clockVars
<1> QED BY <1>1, <1>2, <1>3, <1>4, <1>5, <1>6 DEF Next

\* The answer timeout, the grace after the CANCEL and the answer delay, which
\* compare epochMs() with a stored instant, move by the step of the clock and
\* by no more.
THEOREM InstantsCorrect == Spec => InstantsMoveByTheStep
<1>1. ClockInv /\ [Next]_clockVars
      => [LET shown == watch + shift
          IN  /\ phase = "ring" /\ phase' = "cancel" => shown >= AnswerTimeout
              /\ phase = "cancel" /\ phase' = "over" => shown >= AnswerTimeout + CancelGrace
              /\ phase = "delay" /\ phase' = "talk" => shown >= AnswerDelay
              /\ watch' > watch =>
                    /\ phase = "ring" => shown < AnswerTimeout
                    /\ phase = "cancel" => shown < AnswerTimeout + CancelGrace
                    /\ phase = "delay" => shown < AnswerDelay]_clockVars
  BY InstantStep
<1> QED BY ClockInvariant, <1>1, PTL DEF Spec, InstantsMoveByTheStep
=============================================================================
