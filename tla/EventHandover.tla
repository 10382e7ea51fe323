--------------------------- MODULE EventHandover ----------------------------
(***************************************************************************)
(* What the executor relies on when it calls waitEvent(): events come out  *)
(* in the order they went in, each once; false is returned only on an      *)
(* empty queue, and only if the time is up or somebody has rung since the  *)
(* call began.  Mutex, condition variable and wake-ups do not appear.  It  *)
(* is the hand-over that the module CallExecutor takes as one step.        *)
(***************************************************************************)
EXTENDS Naturals, Sequences

VARIABLES
    queue,      \* events nobody has taken
    taken,      \* events handed over, oldest first
    bell,       \* has somebody rung since the receiver came in?
    late,       \* is the receiver's time up?
    inside      \* is the receiver waiting?

handoverVars == <<queue, taken, bell, late, inside>>

Init ==
    /\ queue = <<>> /\ taken = <<>>
    /\ bell = FALSE /\ late = FALSE /\ inside = FALSE

Put ==
    /\ Len(queue') = Len(queue) + 1
    /\ SubSeq(queue', 1, Len(queue)) = queue
    /\ UNCHANGED <<taken, bell, late, inside>>

Ring ==
    /\ bell' = TRUE
    /\ UNCHANGED <<queue, taken, late, inside>>

\* A bell that rang before is not heard.
Enter ==
    /\ ~ inside
    /\ inside' = TRUE
    /\ bell' = FALSE
    /\ late' = FALSE
    /\ UNCHANGED <<queue, taken>>

TimeUp ==
    /\ inside
    /\ late' = TRUE
    /\ UNCHANGED <<queue, taken, bell, inside>>

Take ==
    /\ inside /\ queue # <<>>
    /\ taken' = Append(taken, Head(queue))
    /\ queue' = Tail(queue)
    /\ inside' = FALSE
    /\ UNCHANGED <<bell, late>>

GiveUp ==
    /\ inside /\ queue = <<>>
    /\ bell \/ late
    /\ inside' = FALSE
    /\ UNCHANGED <<queue, taken, bell, late>>

Next == Put \/ Ring \/ Enter \/ TimeUp \/ Take \/ GiveUp

Spec == Init /\ [][Next]_handoverVars
=============================================================================
