----------------------------- MODULE EventQueue -----------------------------
(***************************************************************************)
(* Inside SipAgent's event queue: waitEvent() on the executor's thread,    *)
(* pushEvent() on PJSIP's threads and wakeDispatcher() on the thread that  *)
(* cancels, with the mutex, the condition variable, its timeout and its    *)
(* spurious wake-ups.  The event numbered n of thread t is <<t, n>>.       *)
(***************************************************************************)
EXTENDS Naturals, Sequences

CONSTANTS
    Pushers,     \* threads that call pushEvent
    Wakers,      \* threads that call wakeDispatcher
    Receiver,    \* the thread that calls waitEvent
    None,        \* nobody
    MaxCalls     \* calls that each of the others makes

ASSUME QueueAssumption ==
    /\ Pushers \cap Wakers = {}
    /\ Receiver \notin Pushers \cup Wakers
    /\ None \notin Pushers \cup Wakers \cup {Receiver}
    /\ MaxCalls \in Nat

VARIABLES
    mtx_,              \* the owner of the mutex
    queue_,            \* SipAgent::queue_
    dispatcher_wake_,  \* SipAgent::dispatcher_wake_
    pc,                \* where each thread is
    due,               \* has the timeout of this waitEvent passed?
    calls,             \* calls made by each of the other threads
    received           \* events waitEvent has returned

queueVars == <<mtx_, queue_, dispatcher_wake_, pc, due, calls, received>>

Others == Pushers \cup Wakers

Init ==
    /\ mtx_ = None
    /\ queue_ = <<>>
    /\ dispatcher_wake_ = FALSE
    /\ pc = [t \in Others \cup {Receiver} |-> "out"]
    /\ due = FALSE
    /\ calls = [t \in Others |-> 0]
    /\ received = <<>>

-----------------------------------------------------------------------------
(* pushEvent and wakeDispatcher: lock and change, notify, unlock.          *)

Locks(t, next) ==
    /\ mtx_ = None
    /\ mtx_' = t
    /\ pc' = [pc EXCEPT ![t] = next]

\* The newest event is taken first (mutant).
PushedFront(ev) == <<ev>> \o queue_

Pushed(ev) == Append(queue_, ev)

pushEvent(t) ==
    /\ pc[t] = "out" /\ calls[t] < MaxCalls
    /\ Locks(t, "notify")
    /\ calls' = [calls EXCEPT ![t] = @ + 1]
    /\ queue_' = Pushed(<<t, calls'[t]>>)
    /\ UNCHANGED <<dispatcher_wake_, due, received>>

wakeDispatcher(t) ==
    /\ pc[t] = "out" /\ calls[t] < MaxCalls
    /\ Locks(t, "notify")
    /\ calls' = [calls EXCEPT ![t] = @ + 1]
    /\ dispatcher_wake_' = TRUE
    /\ UNCHANGED <<queue_, due, received>>

\* The notification is left to the timeout (mutant).
NotifiedNever(t) == [pc EXCEPT ![t] = "unlock"]

\* Nobody hears a notification unless it sleeps now.
Notified(t) ==
    [pc EXCEPT ![t] = "unlock",
               ![Receiver] = IF @ = "asleep" THEN "woken" ELSE @]

notify_one(t) ==
    /\ pc[t] = "notify"
    /\ pc' = Notified(t)
    /\ UNCHANGED <<mtx_, queue_, dispatcher_wake_, due, calls, received>>

Unlock(t) ==
    /\ pc[t] = "unlock"
    /\ mtx_' = None
    /\ pc' = [pc EXCEPT ![t] = "out"]
    /\ UNCHANGED <<queue_, dispatcher_wake_, due, calls, received>>

-----------------------------------------------------------------------------
(* waitEvent.                                                              *)

\* The predicate of wait_for.
Ready == queue_ # <<>> \/ dispatcher_wake_

Enter ==
    /\ pc[Receiver] = "out"
    /\ Locks(Receiver, "test")
    /\ dispatcher_wake_' = FALSE
    /\ due' = FALSE
    /\ UNCHANGED <<queue_, calls, received>>

\* The mutex is released and the sleep begun in one step.
Sleep ==
    /\ pc[Receiver] = "test" /\ ~ Ready
    /\ mtx_' = None
    /\ pc' = [pc EXCEPT ![Receiver] = "asleep"]
    /\ UNCHANGED <<queue_, dispatcher_wake_, due, calls, received>>

Spurious ==
    /\ pc[Receiver] = "asleep"
    /\ pc' = [pc EXCEPT ![Receiver] = "woken"]
    /\ UNCHANGED <<mtx_, queue_, dispatcher_wake_, due, calls, received>>

TimePasses ==
    /\ pc[Receiver] # "out" /\ ~ due
    /\ due' = TRUE
    /\ UNCHANGED <<mtx_, queue_, dispatcher_wake_, pc, calls, received>>

TimeOut ==
    /\ pc[Receiver] = "asleep" /\ due
    /\ pc' = [pc EXCEPT ![Receiver] = "late"]
    /\ UNCHANGED <<mtx_, queue_, dispatcher_wake_, due, calls, received>>

\* A wake-up ends the wait, whatever caused it (mutant).
AfterSleepAny(how) == "last"

\* The predicate is tested again; after a timeout the wait is over anyway.
AfterSleep(how) == IF how = "late" THEN "last" ELSE "test"

Relock ==
    /\ pc[Receiver] \in {"woken", "late"}
    /\ Locks(Receiver, AfterSleep(pc[Receiver]))
    /\ UNCHANGED <<queue_, dispatcher_wake_, due, calls, received>>

Takes == queue_ # <<>>

Leave ==
    /\ pc[Receiver] = "last" \/ (pc[Receiver] = "test" /\ Ready)
    /\ IF Takes
       THEN /\ received' = Append(received, Head(queue_))
            /\ queue_' = Tail(queue_)
       ELSE UNCHANGED <<received, queue_>>
    /\ mtx_' = None
    /\ pc' = [pc EXCEPT ![Receiver] = "out"]
    /\ UNCHANGED <<dispatcher_wake_, due, calls>>

-----------------------------------------------------------------------------
Wait == Enter \/ Sleep \/ Relock \/ Leave

Call(t) == notify_one(t) \/ Unlock(t)

Next ==
    \/ \E t \in Pushers : pushEvent(t)
    \/ \E t \in Wakers : wakeDispatcher(t)
    \/ \E t \in Others : Call(t)
    \/ Wait \/ Spurious \/ TimePasses \/ TimeOut

\* The executor calls waitEvent again and again, and threads that hold the
\* mutex or want it get on.  Nothing is promised of timeouts and of spurious
\* wake-ups, so what becomes of an event does not hang on them.
Fairness ==
    /\ WF_queueVars(Wait)
    /\ \A t \in Others : WF_queueVars(Call(t))

Spec == Init /\ [][Next]_queueVars /\ Fairness

-----------------------------------------------------------------------------
(* Correctness.                                                            *)

\* No wake-up is lost between the test of the predicate and the sleep: while
\* the receiver sleeps with something to do, the thread that gave it something
\* still holds the mutex and has its notify_one() ahead.
NoLostWakeup ==
    pc[Receiver] = "asleep" /\ Ready => \E t \in Others : mtx_ = t /\ pc[t] = "notify"

\* All that was ever pushed and not lost, oldest first.
History == received \o queue_

\* Each thread's events come out complete and in its order, nothing is lost and
\* nothing twice: what is received and what is queued are all that was pushed,
\* nothing else, and the numbers of one thread only grow.
InOrderOnce ==
    /\ \A i \in 1 .. Len(History) :
           \E t \in Pushers : \E n \in 1 .. calls[t] : History[i] = <<t, n>>
    /\ \A t \in Pushers : \A n \in 1 .. calls[t] :
           \E i \in 1 .. Len(History) : History[i] = <<t, n>>
    /\ \A i, j \in 1 .. Len(History) :
           i < j /\ History[i][1] = History[j][1] => History[i][2] < History[j][2]

\* waitEvent() is the hand-over that the executor counts on: false only from an
\* empty queue and only after a timeout or a wakeDispatcher(), spurious wake-ups
\* and late notifications notwithstanding.
Handover ==
    INSTANCE EventHandover WITH queue <- queue_, taken <- received,
        bell <- dispatcher_wake_, late <- due, inside <- (pc[Receiver] # "out")
ImplementsHandover == Handover!Spec

\* An event or a wakeDispatcher() ends the wait that is under way without the
\* help of the timeout.
Prompt == (pc[Receiver] # "out" /\ Ready) ~> (pc[Receiver] = "out")
=============================================================================
