----------------------------- MODULE ICUNotifier -----------------------------
(***************************************************************************)
(* Change notification (common/servnotf.cpp): listeners are added and      *)
(* removed under notifyLock, and notifyChanged() calls each of them, one   *)
(* after the other, with notifyLock held.  Whether there is any listener   *)
(* is tested once before the lock is taken, without it.                    *)
(*                                                                         *)
(* What the notifier belongs to is left open here: Changed(t) is what a    *)
(* thread does that has altered it and is about to call notifyChanged().   *)
(* ICUService extends this module and gives the changes their content.     *)
(***************************************************************************)
EXTENDS Naturals, Sequences, FiniteSets, SequencesExt

CONSTANTS Thread,
          Listener,
          NoThread

VARIABLES listeners,   \* the vector; empty for NULL: the code deletes an empty one
          notifyLock,  \* the thread that holds it, or NoThread
          notifying,   \* where each thread is in notifyChanged()
          next,        \* the position of the listener it calls next
          unseen       \* the listeners with a change they have not been told of

notifierVars == <<listeners, notifyLock, notifying, next, unseen>>

NotifierTypeOK ==
    /\ listeners \in Seq(Listener)
    /\ notifyLock \in Thread \cup {NoThread}
    /\ notifying \in [Thread -> {"no", "changed", "lock", "calling", "called"}]
    /\ next \in [Thread -> 1 .. Cardinality(Listener) + 1]
    /\ unseen \subseteq Listener

NotifierInit ==
    /\ listeners = << >>
    /\ notifyLock = NoThread
    /\ notifying = [t \in Thread |-> "no"]
    /\ next = [t \in Thread |-> 1]
    /\ unseen = {}

------------------------------------------------------------------------------

addListener(t, l) ==
    /\ notifying[t] = "no"
    /\ notifyLock = NoThread
    /\ listeners' = IF l \in ToSet(listeners) THEN listeners ELSE Append(listeners, l)
    /\ UNCHANGED <<notifyLock, notifying, next, unseen>>

\* UVector::removeElementAt() of the first element that is l, if there is one.
Without(l) ==
    LET is == {i \in DOMAIN listeners : listeners[i] = l} IN
    IF is = {} THEN listeners
    ELSE LET at == CHOOSE i \in is : \A j \in is : i <= j IN
         [i \in 1 .. Len(listeners) - 1 |-> listeners[IF i < at THEN i ELSE i + 1]]

\* Removing a listener that is not there does nothing.
removeListener(t, l) ==
    /\ notifying[t] = "no"
    /\ notifyLock = NoThread
    /\ listeners' = Without(l)
    /\ unseen' = unseen \ {l}
    /\ UNCHANGED <<notifyLock, notifying, next>>

\* The notifier changed: everyone who listens now is to be told.
Changed(t) ==
    /\ notifying' = [notifying EXCEPT ![t] = "changed"]
    /\ unseen' = unseen \cup ToSet(listeners)
    /\ UNCHANGED <<listeners, notifyLock, next>>

\* if (listeners != NULL), before the lock
testListeners(t) ==
    /\ notifying[t] = "changed"
    /\ notifying' = [notifying EXCEPT ![t] = IF listeners = << >> THEN "no" ELSE "lock"]
    /\ UNCHANGED <<listeners, notifyLock, next, unseen>>

\* A bug: the loop starts after the first listener.
lockListenersLate(t) ==
    /\ notifying[t] = "lock"
    /\ notifyLock = NoThread
    /\ IF Len(listeners) <= 1
       THEN /\ notifying' = [notifying EXCEPT ![t] = "no"]
            /\ UNCHANGED <<notifyLock, next>>
       ELSE /\ notifying' = [notifying EXCEPT ![t] = "calling"]
            /\ notifyLock' = t
            /\ next' = [next EXCEPT ![t] = 2]
    /\ UNCHANGED <<listeners, unseen>>


lockListeners(t) ==
    /\ notifying[t] = "lock"
    /\ notifyLock = NoThread
    /\ IF listeners = << >>
       THEN /\ notifying' = [notifying EXCEPT ![t] = "no"]
            /\ UNCHANGED <<notifyLock, next>>
       ELSE /\ notifying' = [notifying EXCEPT ![t] = "calling"]
            /\ notifyLock' = t
            /\ next' = [next EXCEPT ![t] = 1]
    /\ UNCHANGED <<listeners, unseen>>

\* One call of the loop: the listener is called ...
callListener(t) ==
    /\ notifying[t] = "calling"
    /\ notifying' = [notifying EXCEPT ![t] = "called"]
    /\ unseen' = unseen \ {listeners[next[t]]}
    /\ UNCHANGED <<listeners, notifyLock, next>>

\* ... and returns, the last one also to the end of the lock's scope.
returnListener(t) ==
    /\ notifying[t] = "called"
    /\ IF next[t] = Len(listeners)
       THEN /\ notifying' = [notifying EXCEPT ![t] = "no"]
            /\ notifyLock' = NoThread
            /\ UNCHANGED next
       ELSE /\ notifying' = [notifying EXCEPT ![t] = "calling"]
            /\ next' = [next EXCEPT ![t] = next[t] + 1]
            /\ UNCHANGED notifyLock
    /\ UNCHANGED <<listeners, unseen>>

------------------------------------------------------------------------------

(***************************************************************************)
(* The listener that is being called is in the list: removeListener() does *)
(* not return while its listener is called, nor is it called afterwards,   *)
(* so its owner may delete it then.                                        *)
(***************************************************************************)
CalledAreListed ==
    \A t \in Thread :
        notifying[t] \in {"calling", "called"} => /\ notifyLock = t
                                                  /\ next[t] \in DOMAIN listeners

(***************************************************************************)
(* The identical listener is listed once, whatever the threads that add it *)
(* (servnotf.h:85), so that one removal ends its notifications.            *)
(***************************************************************************)
ListedOnce == IsInjective(listeners)

(***************************************************************************)
(* No change is lost: a listener that has not been told of a change is     *)
(* still listed, and some thread has yet to reach it: that thread is on    *)
(* its way to the lock, or holds it and has not passed that listener.      *)
(***************************************************************************)
NoLostChange ==
    \A l \in unseen :
        /\ l \in ToSet(listeners)
        /\ \E t \in Thread :
             \/ notifying[t] \in {"changed", "lock"}
             \/ /\ notifying[t] = "calling"
                /\ \E i \in next[t] .. Len(listeners) : listeners[i] = l
             \/ /\ notifying[t] = "called"
                /\ \E i \in next[t] + 1 .. Len(listeners) : listeners[i] = l

=============================================================================
