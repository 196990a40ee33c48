------------------------------- MODULE Lockout -------------------------------
(***************************************************************************)
(* What the sign-in throttle promises of one workspace: failures count per *)
(* username, and from MaxAttempts on each of them locks the name for       *)
(* LockFor, nobody starts an attempt on a locked name, and only time or a  *)
(* successful sign-in ends a lock.  SignIn implements it as long as one    *)
(* request per name is being handled.                                      *)
(***************************************************************************)
EXTENDS Naturals

CONSTANTS Names, MaxAttempts, LockFor, MaxNow

VARIABLES
  now,
  count,   \* count[n]: failures in a row
  until,   \* until[n]: when the lock ends, 0 for none
  began    \* began[n]: since when an attempt is being judged, or NotTrying

throttle == <<now, count, until, began>>

NotTrying == MaxNow + 1

Locked(n) == until[n] > now

Init == /\ now = 0
        /\ count = [n \in Names |-> 0]
        /\ until = [n \in Names |-> 0]
        /\ began = [n \in Names |-> NotTrying]

Tick == now < MaxNow /\ now' = now + 1 /\ UNCHANGED <<count, until, began>>

\* An attempt may take a while: the lock it may cause counts from its last step.
Try(n) == /\ began[n] = NotTrying => ~ Locked(n)
          /\ began' = [began EXCEPT ![n] = now]
          /\ UNCHANGED <<now, count, until>>

\* An attempt may also end without an answer: it was cut off, or is not counted.
GiveUp(n) == /\ began' = [began EXCEPT ![n] = NotTrying]
             /\ UNCHANGED <<now, count, until>>

\* The server is stopped, and with it every attempt.
Stop == /\ began' = [n \in Names |-> NotTrying]
        /\ UNCHANGED <<now, count, until>>

Fail(n) == /\ began[n] # NotTrying
           /\ count' = [count EXCEPT ![n] = @ + 1]
           /\ until' = [until EXCEPT ![n] =
                          IF count[n] + 1 >= MaxAttempts THEN began[n] + LockFor ELSE 0]
           /\ began' = [began EXCEPT ![n] = NotTrying]
           /\ UNCHANGED now

Succeed(n) == /\ began[n] # NotTrying
              /\ count' = [count EXCEPT ![n] = 0]
              /\ until' = [until EXCEPT ![n] = 0]
              /\ began' = [began EXCEPT ![n] = NotTrying]
              /\ UNCHANGED now

Next == Tick \/ Stop \/ \E n \in Names : Try(n) \/ GiveUp(n) \/ Fail(n) \/ Succeed(n)

Spec == Init /\ [][Next]_throttle
=============================================================================
