----------------------------- MODULE AtMostOnce -----------------------------
(***************************************************************************)
(* What a caller of shadowfiend's API may rely on: a call takes effect at  *)
(* most once; if it returns, it has taken effect, if it is refused it has  *)
(* not and never will.  Any other end tells nothing: the call may have     *)
(* taken effect, or may yet do so.                                         *)
(***************************************************************************)
EXTENDS Naturals

CONSTANT Calls

VARIABLES
  phase,   \* what the caller knows of each call
  done     \* how often each call has taken effect

Init ==
  /\ phase = [i \in Calls |-> "idle"]
  /\ done = [i \in Calls |-> 0]

(* A call may be refused at once.                                          *)
Call(i) ==
  /\ phase[i] = "idle"
  /\ \E p \in {"called", "refused"} : phase' = [phase EXCEPT ![i] = p]
  /\ UNCHANGED done

TakeEffect(i) ==
  /\ phase[i] \in {"called", "unknown"}
  /\ done[i] = 0
  /\ done' = [done EXCEPT ![i] = 1]
  /\ UNCHANGED phase

Return(i) ==
  /\ phase[i] = "called"
  /\ done[i] = 1
  /\ phase' = [phase EXCEPT ![i] = "returned"]
  /\ UNCHANGED done

Refuse(i) ==
  /\ phase[i] = "called"
  /\ done[i] = 0
  /\ phase' = [phase EXCEPT ![i] = "refused"]
  /\ UNCHANGED done

GiveUp(i) ==
  /\ phase[i] = "called"
  /\ phase' = [phase EXCEPT ![i] = "unknown"]
  /\ UNCHANGED done

(* The place of a call that has ended is used for another one.             *)
Forget(i) ==
  /\ phase[i] \in {"returned", "refused", "unknown"}
  /\ phase' = [phase EXCEPT ![i] = "idle"]
  /\ done' = [done EXCEPT ![i] = 0]

Next == \E i \in Calls : \/ Call(i) \/ TakeEffect(i) \/ Return(i)
                         \/ Refuse(i) \/ GiveUp(i) \/ Forget(i)

Spec == Init /\ [][Next]_<<phase, done>>
=============================================================================
