-------------------------- MODULE DispatchContract --------------------------
(***************************************************************************)
(* What dispatch() promises, without the means: a call is answered by a    *)
(* provider call of its own or by a result that a provider call for the    *)
(* same key left behind; provider calls happen one at a time and only on   *)
(* an open session; a failed call leaves nothing behind.  SingleFlight     *)
(* implements this.                                                        *)
(***************************************************************************)
CONSTANTS Thread, Key, None

VARIABLES phase,      \* what each thread's call is doing
          want,       \* the key it asked for, None without one
          available,  \* the keys whose result can be served again
          open        \* whether the session is open

vars == <<phase, want, available, open>>

Phase == {"idle", "pending", "calling", "succeeded", "ending"}

Init ==
    /\ phase = [t \in Thread |-> "idle"]
    /\ want = [t \in Thread |-> None]
    /\ available = {}
    /\ open = TRUE

Become(t, p) == phase' = [phase EXCEPT ![t] = p]

Ask(t, k) ==
    /\ phase[t] = "idle"
    /\ Become(t, "pending")
    /\ want' = [want EXCEPT ![t] = k]
    /\ UNCHANGED <<available, open>>

(* The call is over, with a result or an exception. *)
Finish(t) ==
    /\ Become(t, "idle")
    /\ want' = [want EXCEPT ![t] = None]
    /\ UNCHANGED <<available, open>>

(* A call without a provider call of its own needs somebody else's result. *)
Serve(t) ==
    /\ phase[t] = "pending"
    /\ want[t] \in available
    /\ Finish(t)

Call(t) ==
    /\ phase[t] = "pending"
    /\ open
    /\ \A u \in Thread : phase[u] # "calling"
    /\ Become(t, "calling")
    /\ UNCHANGED <<want, available, open>>

Succeed(t) ==
    /\ phase[t] = "calling"
    /\ \/ Become(t, "succeeded") /\ UNCHANGED <<want, available, open>>
       \/ Finish(t)

Fail(t) ==
    /\ phase[t] \in {"pending", "calling"}
    /\ \/ Become(t, "ending") /\ UNCHANGED <<want, available, open>>
       \/ Finish(t)

(* The result of a successful call becomes available, perhaps at the cost  *)
(* of others.                                                              *)
Publish(t) ==
    /\ phase[t] = "succeeded"
    /\ Become(t, "ending")
    /\ \/ /\ available' \subseteq available \cup {want[t]}
          /\ want[t] \in available'
       \/ UNCHANGED available
    /\ UNCHANGED <<want, open>>

End(t) ==
    /\ phase[t] = "ending"
    /\ Finish(t)

Forget ==
    /\ available' \subseteq available
    /\ UNCHANGED <<phase, want, open>>

Close ==
    /\ \A t \in Thread : phase[t] # "calling"
    /\ open' = FALSE
    /\ UNCHANGED <<phase, want, available>>

Next ==
    \/ \E t \in Thread : \/ \E k \in Key \cup {None} : Ask(t, k)
                         \/ Serve(t) \/ Call(t) \/ Succeed(t) \/ Fail(t)
                         \/ Publish(t) \/ End(t)
    \/ Forget
    \/ Close

Spec == Init /\ [][Next]_vars
=============================================================================
