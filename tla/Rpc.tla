-------------------------------- MODULE Rpc --------------------------------
(***************************************************************************)
(* What the messaging layer promises to the applications above it,         *)
(* without queues, clocks or addresses.  A call is a message sent with a   *)
(* callback set (BaseApplication::send); a message sent without one is     *)
(* only posted.  A call is answered at most once: it succeeds, fails, or   *)
(* is abandoned because the node that made it left the network.  It        *)
(* succeeds only if its destination executed the request.  The request may  *)
(* be executed more than once, and also when the call fails.               *)
(***************************************************************************)
CONSTANT Tag                \* names of messages, `Message::tag'

VARIABLES status,           \* how each message stands with its sender
          executed          \* tags of the requests some node has handled

vars == <<status, executed>>

Status == {"unused", "posted", "waiting", "success", "failure", "abandoned"}

Init == /\ status = [t \in Tag |-> "unused"]
        /\ executed = {}

Issue(t, s) ==
    /\ status[t] = "unused"
    /\ status' = [status EXCEPT ![t] = s]
    /\ UNCHANGED executed

Execute(t) ==
    /\ status[t] # "unused"
    /\ executed' = executed \cup {t}
    /\ UNCHANGED status

\* A node may call itself, and then handles the request as it is answered.
Succeed(t) ==
    /\ status[t] = "waiting"
    /\ status' = [status EXCEPT ![t] = "success"]
    /\ executed' \in {executed, executed \cup {t}}
    /\ t \in executed'

Fail(t) ==
    /\ status[t] = "waiting"
    /\ status' = [status EXCEPT ![t] = "failure"]
    /\ UNCHANGED executed

\* Every call of one node is abandoned at once, when that node leaves.
Abandon(T) ==
    /\ \A t \in T : status[t] = "waiting"
    /\ status' = [t \in Tag |-> IF t \in T THEN "abandoned" ELSE status[t]]
    /\ UNCHANGED executed

Next == \/ \E t \in Tag : \/ \E s \in {"posted", "waiting"} : Issue(t, s)
                          \/ Execute(t)
                          \/ Succeed(t)
                          \/ Fail(t)
        \/ \E T \in SUBSET Tag : Abandon(T)

Spec == Init /\ [][Next]_vars
=============================================================================
