---------------------------- MODULE RpcAbstract ----------------------------
(***************************************************************************)
(* What a remote call promises the code that makes it.  A call runs at     *)
(* most once on the server; a call that returned success has run, unless   *)
(* it asked for no reply; a call that failed may have run, may never run   *)
(* and may still run after it returned.                                    *)
(***************************************************************************)
EXTENDS Naturals

CONSTANT Calls

VARIABLES noReply, \* the calls that ask for no reply
          status,  \* what the caller knows: "idle", "pending", "ok", "failed"
          runs     \* how many times the server has run the call

vars == <<status, runs>>

Init == /\ noReply \subseteq Calls
        /\ status = [r \in Calls |-> "idle"]
        /\ runs = [r \in Calls |-> 0]

Begin(r) == /\ status[r] = "idle"
            /\ status' = [status EXCEPT ![r] = "pending"]
            /\ UNCHANGED runs

Run(r) == /\ status[r] # "idle"
          /\ runs[r] = 0
          /\ runs' = [runs EXCEPT ![r] = 1]
          /\ UNCHANGED status

Succeed(r) == /\ status[r] = "pending"
              /\ r \in noReply \/ runs[r] = 1
              /\ status' = [status EXCEPT ![r] = "ok"]
              /\ UNCHANGED runs

Fail(r) == /\ status[r] = "pending"
           /\ status' = [status EXCEPT ![r] = "failed"]
           /\ UNCHANGED runs

Next == \E r \in Calls : Begin(r) \/ Run(r) \/ Succeed(r) \/ Fail(r)

Spec == Init /\ [][Next /\ UNCHANGED noReply]_<<noReply, vars>>
=============================================================================
