------------------------------- MODULE MCGroups -------------------------------
(* A small instance of Groups.                                             *)
EXTENDS Groups, TLC

CONSTANTS w1, w2

(* One handler for every request, and the task.                    *)
Desk == (w1 :> {"claim", "unset", "add", "find", "form", "decline", "cancel",
                "waitlist", "purchase"})
        @@ (w2 :> {"task"})
===============================================================================
