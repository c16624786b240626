---------------------------- MODULE FixedWindow ----------------------------
(***************************************************************************)
(* What a rate limiter promises: each client has windows that open at      *)
(* least Window apart, and at most Limit requests are granted in each.  A  *)
(* request is denied only when the window has no slot left.  A request     *)
(* that the limiter could not serve may have used a slot up.               *)
(***************************************************************************)
EXTENDS Integers

CONSTANTS Requests, Keys, Limit, Window

VARIABLES
    opened, \* when the current window of a key was opened
    used,   \* the slots of it that are taken
    answer  \* what each request was told

window == <<opened, used>>

WindowInit ==
    /\ opened = [k \in Keys |-> 0]
    /\ used = [k \in Keys |-> 0]
    /\ answer = [r \in Requests |-> "none"]

Tell(r, told) ==
    /\ answer[r] = "none"
    /\ answer' = [answer EXCEPT ![r] = told]

\* The next slot of the current window, or the first slot of a new one.
TakeNext(k) ==
    /\ used[k] < Limit[k]
    /\ used' = [used EXCEPT ![k] = @ + 1]
    /\ UNCHANGED opened

TakeFirst(k) ==
    /\ opened'[k] >= opened[k] + Window
    /\ opened' = [opened EXCEPT ![k] = opened'[k]]
    /\ used' = [used EXCEPT ![k] = 1]

Take(k) == TakeNext(k) \/ TakeFirst(k)

Grant(r, k) == Tell(r, "granted") /\ Take(k)
Deny(r, k) == Tell(r, "denied") /\ used[k] >= Limit[k] /\ UNCHANGED window
Refuse(r, k) == Tell(r, "unavailable") /\ (Take(k) \/ UNCHANGED window)
Pass(r) == Tell(r, "passed") /\ UNCHANGED window

WindowNext ==
    \/ \E r \in Requests, k \in Keys : Grant(r, k) \/ Deny(r, k) \/ Refuse(r, k)
    \/ \E r \in Requests : Pass(r)

WindowSpec == WindowInit /\ [][WindowNext]_<<opened, used, answer>>
=============================================================================
