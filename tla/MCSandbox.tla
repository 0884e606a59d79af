------------------------------ MODULE MCSandbox ------------------------------
(* Sandbox for TLC: the runs differ in what they go to and what is listed.   *)
EXTENDS Sandbox

CONSTANTS s1, listed, other, star, none

OneSandbox == {s1}
TwoUrls    == {listed, other}
OnePattern == {star}
ListedOnly == {<<listed, star>>}

GotoStep(u)  == [keyword |-> "goto", url |-> u]
Plain(k)     == [keyword |-> k, url |-> none]

SomeRequests ==
    [steps : {<<GotoStep(listed), Plain("expect")>>, <<GotoStep(other), Plain("act")>>,
              <<Plain("act")>>, <<Plain("unsupported")>>},
     target : {none, other}, allowed : {{}, {star}}]

=============================================================================
