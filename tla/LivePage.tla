------------------------------ MODULE LivePage ------------------------------
(***************************************************************************)
(* What Studio promises the owner of a portfolio, whatever its workers do: *)
(* one build at a time, and a live page that is only ever replaced by a    *)
(* page with a higher version number.  A build that does not end well      *)
(* leaves the live page as it was.                                         *)
(***************************************************************************)
EXTENDS Naturals

VARIABLES
    building,  \* a build is in flight
    number     \* version number of the live page, 0 before the first

Init == building = FALSE /\ number = 0

Begin == ~ building /\ building' = TRUE /\ UNCHANGED number

\* The build's page goes live, or the build ends and the page stays.
Publish == building /\ building' = FALSE /\ number' > number /\ number' \in Nat
Abandon == building /\ building' = FALSE /\ UNCHANGED number

\* A build was lost, and the operation that found out begins the next one.
Replace == building /\ UNCHANGED <<building, number>>

\* An earlier page is copied as the newest one; a lost build is dropped first.
Restore == building' = FALSE /\ number > 0 /\ number' > number /\ number' \in Nat

Next == Begin \/ Publish \/ Abandon \/ Replace \/ Restore

Spec == Init /\ [][Next]_<<building, number>>

=============================================================================
