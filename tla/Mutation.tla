------------------------------ MODULE Mutation ------------------------------
(***************************************************************************)
(* What one mutation of Foundry promises to those who ask for it, whatever *)
(* carries it: it runs at most once, and only while somebody waits for it  *)
(* or was told that it may yet run; when the last who waited has left, a   *)
(* mutation that ran is denied by some answers at most, never by all; and  *)
(* success is told only of one that ran.                                   *)
(***************************************************************************)
EXTENDS Naturals

CONSTANTS
    Answers,        \* what a caller can be told
    MayHaveRun,     \* those that say, or leave open, that it ran
    MayYetRun       \* those that leave open that it may yet run

VARIABLES
    asked,          \* a caller waits for the answer
    runs,           \* how often it was handed to Foundry
    told            \* what the callers were told

Told(answers) == told \cap answers # {}

Init == ~asked /\ runs = 0 /\ told = {}

Ask == ~asked /\ asked' /\ UNCHANGED <<runs, told>>

Run ==
    /\ runs = 0 /\ runs' = 1
    /\ asked \/ Told(MayYetRun)
    /\ UNCHANGED <<asked, told>>

\* A caller is answered; others of the same request may go on waiting.
Tell ==
    /\ \E answer \in Answers :
          /\ told' = told \cup {answer}
          /\ answer = "ok" => runs > 0
    /\ asked' => asked
    /\ runs > 0 => asked' \/ Told(MayHaveRun)'
    /\ UNCHANGED runs

Next == Ask \/ Run \/ Tell

Step == [Next]_<<asked, runs, told>>

Spec == Init /\ [][Next]_<<asked, runs, told>>
=============================================================================
