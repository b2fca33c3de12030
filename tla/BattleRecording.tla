-------------------------- MODULE BattleRecording --------------------------
(* What a user of the log directory is promised about recordings of battles: *)
(* at most one is being made, it grows by whole pairs of records, it ends    *)
(* either complete, with one last pair, or torn, with some of its pairs, and *)
(* nothing touches it afterwards but a new battle begun in the same second,  *)
(* which replaces it.                                                        *)
EXTENDS Integers

CONSTANT Seconds

VARIABLE recording    \* for each second, the recording of that name

NoRecording == [fate |-> "none", pairs |-> 0]

Init == recording = [s \in Seconds |-> NoRecording]

Made(s) == recording[s].fate = "open"

Begin(s) ==
    /\ \A r \in Seconds : ~Made(r)
    /\ recording' = [recording EXCEPT ![s] = [fate |-> "open", pairs |-> 0]]

Record(s) ==
    /\ Made(s)
    /\ recording' = [recording EXCEPT
                        ![s] = [fate |-> "open", pairs |-> recording[s].pairs + 1]]

Finish(s) ==
    /\ Made(s)
    /\ recording' = [recording EXCEPT
                        ![s] = [fate |-> "complete", pairs |-> recording[s].pairs + 1]]

\* The last pair may have been under way.
Lose(s) ==
    /\ Made(s)
    /\ \E n \in 0..(recording[s].pairs + 1) :
         recording' = [recording EXCEPT ![s] = [fate |-> "torn", pairs |-> n]]

Next == \E s \in Seconds : Begin(s) \/ Record(s) \/ Finish(s) \/ Lose(s)

Spec == Init /\ [][Next]_recording

=============================================================================
