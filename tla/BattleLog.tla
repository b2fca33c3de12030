----------------------------- MODULE BattleLog -----------------------------
(* The pair of log files the teleop server keeps for one battle: one with    *)
(* observation ("state") records, one with action records, both named after  *)
(* the second in which the battle mode was entered (src/server_teleop.c).    *)
(*                                                                           *)
(* A record is abstracted to its existence, a file to its number of records, *)
(* and the two file names to the second they share.  stdio keeps records in  *)
(* a buffer of each file until it is full or closed, so what is on disk while *)
(* a pair is open is left out; one that was torn by the death of the process *)
(* keeps some of its records, not equally many in its two files.             *)
EXTENDS Integers

CONSTANTS
    Seconds,      \* the wall-clock seconds get_time_sec() may return
    MaxRecords    \* bound: record pairs written while commands are entered

ASSUME SecondsAssumption == Seconds \subseteq Nat
ASSUME MaxRecordsAssumption == MaxRecords \in Nat

VARIABLES
    log,          \* logfile_state and logfile_action of main()
    disk          \* what a reader of the directory finds for each second

logVars == <<log, disk>>

----------------------------------------------------------------------------
NoLog == [open |-> FALSE, name |-> 0, state |-> 0, action |-> 0]

Empty(fate) == [fate |-> fate, state |-> 0, action |-> 0]
Fates == {"none", "open", "torn", "complete"}

LogTypeOK ==
    /\ log \in [open : BOOLEAN, name : Seconds \cup {0},
                state : 0..MaxRecords, action : 0..MaxRecords]
    /\ disk \in [Seconds -> [fate : Fates, state : 0..(MaxRecords + 1),
                             action : 0..(MaxRecords + 1)]]

LogInit ==
    /\ log = NoLog
    /\ disk = [s \in Seconds |-> Empty("none")]

\* logfile_init, once for each file: fopen(name, "w") empties what the second's
\* names held before.
LogfileInit(s) ==
    /\ log' = [open |-> TRUE, name |-> s, state |-> 0, action |-> 0]
    /\ disk' = [disk EXCEPT ![s] = Empty("open")]

\* Mutant: only the observation is written.
WritePairStateOnly ==
    /\ log' = [log EXCEPT !.state = @ + 1]
    /\ UNCHANGED disk

\* logfile_write_state, then logfile_write_action.
WritePair ==
    /\ log' = [open |-> log.open, name |-> log.name,
               state |-> log.state + 1, action |-> log.action + 1]
    /\ UNCHANGED disk

\* The end of a battle: one more pair of records, then logfile_close for both.
WriteAndClose ==
    /\ log' = NoLog
    /\ disk' = [disk EXCEPT ![log.name] =
                    [fate |-> "complete", state |-> log.state + 1,
                     action |-> log.action + 1]]

Torn(s, a) == [disk EXCEPT ![log.name] = [fate |-> "torn", state |-> s, action |-> a]]

\* The process dies, while it writes a pair if underway is 1.  Whatever was open
\* is torn: each file keeps the records that its buffer had been emptied of.
LogLost(underway) ==
    /\ log' = NoLog
    /\ IF log.open
       THEN \E s \in 0..(log.state + underway), a \in 0..(log.action + underway) :
              disk' = Torn(s, a)
       ELSE UNCHANGED disk

\* logfile_close of the state file ends in assert(0), behind its fclose: that
\* file is whole, but abort() does not empty the buffer of the other one.
WriteAndCloseState ==
    /\ log' = NoLog
    /\ \E a \in 0..(log.action + 1) : disk' = Torn(log.state + 1, a)

=============================================================================
