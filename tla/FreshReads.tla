---- MODULE FreshReads ----
(***************************************************************************)
(* What a cached read of the API promises: it answers with something the   *)
(* record has been, and with nothing older than what the last acknowledged *)
(* write left when the read began.  A cache that lost an invalidation, its *)
(* own counter or its data is excused from the second half.                *)
(***************************************************************************)
EXTENDS Integers

CONSTANTS Reader

VARIABLES current,  \* the record, counted in writes
          acked,    \* the newest write whose caller has had its answer
          floor,    \* per read: what acked was when it began
          answer,   \* per read: what it answered, or -1 before
          excused

NoAnswer == -1

ReadsInit ==
  /\ current = 0 /\ acked = 0 /\ excused = FALSE
  /\ floor = [r \in Reader |-> 0] /\ answer = [r \in Reader |-> NoAnswer]

Write == current' = current + 1 /\ UNCHANGED <<acked, floor, answer>>

Acknowledge == /\ acked' \in acked..current
               /\ UNCHANGED <<current, floor, answer>>

Ask(r) == /\ floor' = [floor EXCEPT ![r] = acked]
          /\ answer' = [answer EXCEPT ![r] = NoAnswer]
          /\ UNCHANGED <<current, acked>>

\* One loaded value may answer several reads at once.
Answer == \E readers \in SUBSET Reader, value \in 0..current :
            /\ \A r \in readers : excused \/ floor[r] <= value
            /\ answer' = [r \in Reader |-> IF r \in readers THEN value ELSE answer[r]]
            /\ UNCHANGED <<current, acked, floor>>

ReadsNext == /\ Write \/ Acknowledge \/ (\E r \in Reader : Ask(r)) \/ Answer
             /\ excused' \in {excused, TRUE}

ReadsSpec == ReadsInit /\ [][ReadsNext]_<<current, acked, floor, answer, excused>>
====
