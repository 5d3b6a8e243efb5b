----------------------------- MODULE TrackRecord -----------------------------
(***************************************************************************)
(* What the forward record promises, without ticks, files or retries.      *)
(*                                                                         *)
(* Names are given a verdict on days, once and for all.  The record is a   *)
(* log of days every name has a verdict on: it opens with one day, grows   *)
(* only after that day, possibly out of order, and what it says of a day   *)
(* is the verdicts of that day and never changes.                          *)
(***************************************************************************)
EXTENDS Integers

CONSTANTS Names, Days, Verdicts

VARIABLES
  verdict,  \* verdict[n][d]: {} or the one verdict on name n for day d
  record    \* recorded day -> the verdict of every name

AtMostOne == {{}} \cup {{v} : v \in Verdicts}
Judged(d) == \A n \in Names : verdict[n][d] # {}

TypeOK ==
  /\ verdict \in [Names -> [Days -> AtMostOne]]
  /\ \E D \in SUBSET Days : record \in [D -> [Names -> AtMostOne]]

Init ==
  /\ verdict = [n \in Names |-> [d \in Days |-> {}]]
  /\ record = <<>>

\* Some names get their verdicts; those given stand.
Judge ==
  /\ verdict' \in [Names -> [Days -> AtMostOne]]
  /\ \A n \in Names, d \in Days :
       verdict[n][d] # {} => verdict'[n][d] = verdict[n][d]
  /\ UNCHANGED record

\* Days every name has a verdict on are entered: one to open the record,
\* afterwards any that lie after its first day.
Enter(D) ==
  /\ \A d \in D : d \notin DOMAIN record /\ Judged(d)
  /\ IF DOMAIN record = {}
     THEN \A d, e \in D : d = e
     ELSE \A d \in D : \E first \in DOMAIN record : first < d
  /\ record' = [d \in DOMAIN record \cup D |->
                  IF d \in DOMAIN record THEN record[d]
                  ELSE [n \in Names |-> verdict[n][d]]]
  /\ UNCHANGED verdict

Next == Judge \/ \E D \in SUBSET Days : Enter(D)

Spec == Init /\ [][Next]_<<verdict, record>>
=============================================================================
