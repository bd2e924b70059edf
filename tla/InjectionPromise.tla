--------------------------- MODULE InjectionPromise ---------------------------
(***************************************************************************)
(* What submitting a text during a run promises, seen from outside: every  *)
(* text has one fate, moves along it in one direction, and is answered at  *)
(* most once (UserInjectResult), FALSE only if no model ever gets it.      *)
(*                                                                         *)
(*   new -> asked -> accepted -> sent -> saved -> removed                  *)
(*                 \ opened -> saved    returned, refused: never sent      *)
(***************************************************************************)
EXTENDS Naturals, Sequences

CONSTANT Texts

VARIABLES fate, answer

Fates == {"new", "asked", "accepted", "sent", "opened", "saved", "removed", "returned", "refused"}

\* No further step concerns a text that is settled, except its removal.
Settled == {"saved", "removed", "returned", "refused"}

Init ==
  /\ fate = [i \in Texts |-> "new"]
  /\ answer = [i \in Texts |-> <<>>]

\* The texts of S move from one fate to the next, together.
Move(S, from, to) ==
  /\ S # {} /\ \A i \in S : fate[i] = from
  /\ fate' = [i \in Texts |-> IF i \in S THEN to ELSE fate[i]]

Ask    == /\ \E i \in Texts : Move({i}, "new", "asked")
          /\ UNCHANGED answer
Accept == /\ \E i \in Texts : Move({i}, "asked", "accepted")
          /\ UNCHANGED answer
Refuse == /\ \E i \in Texts : Move({i}, "asked", "refused")
          /\ UNCHANGED answer

\* The user gets the text back: it was never sent and never will be.
Return == \E i \in Texts :
  /\ answer[i] = <<>>
  /\ \E from \in {"asked", "accepted"} : Move({i}, from, "returned")
  /\ answer' = [answer EXCEPT ![i] = <<FALSE>>]

\* A text opens a turn of its own; the unanswered end of a failed turn, one text, goes.
Open == \E i \in Texts, R \in SUBSET Texts :
  /\ fate[i] = "asked"
  /\ \A j \in R : fate[j] = "saved" /\ \A k \in R : k = j
  /\ fate' = [j \in Texts |-> IF j = i THEN "opened" ELSE IF j \in R THEN "removed" ELSE fate[j]]
  /\ UNCHANGED answer

Send == /\ \E S \in SUBSET Texts : Move(S, "accepted", "sent")
        /\ UNCHANGED answer

\* The end of the pass: all that reached the model is history.
Save ==
  /\ fate' = [i \in Texts |-> IF fate[i] \in {"sent", "opened"} THEN "saved" ELSE fate[i]]
  /\ UNCHANGED answer

Tell == \E i \in Texts :
  /\ fate[i] \in {"sent", "saved", "removed"} /\ answer[i] = <<>>
  /\ answer' = [answer EXCEPT ![i] = <<TRUE>>]
  /\ UNCHANGED fate

Next == Ask \/ Accept \/ Refuse \/ Return \/ Open \/ Send \/ Save \/ Tell

Spec == Init /\ [][Next]_<<fate, answer>>
=============================================================================
