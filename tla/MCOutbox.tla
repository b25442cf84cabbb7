------------------------------ MODULE MCOutbox ------------------------------
(* Two slices of an instance of Mail for TLC: two events, one of which has *)
(* no queue, and two workers, with nobody to write to; and one event, one  *)
(* worker and some mailboxes.  No symmetry, as liveness is checked.         *)
EXTENDS Mail

CONSTANTS Mailed,    \* the event of the second slice,
          Mailman    \* and its worker

VARIABLE slice

MCInit ==
    /\ MailInit
    /\ \/ slice = "DISPATCH" /\ to = [e \in Events |-> {}]
       \/ /\ slice = "MAIL"
          /\ \E found \in SUBSET Mailboxes \ {{}} :
                 to = [[e \in Events |-> {}] EXCEPT ![Mailed] = found]

(* A job that BullMQ forgot comes back, for a single recipient.            *)
Again == job[Mailed].forgets > 0 /\ Cardinality(to[Mailed]) = 1

(* In the second slice the event gets to its queue without a hitch.        *)
Smooth ==
    /\ \A e \in Events \ {Mailed} : event[e].status = "NONE"
    /\ \A w \in Workers, e \in Events :
           Holds(w, e) => w = Mailman /\ hold[w][e].step # "REFUSED"
    /\ event[Mailed].status = "PROCESSING" => Held(Mailed) \/ Again
    /\ event[Mailed].old => event[Mailed].status = "PROCESSED" \/ Again

MCNext ==
    /\ MailNext
    /\ UNCHANGED slice
    /\ slice = "MAIL" => Smooth'

MCSpec == MCInit /\ [][MCNext]_<<vars, mailVars, slice>> /\ Fairness
=============================================================================
