----------------------------- MODULE MCSessions -----------------------------
(* Five slices of who is let in, for TLC: the rotation of tokens against   *)
(* every revocation, without failed attempts; sign-in against what resets  *)
(* its counter, without rotation; invitations against all that is decided  *)
(* on an account; password resets against invitations; and the onboarding  *)
(* of a distributor.  Sessions, requests, links and callers are            *)
(* interchangeable, and no liveness is checked.                            *)
EXTENDS Sessions, Distributors, Links, TLC

VARIABLE slice

Within(r) ==
    \/ slice = "ROTATION" /\ (r.kind = "SIGN_IN" => r.correct)
                          /\ (r.kind = "REVOKE" => r.cause # "PASSWORD_RESET")
    \/ slice = "ACCOUNT"  /\ r.kind # "ROTATE"
                          /\ (r.kind = "REVOKE" => r.cause # "FAMILY")

WithinLinks(e) ==
    \/ slice = "INVITATION" /\ e.kind \notin {"ASK_RESET", "RESET"}
    \/ slice = "RESET" /\ e.kind \in {"ASK_RESET", "RESET", "REACTIVATE", "ACCEPT"}

OfLinks == slice \in {"INVITATION", "RESET"}

MCInit ==
    /\ Init
    /\ PartnerInit
    /\ LinkInit
    /\ slice \in {"ROTATION", "ACCOUNT", "ONBOARDING", "INVITATION", "RESET"}
    /\ slice # "ONBOARDING" => partner.gstin
    /\ ~OfLinks => Seeded

MCNext ==
    /\ UNCHANGED slice
    /\ \/ /\ slice \in {"ROTATION", "ACCOUNT"}
          /\ Next
          /\ UNCHANGED <<partnerVars, linkVars>>
          /\ \A p \in Requests : request'[p] # NoRequest => Within(request'[p])
          /\ slice = "ACCOUNT" => expired' = {}
       \/ /\ slice = "ONBOARDING"
          /\ PartnerNext
          /\ UNCHANGED <<vars, linkVars>>
       \/ /\ OfLinks
          /\ LinkNext
          /\ \A c \in Callers : errand'[c] # NoErrand => WithinLinks(errand'[c])
          /\ UNCHANGED <<vars, partnerVars>>

MCSpec == MCInit /\ [][MCNext]_<<vars, partnerVars, linkVars, slice>>

Symmetry == Permutations(SessionIds) \cup Permutations(Requests)
=============================================================================
