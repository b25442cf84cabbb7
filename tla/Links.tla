-------------------------------- MODULE Links --------------------------------
(***************************************************************************)
(* The one-time links that are mailed to one account: its invitation and   *)
(* its password resets (apps/api/src/modules/auth/auth.service.ts), and    *)
(* what administrators do to the account meanwhile (users.service.ts).     *)
(*                                                                         *)
(* Every operation reads and checks first, and then writes by id in a      *)
(* transaction that checks nothing again.  Two links of one kind may not   *)
(* be good at once: whoever asks for a new link closes the open ones, by a *)
(* scan that sees what is committed and an update of what is still open.   *)
(* The sessions that an acceptance opens and a reset, a suspension or a    *)
(* removal ends are those of module Sessions; changePassword() asks for a  *)
(* password and replaces it, so that nothing here tells it apart.          *)
(***************************************************************************)
EXTENDS Naturals, FiniteSets

CONSTANTS Links,     \* identities of token rows
          Callers,   \* concurrent API requests
          NoErrand   \* a caller with nothing in flight

VARIABLES person,      \* the columns of the user row that links work on
          link,        \* one row per token
          errand,      \* what each caller has checked and is about to do
          spent,       \* history: how often each link was used or closed
          accepted,    \* history: how many acceptances were committed
          barred,      \* history: a suspension since the last reactivation
          overlapped   \* history: what two callers worked on at once

linkVars == <<person, link, errand, spent, accepted, barred, overlapped>>

LinkKinds == {"INVITE", "RESET"}

(* hastened is history: reactivated before there was a password.           *)
Person == [status : {"INVITED", "ACTIVE", "SUSPENDED"}, removed : BOOLEAN,
           password : BOOLEAN, hastened : BOOLEAN]

Link == [kind : LinkKinds, state : {"NONE", "OPEN", "USED", "PURGED"}, expired : BOOLEAN]

AskErrand    == [kind : {"RESEND", "ASK_RESET"}, scanned : BOOLEAN, found : SUBSET Links]
RedeemErrand == [kind : {"ACCEPT", "RESET", "VERIFY"}, link : Links]
DecideErrand == [kind : {"SUSPEND", "REACTIVATE", "REMOVE"}]

Unmade == [kind |-> "INVITE", state |-> "NONE", expired |-> FALSE]

(* invite(): the account and its first link; or the seed's account, which  *)
(* has a password and no link.                                             *)
Invited ==
    /\ person = [status |-> "INVITED", removed |-> FALSE, password |-> FALSE, hastened |-> FALSE]
    /\ \E first \in Links :
           link = [l \in Links |-> IF l = first THEN [Unmade EXCEPT !.state = "OPEN"] ELSE Unmade]

Seeded ==
    /\ person = [status |-> "ACTIVE", removed |-> FALSE, password |-> TRUE, hastened |-> FALSE]
    /\ link = [l \in Links |-> Unmade]

LinkInit ==
    /\ Invited \/ Seeded
    /\ errand = [c \in Callers |-> NoErrand]
    /\ spent = [l \in Links |-> 0]
    /\ accepted = 0
    /\ barred = FALSE
    /\ overlapped = {}

Open(l)     == link[l].state = "OPEN"
OnErrand(c) == errand[c] # NoErrand
Asks(e)     == e.kind \in {"RESEND", "ASK_RESET"}
Redeems(e)  == e.kind \in {"ACCEPT", "RESET", "VERIFY"}
KindAsked(e) == IF e.kind = "RESEND" THEN "INVITE" ELSE "RESET"

(* What two errands may get in each other's way on: a kind of link, one    *)
(* link, or the status.                                                    *)
Topics(e) ==
    (IF Asks(e) THEN {KindAsked(e)} \cup {l \in Links : link[l].state # "NONE" /\ link[l].kind = KindAsked(e)}
     ELSE {})
    \cup (IF Redeems(e) THEN {e.link} ELSE {})
    \cup (IF e.kind \in {"ACCEPT", "SUSPEND"} THEN {"STATUS"} ELSE {})

Undertake(c, e) ==
    /\ ~OnErrand(c)
    /\ errand' = [errand EXCEPT ![c] = e]
    /\ overlapped' = overlapped \cup
           UNION {Topics(e) \cap Topics(errand[d]) : d \in {x \in Callers : OnErrand(x)}}
    /\ UNCHANGED <<person, link, spent, accepted, barred>>

Ends(c) == errand' = [errand EXCEPT ![c] = NoErrand] /\ UNCHANGED overlapped

(***************************************************************************)
(* Asking for a link                                                       *)
(***************************************************************************)
(* resendInvite(), requestPasswordReset(): the user row is read.           *)
AskForLink(c, kind) ==
    /\ ~person.removed
    /\ kind = "RESEND" => person.status = "INVITED"
    /\ Undertake(c, [kind |-> kind, scanned |-> FALSE, found |-> {}])

(* The transaction begins: updateMany finds the links that are open.       *)
FindOpen(c) ==
    LET e == errand[c] IN
    /\ OnErrand(c) /\ Asks(e) /\ ~e.scanned
    /\ errand' = [errand EXCEPT ![c] = [e EXCEPT !.scanned = TRUE,
           !.found = {l \in Links : Open(l) /\ link[l].kind = KindAsked(e)}]]
    /\ UNCHANGED <<person, link, spent, accepted, barred, overlapped>>

(* Mutant: a new link leaves the older ones open.                          *)
NothingClosed(e) == {}

Closed(e) == {l \in e.found : Open(l)}

(* ... and those that still are get closed; a new one is created.          *)
Issue(c, new) ==
    LET e == errand[c] IN
    /\ OnErrand(c) /\ Asks(e) /\ e.scanned
    /\ link[new].state = "NONE"
    /\ link' = [l \in Links |->
           IF l = new THEN [kind |-> KindAsked(e), state |-> "OPEN", expired |-> FALSE]
           ELSE IF l \in Closed(e) THEN [link[l] EXCEPT !.state = "USED"] ELSE link[l]]
    /\ spent' = [l \in Links |-> IF l \in Closed(e) THEN spent[l] + 1 ELSE spent[l]]
    /\ Ends(c)
    /\ UNCHANGED <<person, accepted, barred>>

(***************************************************************************)
(* Redeeming a link                                                        *)
(***************************************************************************)
MayRedeem(l) == Open(l) /\ ~link[l].expired

(* acceptInvite(), resetPassword(), verifyEmail(): an invitation is also   *)
(* a token that verifies the address, and then nobody looks at the user.   *)
Redeem(c, kind, l) ==
    /\ MayRedeem(l)
    /\ link[l].kind = IF kind = "RESET" THEN "RESET" ELSE "INVITE"
    /\ kind # "VERIFY" => ~person.removed
    /\ kind = "ACCEPT" => person.status = "INVITED"
    /\ Undertake(c, [kind |-> kind, link |-> l])

(* The token is marked used by its id, which only fails where it is gone.  *)
Redeemed(c, kind) ==
    LET l == errand[c].link IN
    /\ OnErrand(c)
    /\ errand[c].kind = kind
    /\ link[l].state # "PURGED"
    /\ link' = [link EXCEPT ![l].state = "USED"]
    /\ spent' = [spent EXCEPT ![l] = @ + 1]
    /\ Ends(c)

Accept(c) ==
    /\ Redeemed(c, "ACCEPT")
    /\ person' = [person EXCEPT !.status = "ACTIVE", !.password = TRUE]
    /\ accepted' = accepted + 1
    /\ UNCHANGED barred

(* Whatever the status is: an INVITED account keeps it.                    *)
ResetPassword(c) ==
    /\ Redeemed(c, "RESET")
    /\ person' = [person EXCEPT !.password = TRUE]
    /\ UNCHANGED <<accepted, barred>>

VerifyEmail(c) == Redeemed(c, "VERIFY") /\ UNCHANGED <<person, accepted, barred>>

(***************************************************************************)
(* What administrators decide, whatever the status says by then            *)
(***************************************************************************)
Decide(c, kind) == ~person.removed /\ Undertake(c, [kind |-> kind])

Decided(c, kind) ==
    /\ OnErrand(c)
    /\ errand[c].kind = kind
    /\ Ends(c)
    /\ UNCHANGED <<link, spent, accepted>>

SuspendUser(c) ==
    /\ Decided(c, "SUSPEND")
    /\ person' = [person EXCEPT !.status = "SUSPENDED"]
    /\ barred' = TRUE

ReactivateUser(c) ==
    /\ Decided(c, "REACTIVATE")
    /\ person' = [person EXCEPT !.status = "ACTIVE", !.hastened = @ \/ ~person.password]
    /\ barred' = FALSE

RemoveUser(c) ==
    /\ Decided(c, "REMOVE")
    /\ person' = [person EXCEPT !.removed = TRUE]
    /\ UNCHANGED barred

(***************************************************************************)
(* Time, the nightly purge, and failures                                   *)
(***************************************************************************)
Lapse(l) ==
    /\ Open(l) /\ ~link[l].expired
    /\ link' = [link EXCEPT ![l].expired = TRUE]
    /\ UNCHANGED <<person, errand, spent, accepted, barred, overlapped>>

(* Used links lapse as well; whether they are purged changes nothing.      *)
PurgeLink(l) ==
    /\ Open(l) /\ link[l].expired
    /\ link' = [link EXCEPT ![l].state = "PURGED"]
    /\ UNCHANGED <<person, errand, spent, accepted, barred, overlapped>>

GiveUpErrand(c) ==
    /\ OnErrand(c)
    /\ Ends(c)
    /\ UNCHANGED <<person, link, spent, accepted, barred>>

Begins(c) ==
    \/ \E kind \in {"RESEND", "ASK_RESET"} : AskForLink(c, kind)
    \/ \E kind \in {"ACCEPT", "RESET", "VERIFY"}, l \in Links : Redeem(c, kind, l)
    \/ \E kind \in {"SUSPEND", "REACTIVATE", "REMOVE"} : Decide(c, kind)

Finishes(c) ==
    \/ FindOpen(c)
    \/ \E l \in Links : Issue(c, l)
    \/ Accept(c) \/ ResetPassword(c) \/ VerifyEmail(c)
    \/ SuspendUser(c) \/ ReactivateUser(c) \/ RemoveUser(c)
    \/ GiveUpErrand(c)

LinkNext ==
    \/ \E c \in Callers : Begins(c) \/ Finishes(c)
    \/ \E l \in Links : Lapse(l) \/ PurgeLink(l)

LinkSpec == LinkInit /\ [][LinkNext]_linkVars

(***************************************************************************)
(* Properties                                                              *)
(***************************************************************************)
LinkTypeOK ==
    /\ person \in Person
    /\ link \in [Links -> Link]
    /\ errand \in [Callers -> AskErrand \cup RedeemErrand \cup DecideErrand \cup {NoErrand}]
    /\ spent \in [Links -> Nat]
    /\ accepted \in Nat
    /\ barred \in BOOLEAN
    /\ overlapped \subseteq LinkKinds \cup Links \cup {"STATUS"}

(* "A reset request should leave exactly one usable token": two links of   *)
(* one kind are open only if two that asked for them overlapped.           *)
OneOpenLink ==
    \A l, m \in Links : l # m /\ Open(l) /\ Open(m) /\ link[l].kind = link[m].kind =>
        link[l].kind \in overlapped

(* "Single-use": a link is used or closed once, and not used after it was  *)
(* closed, unless two overlapped that worked on it.                        *)
SpentOnce == \A l \in Links : spent[l] > 1 => l \in overlapped

(* A suspension lasts until a reactivation, and an invitation is accepted  *)
(* once, unless an acceptance overlapped another or a suspension.          *)
StatusStands ==
    "STATUS" \notin overlapped => /\ barred => person.status = "SUSPENDED"
                                  /\ accepted <= 1

(* Whoever is ACTIVE has chosen a password, but for those who were         *)
(* reactivated before they did.                                            *)
ActiveChosePassword == person.status = "ACTIVE" => person.password \/ person.hastened

(* However acceptances, resets, new links, lapses, purges and decisions    *)
(* overlap: one link of a kind is open, it works once, a suspension lasts, *)
(* and an active account has a password, as far as the notes say.          *)
LinksHold == LinkTypeOK /\ OneOpenLink /\ SpentOnce /\ StatusStands /\ ActiveChosePassword
=============================================================================
