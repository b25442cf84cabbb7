---------------------------- MODULE Distributors ----------------------------
(***************************************************************************)
(* The onboarding of one distributor (apps/api/src/modules/distributors):  *)
(* its life cycle (distributors.service.ts), the KYC evidence it rests on  *)
(* (distributor-kyc.service.ts) and its contacts                           *)
(* (distributor-relations.service.ts).                                     *)
(*                                                                         *)
(* An act on the life cycle, and a removal, reads and checks first and     *)
(* writes later, by id and unconditionally; what the officers do between   *)
(* the two is nobody's business.  What the checks let through is stated    *)
(* for the officers who take turns, and apart from that for all of them.   *)
(***************************************************************************)
EXTENDS Naturals, FiniteSets

CONSTANTS Officers,   \* those with a request of their own in flight
          Required,   \* REQUIRED_KYC_FOR_APPROVAL, as types of document
          Copies,     \* documents of one type that may be attached
          Contacts,   \* contact persons, none of them linked to a portal user
          Nothing

ASSUME DistributorsAssumption ==
    /\ {"GSTIN", "CONTACT"} \cap Required = {}
    /\ Contacts \cap (Required \X Copies) = {}
    /\ Nothing \notin Contacts \cup (Required \X Copies)

Documents == Required \X Copies

VARIABLES partner,     \* status, gstin and onboardedAt of the distributor row
          kyc,         \* the verification of each attached document
          contacts,    \* the contacts that are not deleted
          onFile,      \* the rows of all contacts, of the deleted ones too
          asked,       \* what each officer's request has checked and will write
          stale,       \* history: the requests whose checks a commit has overtaken
          overtaken,   \* history: such a request has committed
          waived,      \* history: evidence withdrawn where no check forbids it
          ended        \* history: the distributor was terminated

partnerVars ==
    <<partner, kyc, contacts, onFile, asked, stale, overtaken, waived, ended>>

DistributorStatuses == {"LEAD", "PENDING_APPROVAL", "ACTIVE", "SUSPENDED", "TERMINATED"}

Verifications == {"NONE", "ATTACHED", "VERIFIED", "REJECTED"}

(* Where each act on the life cycle leads, and DISTRIBUTOR_TRANSITIONS.    *)
LeadsTo ==
    [SUBMIT |-> "PENDING_APPROVAL", APPROVE |-> "ACTIVE", SUSPEND |-> "SUSPENDED",
     REACTIVATE |-> "ACTIVE", TERMINATE |-> "TERMINATED"]

Acts == DOMAIN LeadsTo

Transitions ==
    [LEAD             |-> {"PENDING_APPROVAL", "TERMINATED"},
     PENDING_APPROVAL |-> {"ACTIVE", "LEAD", "TERMINATED"},
     ACTIVE           |-> {"SUSPENDED", "TERMINATED"},
     SUSPENDED        |-> {"ACTIVE", "TERMINATED"},
     TERMINATED       |-> {}]

Asked == [act : Acts, of : {Nothing}] \cup [act : {"REMOVE"}, of : Documents \cup Contacts]

PartnerInit ==
    /\ \E gstin \in BOOLEAN :
           partner = [status |-> "LEAD", gstin |-> gstin, onboarded |-> FALSE]
    /\ kyc = [d \in Documents |-> "NONE"]
    /\ contacts = {}
    /\ onFile = {}
    /\ asked = [o \in Officers |-> Nothing]
    /\ stale = {}
    /\ overtaken = FALSE
    /\ waived = {}
    /\ ended = FALSE

IsActive == partner.status = "ACTIVE"

Asking(o) == asked[o] # Nothing

(* missingKyc(): a type counts when some document of it is verified.       *)
MissingKyc == {t \in Required : \A k \in Copies : kyc[<<t, k>>] # "VERIFIED"}

(* What approve() asks for and does not find.  A deleted contact counts:   *)
(* the soft-delete extension filters no relation nested in a query.        *)
Missing ==
    MissingKyc
        \cup (IF partner.gstin THEN {} ELSE {"GSTIN"})
        \cup (IF onFile = {} THEN {"CONTACT"} ELSE {})

(* What of it the distributor does not have.                               *)
Absent == Missing \cup (IF contacts = {} THEN {"CONTACT"} ELSE {})

(* What another request has checked may no longer be so.                   *)
Overtakes == stale' = {o \in Officers : asked'[o] # Nothing}

(* Evidence that goes is waived where no check stands in the way of it,    *)
(* and is no longer waived once it is there again.  An approval leaves     *)
(* nothing waived but the contact.                                         *)
Withdrawn == waived' = (waived \cup (Absent' \ Absent)) \cap Absent'
Provided  == waived' = waived \cap Absent'
Granted   == waived' = waived \cap {"CONTACT"}

(***************************************************************************)
(* The life cycle                                                          *)
(***************************************************************************)
(* Mutant: every act is guarded by the transition table, and reactivate()  *)
(* by nothing else.                                                        *)
ByTheTable(act) ==
    /\ LeadsTo[act] \in Transitions[partner.status]
    /\ act = "APPROVE" => Missing = {}

MayAct(act) ==
    /\ LeadsTo[act] \in Transitions[partner.status]
    /\ act = "APPROVE" => Missing = {}
    /\ act = "REACTIVATE" => partner.status = "SUSPENDED"

Ask(o, act) ==
    /\ ~Asking(o)
    /\ MayAct(act)
    /\ asked' = [asked EXCEPT ![o] = [act |-> act, of |-> Nothing]]
    /\ UNCHANGED <<partner, kyc, contacts, onFile, stale, overtaken, waived, ended>>

Answers(o) ==
    /\ asked' = [asked EXCEPT ![o] = Nothing]
    /\ overtaken' = (overtaken \/ o \in stale)
    /\ Overtakes

(* transition(): the row is updated by its id alone.                       *)
Transition(o) ==
    LET act == asked[o].act IN
        /\ Asking(o)
        /\ act \in Acts
        /\ partner' = [partner EXCEPT !.status = LeadsTo[act],
                                      !.onboarded = @ \/ act = "APPROVE"]
        /\ ended' = (ended \/ act = "TERMINATE")
        /\ Answers(o)
        /\ IF act = "APPROVE" THEN Granted ELSE UNCHANGED waived
        /\ UNCHANGED <<kyc, contacts, onFile>>

(* A request that dies, or whose transaction fails, changes nothing.       *)
Abandon(o) ==
    /\ Asking(o)
    /\ asked' = [asked EXCEPT ![o] = Nothing]
    /\ stale' = stale \ {o}
    /\ UNCHANGED <<partner, kyc, contacts, onFile, overtaken, waived, ended>>

(***************************************************************************)
(* Evidence                                                                *)
(***************************************************************************)
(* A row that comes is not the one a removal has found, and maybe lost.    *)
IsNew(it) == \A o \in Officers : Asking(o) => asked[o].of # it

(* attach(): one that is there already keeps its verification.             *)
Attach(d) ==
    /\ kyc[d] = "NONE"
    /\ IsNew(d)
    /\ kyc' = [kyc EXCEPT ![d] = "ATTACHED"]
    /\ UNCHANGED <<partner, contacts, onFile, asked, stale, overtaken, waived, ended>>

(* verify(), which asks for no status of the distributor.                  *)
Review(d, approved) ==
    /\ kyc[d] # "NONE"
    /\ kyc' = [kyc EXCEPT ![d] = IF approved THEN "VERIFIED" ELSE "REJECTED"]
    /\ UNCHANGED <<partner, contacts, onFile, asked, overtaken, ended>>
    /\ Withdrawn
    /\ Overtakes

(* update(), which may set the GSTIN and clear it.                         *)
SetGstin(given) ==
    /\ partner' = [partner EXCEPT !.gstin = given]
    /\ UNCHANGED <<kyc, contacts, onFile, asked, overtaken, ended>>
    /\ Withdrawn
    /\ Overtakes

AddContact(c) ==
    /\ c \notin onFile
    /\ contacts' = contacts \cup {c}
    /\ onFile' = onFile \cup {c}
    /\ UNCHANGED <<partner, kyc, asked, stale, overtaken, ended>>
    /\ Provided

(* remove() and removeContact(): verified evidence of an active            *)
(* distributor, and its last contact, are refused.                         *)
MayRemove(it) ==
    \/ it \in Documents /\ kyc[it] # "NONE" /\ (IsActive => kyc[it] # "VERIFIED")
    \/ it \in contacts /\ (IsActive => contacts \ {it} # {})

AskRemoval(o, it) ==
    /\ ~Asking(o)
    /\ MayRemove(it)
    /\ asked' = [asked EXCEPT ![o] = [act |-> "REMOVE", of |-> it]]
    /\ UNCHANGED <<partner, kyc, contacts, onFile, stale, overtaken, waived, ended>>

(* The row is deleted by its id, or a contact's marked as deleted; one     *)
(* that is gone, or marked already, throws.                                *)
RemoveKyc(o) ==
    LET it == asked[o].of IN
        /\ Asking(o)
        /\ asked[o].act = "REMOVE"
        /\ it \in Documents => kyc[it] # "NONE"
        /\ it \in Contacts => it \in contacts
        /\ kyc' = [d \in Documents |-> IF d = it THEN "NONE" ELSE kyc[d]]
        /\ contacts' = contacts \ {it}
        /\ UNCHANGED <<partner, onFile, ended>>
        /\ IF IsActive THEN Provided ELSE Withdrawn
        /\ Answers(o)

OfficerStep(o) ==
    \/ \E act \in Acts : Ask(o, act)
    \/ Transition(o)
    \/ \E it \in Documents \cup Contacts : AskRemoval(o, it)
    \/ RemoveKyc(o)
    \/ Abandon(o)

PartnerNext ==
    \/ \E o \in Officers : OfficerStep(o)
    \/ \E d \in Documents : Attach(d) \/ (\E approved \in BOOLEAN : Review(d, approved))
    \/ \E given \in BOOLEAN : SetGstin(given)
    \/ \E c \in Contacts : AddContact(c)

PartnerSpec == PartnerInit /\ [][PartnerNext]_partnerVars

(***************************************************************************)
(* Properties                                                              *)
(***************************************************************************)
(* Every variable holds a value of its kind.                               *)
PartnerTypeOK ==
    /\ partner \in [status : DistributorStatuses, gstin : BOOLEAN, onboarded : BOOLEAN]
    /\ kyc \in [Documents -> Verifications]
    /\ contacts \subseteq onFile
    /\ onFile \subseteq Contacts
    /\ asked \in [Officers -> Asked \cup {Nothing}]
    /\ stale \subseteq Officers
    /\ overtaken \in BOOLEAN
    /\ waived \subseteq Required \cup {"GSTIN", "CONTACT"}
    /\ ended \in BOOLEAN

(* "Anything else reaching ACTIVE is an approval": whatever overlaps, no   *)
(* distributor is ACTIVE or SUSPENDED that approve() has not let through.  *)
ApprovedFirst ==
    partner.status \in {"ACTIVE", "SUSPENDED"} => partner.onboarded

(* While no request acted on what another had overtaken, an ACTIVE         *)
(* distributor has the evidence approve() asked for, but for what was      *)
(* rejected or cleared since, or removed while it was suspended, and for   *)
(* the contact, which may have been removed before the approval as well.   *)
ActiveOnEvidence ==
    IsActive /\ ~overtaken => Absent \subseteq waived

(* TERMINATED is terminal, under the same condition.                       *)
TerminatedIsFinal ==
    ended /\ ~overtaken => partner.status = "TERMINATED"

(* The gate in front of ACTIVE cannot be walked around.                    *)
OnboardingHolds ==
    /\ PartnerTypeOK
    /\ ApprovedFirst
    /\ ActiveOnEvidence
    /\ TerminatedIsFinal

(* "An active distributor must have at least one contact" and "Cannot      *)
(* approve without at least one contact person": stated where the officers *)
(* take turns.  A deleted contact suffices for approve(), and              *)
(* reactivate() asks for none.                                             *)
ActiveHasContact ==
    IsActive /\ ~overtaken => contacts # {}
=============================================================================
