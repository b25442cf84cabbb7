SPECIFICATION PartnerSpec
CONSTANTS
    Officers = {o1}
    Required = {gst}
    Copies = {k1}
    Contacts = {c1}
    Nothing = Nothing
CHECK_DEADLOCK FALSE
INVARIANTS
    ActiveHasContact
