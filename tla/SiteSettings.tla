----------------------------- MODULE SiteSettings ----------------------------
(***************************************************************************)
(* The settings of the site: the branding, which is one JSON value, and    *)
(* the contact details.                                                    *)
(*                                                                         *)
(* updateBranding() reads the value, works out the next one and upserts    *)
(* it.  nextValue() would keep the fields that the request does not have,  *)
(* but the request is an instance of a class whose fields are all its own, *)
(* so that every update replaces the branding whole and clears what it was *)
(* not sent; updateCompanyContact() replaces the contact details.          *)
(***************************************************************************)
CONSTANTS
    Designer,  \* updates of the branding that can be in flight
    Texts,     \* the texts of the fields
    NoText,    \* null
    NotSent    \* a field that a request does not contain; no request

\* BrandingSettings
Fields == {"logoUrl", "logoAlt", "faviconUrl"}

Branding == [Fields -> Texts \cup {NoText}]

ASSUME SettingsAssumption ==
    /\ NoText \notin Texts
    /\ NotSent \notin Texts \cup {NoText}
    /\ NotSent \notin Branding

VARIABLES
    stored,     \* whether the row `branding` exists
    branding,   \* its value, the default if it does not
    redesign,   \* for each update that has read it, what the update will write
    contact     \* the contact details: the default, or what was sent last

settingsVars == <<stored, branding, redesign, contact>>

SettingsTypeOK ==
    /\ stored \in BOOLEAN
    /\ branding \in Branding
    /\ redesign \in [Designer -> Branding \cup {NotSent}]
    /\ contact \in Texts \cup {NoText}

SettingsInit ==
    /\ stored = FALSE
    /\ branding = [f \in Fields |-> NoText]
    /\ redesign = [d \in Designer |-> NotSent]
    /\ contact = NoText

-----------------------------------------------------------------------------
\* What a request sends: some fields, each a text or null (a blank text is null)
Bodies == UNION {[fields -> Texts \cup {NoText}] : fields \in SUBSET Fields}

\* The instance that ValidationPipe makes of it: every field of the class is defined
\* (target ES2023), and one that was not sent is undefined, stored as null.
Received(body) == [f \in Fields |-> IF f \in DOMAIN body THEN body[f] ELSE NoText]

nextValue(dto, f) == IF f \in DOMAIN dto THEN dto[f] ELSE branding[f]

ReadBranding(d, body) ==
    /\ redesign[d] = NotSent
    /\ redesign' = [redesign EXCEPT ![d] = [f \in Fields |-> nextValue(Received(body), f)]]
    /\ UNCHANGED <<stored, branding, contact>>

\* The upsert
SaveBranding(d) ==
    /\ redesign[d] # NotSent
    /\ stored' = TRUE
    /\ branding' = redesign[d]
    /\ redesign' = [redesign EXCEPT ![d] = NotSent]
    /\ UNCHANGED contact

DropBranding(d) ==
    /\ redesign[d] # NotSent
    /\ redesign' = [redesign EXCEPT ![d] = NotSent]
    /\ UNCHANGED <<stored, branding, contact>>

\* updateCompanyContact()
ReplaceContact(text) ==
    /\ contact' = text
    /\ UNCHANGED <<stored, branding, redesign>>

SettingsNext ==
    \/ \E d \in Designer :
         \/ \E body \in Bodies : ReadBranding(d, body)
         \/ SaveBranding(d) \/ DropBranding(d)
    \/ \E text \in Texts : ReplaceContact(text)

SettingsSpec == SettingsInit /\ [][SettingsNext]_settingsVars

=============================================================================
