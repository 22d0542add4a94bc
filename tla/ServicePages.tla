----------------------------- MODULE ServicePages -----------------------------
(***************************************************************************)
(* The parts of the service that share no state with one another, and none *)
(* with acceptance and submitting, one of them at a time: which one is     *)
(* chosen at the start, and the others stand still.  Templates never step: *)
(* they are any of the sites.                                              *)
(***************************************************************************)
EXTENDS NavigationHistory, AccountSession, NoteListing, CookieConsent, ObligationsHome,
        Translations

CONSTANT PlainSite \* the templates of the other parts

ASSUME PlainAssumption == PlainSite \in Sites

VARIABLE part

Parts == {"history", "session", "list", "consent", "home", "templates", "translations"}

PartsInit ==
    /\ TranslationInit
    /\ part \in Parts
    /\ part # "translations" => en = [k \in Keys |-> CHOOSE e \in English : TRUE]
    /\ part # "templates" => looks = [b \in Books |-> LookOf(PlainSite, b)]
    /\ HistoryInit
    /\ SessionInit /\ (part # "session" => account = CHOOSE a \in Accounts : TRUE)
    /\ ListInit /\ (part # "list" => listing = {})
    /\ ConsentInit /\ (part # "consent" => policy = "unset")
    /\ HomeInit /\ (part # "home" => \A m \in Months : month <= m)

\* One part steps, the others stand still.
PartsNext ==
    /\ UNCHANGED part
    /\ \/ /\ part = "history" /\ HistoryNext
          /\ UNCHANGED <<sessionVars, listVars, consentVars, homeVars, translationVars>>
       \/ /\ part = "session" /\ SessionNext
          /\ UNCHANGED <<historyVars, listVars, consentVars, homeVars, translationVars>>
       \/ /\ part = "list" /\ ListNext
          /\ UNCHANGED <<historyVars, sessionVars, consentVars, homeVars, translationVars>>
       \/ /\ part = "consent" /\ ConsentNext
          /\ UNCHANGED <<historyVars, sessionVars, listVars, homeVars, translationVars>>
       \/ /\ part = "home" /\ HomeNext
          /\ UNCHANGED <<historyVars, sessionVars, listVars, consentVars, translationVars>>
       \/ /\ part = "translations" /\ TranslationNext
          /\ UNCHANGED <<historyVars, sessionVars, listVars, consentVars, homeVars>>

PartsSpec == PartsInit /\ [][PartsNext]_<<part, historyVars, sessionVars, listVars, consentVars,
                                          homeVars, translationVars>>

\* Every part's state stays of its type.
PartsTypeOK ==
    /\ part \in Parts
    /\ part = "history" => HistoryTypeOK
    /\ part = "session" => SessionTypeOK
    /\ part = "list" => ListTypeOK
    /\ part = "consent" => ConsentTypeOK
    /\ part = "home" => HomeTypeOK
    /\ part \in {"templates", "translations"} => TranslationTypeOK
===============================================================================
