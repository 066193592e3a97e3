------------------------------- MODULE MCWebsite -------------------------------
(* A behaviour is about the studio and the onboarding of one website, about   *)
(* the platform addresses of two, about the custom domains of two, or about   *)
(* what the visitors of one are given.  They share the website row, whose     *)
(* deletion takes everything along.                                           *)
EXTENDS WebsiteStudio, WebsiteAddresses, WebsiteDomains, PublicSite, TLC

VARIABLE part

MCSteps == <<"business_profile", "branding", "services", "website_address", "review_launch">>
MCMixes == {{"save", "publish", "restore", "lose"},
            {"save", "settings", "page", "booking"},
            {"step", "setup", "lose", "alone"},
            {"step", "save"},
            {"step", "settings", "lose"},
            {"step", "catalog", "profile", "alone"},
            {"launch", "save", "setup", "lose"},
            {"services", "launch", "setup", "alone"},
            {"services", "publish", "setup", "alone"},
            {"booking", "forms", "catalog", "alone"},
            {"images", "save", "publish", "restore", "alone"}}
MCImageMixes == {{"images", "publish", "restore", "alone"}}
MCCandidates == <<"a", "b">>
MCAddressMixes == {{"create", "rename", "provision", "purge"},
                   {"provision", "rename", "lookup"},
                   {"provision", "lookup", "errors", "crash"},
                   {"create", "purge", "lookup"}}
MCDomainMixes == {{"add", "verify", "primary"},
                  {"add", "verify", "primary", "remove", "release", "alone"},
                  {"add", "release", "verify"},
                  {"add", "verify", "crash"}}
MCSiteMixes == {{"edit", "publish", "wire"},
                {"publish", "rights"},
                {"forms", "wire", "edit"},
                {"forms", "legacy"},
                {"rights", "clock"},
                {"rights", "blind"},
                {"new", "publish", "forms"},
                {"reconcile", "forms"},
                {"reconcile", "edit"}}

MCInit ==
    /\ part \in {"studio", "addresses", "domains", "public"}
    /\ InitStudio(IF part = "studio" THEN MCMixes ELSE {{}})
    /\ InitAddresses(IF part = "addresses" THEN MCAddressMixes ELSE {{}})
    /\ InitDomains(IF part = "domains" THEN MCDomainMixes ELSE {{}})
    /\ InitSite(IF part = "public" THEN MCSiteMixes ELSE {{"new"}})
MCImageInit == part = "studio" /\ InitStudio(MCImageMixes) /\ InitAddresses({{}}) /\ InitDomains({{}}) /\ InitSite({{"new"}})

MCNext ==
    \/ part = "studio" /\ StudioNext /\ UNCHANGED <<part, addressVars, domainVars, siteVars>>
    \/ part = "addresses" /\ AddressNext /\ UNCHANGED <<part, studioVars, domainVars, siteVars>>
    \/ part = "domains" /\ DomainNext /\ UNCHANGED <<part, studioVars, addressVars, siteVars>>
    \/ part = "public" /\ SiteNext /\ UNCHANGED <<part, studioVars, addressVars, domainVars>>

MCVars == <<part, studioVars, addressVars, domainVars, siteVars>>
MCSpec == MCInit /\ [][MCNext]_MCVars
MCImageSpec == MCImageInit /\ [][MCNext]_MCVars

MCSymmetry == Permutations(Calls) \cup Permutations(Sites)
================================================================================
