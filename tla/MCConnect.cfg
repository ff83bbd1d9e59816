CONSTANTS
    LooseValues = {"a b", "x="}
    MaximumAddresses = 3
    MaximumRetryCount = 2
    MaximumSeconds = 3600
    Secrets <- MCSecrets
    Offers <- MCOffers
    Lookup <- MCLookup
    Literals = {"c"}
    MaximumResolved = 2
    MaximumRedirects = 2
    MaximumOpens = 4
SPECIFICATION Spec
INVARIANTS TriesEverything RedirectsStayInside CredentialsOnce PlansWhatIsWritten
PROPERTY ConnectEnds
CHECK_DEADLOCK FALSE
