SPECIFICATION FairSpec
CONSTANTS
    Default = default
    IdServer = ids
    AppServer = aps
    Additional <- MCAdditional
    DefaultDocs <- MCDefaultDocs
    AdditionalDocs <- MCAdditionalDocs
    None = None
INVARIANTS TypeOK NamedServersAnswered AppsWereAllowed
PROPERTIES EveryStartEnds
