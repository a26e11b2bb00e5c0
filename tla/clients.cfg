\* Every builder and command, any of its accounts given, one of them of another bond or
\* one key changed on the way.
CONSTANTS
    Null = Null
    ProgramId = ProgramId
    Default = Default
    Other = Other
    v1 = v1
    v2 = v2
    MARINADE_CONFIG_ADDRESS = Default
    Configs <- MCConfigs
    Votes <- MCVotes
    Families <- MCFamilies
    WithCommission <- MCWithCommission
    Offers <- MCOffers
SPECIFICATION Spec
INVARIANTS TypeOK OneFamily SpokenFor FreshIsAccepted ClientsAgree ObserverReads
\* A call ends when it is thrown, taken or refused.
CHECK_DEADLOCK FALSE
