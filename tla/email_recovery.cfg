SPECIFICATION FairSpec
CONSTANTS
    Shards = {s1, s2}
    MaxFailures = 2
    Texts <- EmptyText
    MaxErrLen = 3
    MaxChanges = 2
PROPERTY RecoversOnceTheProviderDoes
