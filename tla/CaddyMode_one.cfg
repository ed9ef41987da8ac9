\* One server beside srv0; hook, start-up pass and loop.
SPECIFICATION FairSpec
CONSTANTS
    Others = {s1}
    Found = {"absent", "disabled"}
INVARIANT TypeOK
PROPERTY AloneSets
PROPERTY OpensSecured
PROPERTY Converges
