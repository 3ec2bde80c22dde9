SPECIFICATION FairSpec
CONSTANT MaxMishaps = 1
PROPERTY DispatchersRestarted
