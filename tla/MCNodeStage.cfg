SPECIFICATION FairSpec
CONSTANTS
    Targets = {t1, t2}
    Kinds <- AllKinds
    MaxDeaths = 2
INVARIANT TypeOK
INVARIANT NeverServedWhileMounted
INVARIANT NoMountOutlivesDevice
INVARIANT UnstageLeavesNothing
INVARIANT StagedIsRecorded
INVARIANT PublishedShowsVolume
INVARIANT BoundStaysStaged
PROPERTY PublishRecovers
