CONSTANTS N = 4
          Endpoints <- MCEndpoints
SPECIFICATION FairSpec
INVARIANTS SyncStepsWait ValuesAreDetermined
PROPERTIES NothingAfterTheEnd EveryRequestSettles ImplementsDataflow
