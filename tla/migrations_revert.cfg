SPECIFICATION FreshSpec
CHECK_DEADLOCK FALSE
INVARIANT EveryMigrationReverts
