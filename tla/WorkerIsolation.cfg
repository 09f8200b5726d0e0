\* A refused record is the only error that a loop does not catch.
SPECIFICATION FairSpec
CONSTANTS
    Rejecting = {"wazuh"}
    Breaking = {}
PROPERTY FailureIsIsolated
