\* An old and a new server, the new one on Python 3.12 or later, a migrate command, and two
\* faults; the service manager gives up after two quick starts.
SPECIFICATION FairSpec
CONSTANTS
    new = new
    old = old
    command = command
    Servers = {new, old}
    Migrators = {command}
    Release <- MCRelease
    Spoilable = {"TLS", "no replay directory", "host key"}
    Waits = {new}
    Burst = 2
    MaxFaults = 2
INVARIANTS
    SchemaIsRecorded
    ServiceIsReady
PROPERTIES
    SomeServes
