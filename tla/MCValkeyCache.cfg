SPECIFICATION Spec
CONSTANTS
 Menus <- AllMenus
 Clients = {"c1", "c2"} Replicas = {"A", "B"} Keys = {"k"} Values = {0, 1}
 Checksums = {"g0", "g1"} Initial = "g0" Attempts = 2
 Absent = Absent Keep = Keep NoAsk = NoAsk NoCache = NoCache NoGen = NoGen
INVARIANTS NoLostUpdate
PROPERTIES ImplementsAtomic CallsReturn
