SPECIFICATION Spec
CONSTANTS
    Alice = Alice
    Bob = Bob
    Nobody = Nobody
    Handlers = {h1}
    Clients = "serial"
    MaxEarly = 2
PROPERTY ArchiveOnlyIgnored
