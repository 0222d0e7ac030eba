SPECIFICATION Spec
CONSTANTS
    Protocols = {wireguard, hysteria2, reality, tuic}
    Specs = {wireguard, hysteria2, reality}
    CommandMode = {wireguard}
    None = None
    MaxLives = 2
CHECK_DEADLOCK FALSE
INVARIANTS
    NoOrphanTransport
    RuntimeMatchesSupervisor
