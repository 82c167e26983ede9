SPECIFICATION Spec
CONSTANTS
    None = None
    Cards = {a, b}
    Cabled = a
    Commands = {"reload", "probe", "only", "post", "remove", "mrrs", "direct", "flash", "program", "boot"}
    Selections = {a, b, None}
    MaxFaults = 2
PROPERTIES ReadyIsUsable NeverUnderDriver NobodyLeftBehind RecoverySucceeds
