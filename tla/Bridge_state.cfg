CONSTANTS
    Agents = {car}
    Flown = {}
    Walkers = {}
    CommandTimeout = 1
    EpisodeTime = 2
    MaxSteps = 3
    MaxCommands = 1
    MaxResets = 0
    MaxPauses = 0
SPECIFICATION Spec
PROPERTY StateOfTheTick
