CONSTANTS
    NumPlugins = 2
    NumFormatters = 3
    PluginFormatters <- MCPluginFormatters
SPECIFICATION Spec
INVARIANTS
    HeardByEveryone
    SuccessIsWhole
    CleanedUpInOrder
