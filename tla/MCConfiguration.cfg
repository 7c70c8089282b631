CONSTANTS
    Malformed = Malformed
    Glob <- MCGlob
    DirectoryOf <- MCDirectoryOf
    DefaultPaths <- MCDefaultPaths
    Pickles <- MCPickles
    CommandLines <- MCCommandLines
    ConfigFiles <- MCConfigFiles
    Environments <- MCEnvironments
    Dialects <- MCDialects
    Exporting <- MCExporting
    OnlyImported = {"s1"}
SPECIFICATION ConfigurationSpec
INVARIANTS
    LaterLayerWins
    FiltersNarrow
    RepeatedOptionsKept
