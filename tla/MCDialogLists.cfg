\* The reload of the lists, by a dialog that is closed and opened while the
\* run goes on.
SPECIFICATION DialogSpec
CONSTANTS
    MaxRuns = 2
    MaxLogged = 1
PROPERTIES
    ListsCatchUp
